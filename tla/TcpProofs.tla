------------------------------- MODULE TcpProofs -------------------------------
(***************************************************************************)
(* Proofs about Tcp: the types, and that the queues of a connection cover  *)
(* what is not acknowledged.                                               *)
(*                                                                         *)
(* A handler is a function from a host to a host, composed of the stack's  *)
(* own functions, so the proof goes function by function, each with a      *)
(* lemma: what it does to the types (Typed), which fields it leaves alone  *)
(* (Same), whether a netconn that is used is still open (Open), and what   *)
(* it does to the order of the two queues.  That order is Ordered: unacked *)
(* is a line of segments from b to m without a gap, unsent one from m to   *)
(* t, the acknowledged point is in the first segment, and t is where the   *)
(* next byte written goes.  A fast retransmission puts the first segment   *)
(* back on unsent while later ones stay on unacked (Ahead); tcp_output,    *)
(* at the end of the same handler, mends that, unless the driver refuses   *)
(* the segment: then the end counts as overtaken.                          *)
(***************************************************************************)
EXTENDS Tcp, SequenceTheorems, WellFoundedInduction, TLAPS

-----------------------------------------------------------------------------
(* Types.                                                                   *)
Payload == {p \in Seq(Int) : Len(p) <= Mss}    \* no segment has more than Mss units
Segs == [seq : Int, data : Payload, syn : BOOLEAN, fin : BOOLEAN]
Messages == [seq : Int, data : Payload, syn : BOOLEAN, fin : BOOLEAN, rst : BOOLEAN,
             ack : BOOLEAN, ackno : Int, wnd : Int]
States == Active \cup {"CLOSED", "LISTEN", "TIME_WAIT", "FAULT"}
Apps == {"start", "connect", "accept", "open", "took", "eof", "shut", "write", "written",
         "close", "done", "failed"}
Flags == {"ACK_DELAY", "ACK_NOW", "INFR", "RXCLOSED", "FIN", "NAGLEMEMERR"}
RecvFlags == {"RESET", "CLOSED", "GOT_FIN"}
Drivers == {"sends", "fails", "holds"}
Endings == {"no", "reset", "closed", "aborted", "timeout"}

PcbFields == {"state", "flags", "rcv_nxt", "rcv_wnd", "rcv_ann_wnd", "rcv_ann_right_edge",
              "rtime", "nrtx", "dupacks", "lastack", "cwnd", "snd_nxt", "snd_wl1", "snd_wl2",
              "snd_lbb", "snd_wnd", "snd_buf", "acked", "unsent", "unacked", "ooseq",
              "refused_data", "refused_fin", "persist"}
HandlerFields == {"input", "recv_data", "recv_flags", "out", "driver"}
ConnFields == {"app", "left", "recvmbox", "rcvopen", "took", "got", "eof", "ended", "held"}
Fields == PcbFields \cup HandlerFields \cup ConnFields

PcbTyped(d) ==
  /\ d.state \in States /\ d.flags \in SUBSET Flags
  /\ d.rcv_nxt \in Int /\ d.rcv_wnd \in Int /\ d.rcv_ann_wnd \in Int /\ d.rcv_ann_right_edge \in Int
  /\ d.rtime \in BOOLEAN /\ d.nrtx \in Int /\ d.dupacks \in Int /\ d.lastack \in Int
  /\ d.cwnd \in Int /\ d.snd_nxt \in Int /\ d.snd_wl1 \in Int /\ d.snd_wl2 \in Int
  /\ d.snd_lbb \in Int /\ d.snd_wnd \in Int /\ d.snd_buf \in Nat /\ d.acked \in Int
  /\ d.unsent \in Seq(Segs) /\ d.unacked \in Seq(Segs) /\ d.ooseq \in Seq(Segs)
  /\ d.refused_data \in Seq(Int) /\ d.refused_fin \in BOOLEAN /\ d.persist \in BOOLEAN
HandlerTyped(d) ==
  /\ d.input \in BOOLEAN /\ d.recv_data \in Seq(Int) /\ d.recv_flags \in SUBSET RecvFlags
  /\ d.out \in Seq(Messages) /\ d.driver \in Drivers
ConnTyped(d) ==
  /\ d.app \in Apps /\ d.left \in Nat /\ d.recvmbox \in Seq(Seq(Int)) /\ d.rcvopen \in BOOLEAN
  /\ d.took \in Nat /\ d.got \in Seq(Int) /\ d.eof \in BOOLEAN /\ d.ended \in Endings
  /\ d.held \in SUBSET Int
Typed(d) == DOMAIN d = Fields /\ PcbTyped(d) /\ HandlerTyped(d) /\ ConnTyped(d)

(* What an operation leaves alone: all but the fields in S.                 *)
Same(d, r, S) == DOMAIN r = Fields /\ \A x \in Fields \ S : r[x] = d[x]

LEMMA SameTwice ==
  ASSUME NEW d, NEW r, NEW q, NEW S, NEW T, Same(d, r, S), Same(r, q, T)
  PROVE  Same(d, q, S \cup T)
  BY DEF Same

LEMMA SameMore ==
  ASSUME NEW d, NEW r, NEW S, NEW T, Same(d, r, S), S \subseteq T
  PROVE  Same(d, r, T)
  BY DEF Same

LEMMA Constants == Mss \in Nat \ {0} /\ Wnd \in Nat /\ SndBuf \in Nat /\ Mbox \in Nat
  BY SizeAssumption DEF SndBuf

LEMMA WithFacts ==
  ASSUME NEW d, NEW f
  PROVE  /\ DOMAIN With(d, f) = DOMAIN d \cup DOMAIN f
         /\ \A x \in DOMAIN f : With(d, f)[x] = f[x]
         /\ \A x \in DOMAIN d \ DOMAIN f : With(d, f)[x] = d[x]
  BY DEF With

LEMMA PayloadFacts ==
  /\ <<>> \in Payload
  /\ \A p \in Payload : p \in Seq(Int) /\ Len(p) \in Nat /\ Len(p) <= Mss
<1>1. <<>> \in Seq(Int) /\ Len(<<>>) = 0
  BY EmptySeq
<1>2. \A p \in Payload : p \in Seq(Int) /\ Len(p) <= Mss
  BY DEF Payload
<1>3. \A p \in Payload : Len(p) \in Nat
  BY <1>2, LenProperties
<1> QED BY <1>1, <1>2, <1>3, Constants DEF Payload

LEMMA NoPcbTyped == DOMAIN NoPcb = PcbFields /\ PcbTyped(NoPcb)
<1>1. <<>> \in Seq(Segs) /\ <<>> \in Seq(Int)
  BY EmptySeq
<1> QED BY <1>1, Constants DEF NoPcb, PcbFields, PcbTyped, States, Active, Flags

LEMMA MinOf == \A a, b \in Int : Min({a, b}) = IF a <= b THEN a ELSE b
<1> SUFFICES ASSUME NEW a \in Int, NEW b \in Int PROVE Min({a, b}) = IF a <= b THEN a ELSE b
  OBVIOUS
<1> DEFINE m == IF a <= b THEN a ELSE b
<1>1. m \in {a, b} /\ \A y \in {a, b} : m <= y
  OBVIOUS
<1>2. \A x \in {a, b} : (\A y \in {a, b} : x <= y) => x = m
  OBVIOUS
<1> QED BY <1>1, <1>2 DEF Min

LEMMA MaxOf == \A a, b \in Int : Max({a, b}) = IF a >= b THEN a ELSE b
<1> SUFFICES ASSUME NEW a \in Int, NEW b \in Int PROVE Max({a, b}) = IF a >= b THEN a ELSE b
  OBVIOUS
<1> DEFINE m == IF a >= b THEN a ELSE b
<1>1. m \in {a, b} /\ \A y \in {a, b} : m >= y
  OBVIOUS
<1>2. \A x \in {a, b} : (\A y \in {a, b} : x >= y) => x = m
  OBVIOUS
<1> QED BY <1>1, <1>2 DEF Max

-----------------------------------------------------------------------------
(* Induction.  The natural numbers are well-founded, so that the smallest   *)
(* number for which a fact fails can be considered.                         *)
LEMMA LeastNat ==
  ASSUME NEW T \in SUBSET Nat, T # {}
  PROVE  \E n \in T : \A m \in T : n <= m
<1> DEFINE R == OpToRel(<, Nat)
<1>1. IsWellFoundedOn(R, Nat)
  BY NatLessThanWellFounded
<1>2. \A x, y \in Nat : x < y => <<x, y>> \in R
  BY DEF OpToRel
<1> HIDE DEF R
<1>3. PICK n \in T : \A m \in T : ~(<<m, n>> \in R)
  BY <1>1, WFMin
<1>4. ASSUME NEW m \in T PROVE n <= m
  <2>1. m \in Nat /\ n \in Nat /\ ~(m < n)
    BY <1>2, <1>3
  <2> QED BY <2>1
<1> QED BY <1>4

(* Induction over a beginning of the natural numbers, for a set.           *)
LEMMA Induction ==
  ASSUME NEW n \in Nat, NEW T, 0 \in T, \A i \in 0..n - 1 : i \in T => i + 1 \in T
  PROVE  \A i \in 0..n : i \in T
<1> SUFFICES ASSUME {i \in 0..n : i \notin T} # {} PROVE FALSE
  OBVIOUS
<1> DEFINE U == {i \in 0..n : i \notin T}
<1>1. U \in SUBSET Nat /\ U # {}
  OBVIOUS
<1>2. PICK m \in U : \A k \in U : m <= k
  <2> HIDE DEF U
  <2> QED BY <1>1, LeastNat
<1>3. m \in 0..n /\ m \notin T /\ m # 0
  OBVIOUS
<1>4. m - 1 \in 0..n - 1 /\ m - 1 \in 0..n /\ ~(m <= m - 1) /\ (m - 1) + 1 = m
  BY <1>3
<1>5. m - 1 \in T
  BY <1>2, <1>4
<1> QED BY <1>3, <1>4, <1>5

-----------------------------------------------------------------------------
(* tcp_out.c: segments and what is sent.                                   *)



(* The type of a field.                                                     *)
IsTyped(x, v) ==
  /\ x = "state" => v \in States
  /\ x \in {"flags"} => v \in SUBSET Flags
  /\ x \in {"rcv_nxt", "rcv_wnd", "rcv_ann_wnd", "rcv_ann_right_edge", "nrtx", "dupacks", "lastack",
            "cwnd", "snd_nxt", "snd_wl1", "snd_wl2", "snd_lbb", "snd_wnd", "acked"}
       => v \in Int
  /\ x \in {"rtime", "refused_fin", "persist", "input", "rcvopen", "eof"} => v \in BOOLEAN
  /\ x \in {"unsent", "unacked", "ooseq"} => v \in Seq(Segs)
  /\ x \in {"refused_data", "recv_data", "got"} => v \in Seq(Int)
  /\ x = "recvmbox" => v \in Seq(Seq(Int))
  /\ x = "recv_flags" => v \in SUBSET RecvFlags
  /\ x = "out" => v \in Seq(Messages)
  /\ x = "driver" => v \in Drivers
  /\ x = "app" => v \in Apps
  /\ x \in {"left", "took", "snd_buf"} => v \in Nat
  /\ x = "ended" => v \in Endings
  /\ x = "held" => v \in SUBSET Int

LEMMA Retyped ==
  ASSUME NEW d, NEW r, NEW S, Typed(d), Same(d, r, S), \A x \in S : IsTyped(x, r[x])
  PROVE  Typed(r)
<1>1. \A x \in Fields : IsTyped(x, r[x])
  <2>1. \A x \in Fields : IsTyped(x, d[x])
    <3>1. \A x \in PcbFields : IsTyped(x, d[x])
      BY SMTT(30) DEF IsTyped, PcbFields, Typed, PcbTyped
    <3>2. \A x \in HandlerFields : IsTyped(x, d[x])
      BY SMTT(30) DEF IsTyped, HandlerFields, Typed, HandlerTyped
    <3>3. \A x \in ConnFields : IsTyped(x, d[x])
      BY SMTT(30) DEF IsTyped, ConnFields, Typed, ConnTyped
    <3> QED BY <3>1, <3>2, <3>3 DEF Fields
  <2> QED BY <2>1 DEF Same
<1>2. PcbTyped(r)
  BY <1>1 DEF IsTyped, PcbTyped, Fields, PcbFields
<1>3. HandlerTyped(r) /\ ConnTyped(r)
  BY <1>1 DEF IsTyped, HandlerTyped, ConnTyped, Fields, HandlerFields, ConnFields
<1> QED BY <1>2, <1>3 DEF Typed, Same

LEMMA AnnounceKeeps ==
  ASSUME NEW d, Typed(d)
  PROVE  Typed(Announce(d)) /\ Same(d, Announce(d), {"rcv_ann_right_edge"})
<1>1. Same(d, Announce(d), {"rcv_ann_right_edge"})
  BY DEF Announce, Same, Typed
<1>2. Announce(d).rcv_ann_right_edge \in Int
  BY SMTT(30) DEF Announce, Typed, PcbTyped, Fields, PcbFields
<1> QED BY <1>1, <1>2, Retyped DEF IsTyped

LEMMA EmitKeeps ==
  ASSUME NEW d, NEW m \in Messages, Typed(d)
  PROVE  Typed(Emit(d, m)) /\ Same(d, Emit(d, m), {"out"})
<1>1. Same(d, Emit(d, m), {"out"})
  BY DEF Emit, Same, Typed
<1>2. Emit(d, m).out \in Seq(Messages)
  BY AppendProperties DEF Emit, Typed, HandlerTyped, Fields, HandlerFields
<1> QED BY <1>1, <1>2, Retyped DEF IsTyped

LEMMA WireType ==
  ASSUME NEW d, NEW s \in Segs, Typed(d)
  PROVE  Wire(d, s) \in Messages
  BY DEF Wire, Messages, Segs, Typed, PcbTyped

LEMMA FlagsKeep ==
  ASSUME NEW d, NEW f \in SUBSET Flags, Typed(d)
  PROVE  /\ Typed(Set(d, f)) /\ Same(d, Set(d, f), {"flags"})
         /\ Typed(Clear(d, f)) /\ Same(d, Clear(d, f), {"flags"})
<1>1. Same(d, Set(d, f), {"flags"}) /\ Same(d, Clear(d, f), {"flags"})
  BY DEF Set, Clear, Same, Typed
<1>2. Set(d, f).flags \in SUBSET Flags /\ Clear(d, f).flags \in SUBSET Flags
  BY DEF Set, Clear, Typed, PcbTyped, Fields, PcbFields
<1> QED BY <1>1, <1>2, Retyped DEF IsTyped

LEMMA SegmentType ==
  ASSUME NEW seq \in Int, NEW data \in Payload, NEW syn \in BOOLEAN, NEW fin \in BOOLEAN
  PROVE  Segment(seq, data, syn, fin) \in Segs
  BY DEF Segment, Segs

LEMMA SegmentFacts ==
  ASSUME NEW s \in Segs
  PROVE  /\ s.seq \in Int /\ s.data \in Payload /\ s.data \in Seq(Int) /\ Len(s.data) <= Mss
         /\ s.syn \in BOOLEAN /\ s.fin \in BOOLEAN
         /\ TcpLen(s) \in Nat /\ SegEnd(s) \in Int /\ DataEnd(s) \in Int
         /\ Len(s.data) \in Nat /\ SegEnd(s) = s.seq + TcpLen(s)
         /\ DataEnd(s) = s.seq + Len(s.data)
<1>1. s.seq \in Int /\ s.data \in Payload /\ s.syn \in BOOLEAN /\ s.fin \in BOOLEAN
  BY DEF Segs
<1>2. s.data \in Seq(Int) /\ Len(s.data) \in Nat /\ Len(s.data) <= Mss
  BY <1>1, PayloadFacts
<1>3. TcpLen(s) \in Nat
  <2> DEFINE flag == IF s.syn \/ s.fin THEN 1 ELSE 0
  <2>1. flag \in {0, 1} /\ TcpLen(s) = Len(s.data) + flag
    BY DEF TcpLen
  <2> HIDE DEF flag
  <2> QED BY <1>2, <2>1
<1>4. SegEnd(s) = s.seq + TcpLen(s) /\ DataEnd(s) = s.seq + Len(s.data)
  BY DEF SegEnd, DataEnd
<1> QED BY <1>1, <1>2, <1>3, <1>4

LEMMA ResetType ==
  ASSUME NEW seq \in Int, NEW ackno \in Int
  PROVE  Reset(seq, ackno) \in Messages
<1> QED BY PayloadFacts, Constants DEF Reset, Messages

LEMMA EmptyAckKeeps ==
  ASSUME NEW d, Typed(d)
  PROVE  Typed(SendEmptyAck(d)) /\ Same(d, SendEmptyAck(d), {"out", "flags", "rcv_ann_right_edge"})
<1> DEFINE b == Announce(d)
           m == Wire(d, Segment(d.snd_nxt, <<>>, FALSE, FALSE))
           a == Emit(b, m)
           f == {"ACK_DELAY", "ACK_NOW"}
           c == Clear(a, f)
           S == {"out", "flags", "rcv_ann_right_edge"}
<1>1. m \in Messages
  <2>1. <<>> \in Payload /\ d.snd_nxt \in Int
    BY PayloadFacts DEF Typed, PcbTyped
  <2>2. Segment(d.snd_nxt, <<>>, FALSE, FALSE) \in Segs
    BY <2>1, SegmentType
  <2> QED BY <2>2, WireType
<1>2. Typed(b) /\ Same(d, b, {"rcv_ann_right_edge"})
  BY AnnounceKeeps
<1>3. Typed(a) /\ Same(b, a, {"out"})
  <2> HIDE DEF b, m
  <2> QED BY <1>1, <1>2, EmitKeeps
<1>4. f \in SUBSET Flags
  BY DEF Flags
<1>5. Typed(Set(a, f)) /\ Same(a, Set(a, f), {"flags"}) /\ Typed(c) /\ Same(a, c, {"flags"})
  <2> HIDE DEF a, f
  <2> QED BY <1>3, <1>4, FlagsKeep
<1>6. Same(d, Set(a, f), S) /\ Same(d, c, S)
  <2> HIDE DEF a, b, c, f
  <2> QED BY <1>2, <1>3, <1>5 DEF Same
<1>7. CASE d.driver = "fails"
  BY <1>5, <1>6, <1>7 DEF SendEmptyAck
<1>8. CASE d.driver # "fails"
  <2> DEFINE r == [c EXCEPT !.out[Len(a.out)].ack = TRUE]
  <2>1. b.driver = d.driver
    BY <1>2 DEF Same, Fields, HandlerFields
  <2>2. a.out = Append(b.out, m) /\ b.out \in Seq(Messages)
    BY <2>1, <1>2, <1>8 DEF Emit, Typed, HandlerTyped, Fields, HandlerFields
  <2>3. c.out = a.out /\ c.out \in Seq(Messages) /\ DOMAIN c = Fields
    BY <1>5 DEF Same, Fields, HandlerFields, Typed, HandlerTyped
  <2>4. Len(a.out) \in 1 .. Len(c.out)
    <3> HIDE DEF a, b, c, m
    <3> QED BY <1>1, <2>2, <2>3, AppendProperties, LenProperties
  <2>5. Same(c, r, {"out"})
    <3> HIDE DEF a, b, c, m
    <3> QED BY <2>3 DEF Same
  <2>6. r.out \in Seq(Messages)
    <3> HIDE DEF a, b, c, m
    <3> DEFINE n == Len(a.out)
    <3>1. c.out[n] \in Messages
      BY <2>3, <2>4, ElementOfSeq
    <3>2. [c.out[n] EXCEPT !.ack = TRUE] \in Messages
      BY <3>1 DEF Messages
    <3>3. r.out = [c.out EXCEPT ![n] = [c.out[n] EXCEPT !.ack = TRUE]]
      BY <2>3 DEF Fields, HandlerFields
    <3> QED BY <3>2, <3>3, <2>3, <2>4, ExceptSeq
  <2>7. Typed(r)
    <3> HIDE DEF r, c
    <3> QED BY <2>5, <2>6, <1>5, Retyped DEF IsTyped
  <2>8. Same(d, r, S)
    <3> HIDE DEF r, c
    <3> QED BY <2>5, <1>6 DEF Same
  <2> QED BY <2>7, <2>8, <1>8 DEF SendEmptyAck
<1> QED BY <1>7, <1>8

LEMMA OutputSegmentKeeps ==
  ASSUME NEW d, Typed(d), NEW s \in Segs
  PROVE  /\ Typed(OutputSegment(d, s))
         /\ Same(d, OutputSegment(d, s), {"out", "rcv_ann_right_edge", "rtime", "held"})
<1> DEFINE b == Announce(d)
           m == Wire(d, s)
           a == Emit(b, m)
           r == [a EXCEPT !.rtime = TRUE, !.held = IF d.driver = "holds" THEN @ \cup {s.seq} ELSE @]
           S == {"out", "rcv_ann_right_edge", "rtime", "held"}
<1>1. m \in Messages
  BY WireType
<1>2. Typed(b) /\ Same(d, b, {"rcv_ann_right_edge"})
  BY AnnounceKeeps
<1>3. Typed(a) /\ Same(b, a, {"out"})
  <2> HIDE DEF b, m
  <2> QED BY <1>1, <1>2, EmitKeeps
<1>4. Same(a, r, {"rtime", "held"}) /\ Typed(r)
  <2> HIDE DEF a
  <2>1. Same(a, r, {"rtime", "held"})
    BY <1>3 DEF Same, Typed
  <2>2. r.rtime \in BOOLEAN /\ r.held \in SUBSET Int
    BY <1>3, SegmentFacts DEF Typed, ConnTyped, Fields, PcbFields, ConnFields
  <2> HIDE DEF r
  <2> QED BY <2>1, <2>2, <1>3, Retyped DEF IsTyped
<1>5. Same(d, r, S)
  <2> HIDE DEF a, b, r
  <2> QED BY <1>2, <1>3, <1>4 DEF Same
<1>6. Same(d, d, S)
  BY DEF Same, Typed
<1> QED BY <1>4, <1>5, <1>6 DEF OutputSegment

-----------------------------------------------------------------------------
(* The loops that walk a queue.                                             *)
LEMMA RunFacts ==
  ASSUME NEW q, Len(q) \in Nat, NEW S, S \subseteq 1 .. Len(q)
  PROVE  /\ Run(q, S) \in 0 .. Len(q)
         /\ \A i \in 1 .. Run(q, S) : i \in S
         /\ Run(q, S) + 1 \notin S
<1> DEFINE T == {n \in Nat : n + 1 \notin S}
<1>1. Len(q) \in T
  OBVIOUS
<1>2. PICK n \in T : \A m \in T : n <= m
  <2>1. T \in SUBSET Nat /\ T # {}
    BY <1>1
  <2> HIDE DEF T
  <2> QED BY <2>1, LeastNat
<1>3. n \in 0 .. Len(q) /\ n + 1 \notin S
  <2>1. n <= Len(q) /\ n \in Nat /\ n + 1 \notin S
    BY <1>1, <1>2
  <2> QED BY <2>1
<1>4. 1 .. n \subseteq S
  <2> SUFFICES ASSUME NEW i \in 1 .. n, i \notin S PROVE FALSE
    OBVIOUS
  <2>1. i - 1 \in T /\ ~(n <= i - 1)
    BY <1>3
  <2> QED BY <2>1, <1>2
<1>5. \E k \in 0 .. Len(q) : 1 .. k \subseteq S /\ k + 1 \notin S
  BY <1>3, <1>4
<1> DEFINE k == Run(q, S)
<1>6. k \in 0 .. Len(q) /\ 1 .. k \subseteq S /\ k + 1 \notin S
  BY <1>5 DEF Run
<1> QED BY <1>6

LEMMA UpToFacts ==
  ASSUME NEW T, NEW q \in Seq(T), NEW n \in 0 .. Len(q)
  PROVE  /\ UpTo(q, n) \in Seq(T) /\ Len(UpTo(q, n)) = n
         /\ \A i \in 1 .. n : UpTo(q, n)[i] = q[i]
<1>1. Len(q) \in Nat /\ \A i \in 1 .. n : q[i] \in T
  BY LenProperties, ElementOfSeq
<1>2. UpTo(q, n) \in Seq(T)
  BY <1>1, SubSeqProperties DEF UpTo
<1> QED BY <1>1, <1>2, SubSeqProperties DEF UpTo

LEMMA BehindFacts ==
  ASSUME NEW T, NEW q \in Seq(T), NEW n \in 0 .. Len(q)
  PROVE  /\ Behind(q, n) \in Seq(T) /\ Len(Behind(q, n)) = Len(q) - n
         /\ \A i \in 1 .. Len(q) - n : Behind(q, n)[i] = q[n + i]
<1>1. Len(q) \in Nat
  BY LenProperties
<1>2. Behind(q, n) \in Seq(T)
  BY <1>1, SubSeqProperties DEF Behind
<1> QED BY <1>1, <1>2, SubSeqProperties DEF Behind

LEMMA InOrderType ==
  ASSUME NEW q \in Seq(Segs), NEW s \in Segs
  PROVE  InOrder(q, s) \in Seq(Segs)
<1> DEFINE n == Run(q, {i \in DOMAIN q : q[i].seq < s.seq})
<1>1. Len(q) \in Nat /\ DOMAIN q = 1 .. Len(q)
  BY LenProperties
<1>2. n \in 0 .. Len(q)
  BY <1>1, RunFacts
<1> HIDE DEF n
<1>3. UpTo(q, n) \in Seq(Segs) /\ Behind(q, n) \in Seq(Segs) /\ <<s>> \in Seq(Segs)
  BY <1>2, UpToFacts, BehindFacts
<1>4. UpTo(q, n) \o <<s>> \in Seq(Segs)
  BY <1>3, ConcatProperties
<1>5. UpTo(q, n) \o <<s>> \o Behind(q, n) \in Seq(Segs)
  BY <1>3, <1>4, ConcatProperties
<1> QED BY <1>5 DEF InOrder, n

(* Where a segment goes that is behind, or in front of, all of a queue.     *)
LEMMA InOrderLast ==
  ASSUME NEW q \in Seq(Segs), NEW s \in Segs, \A i \in 1 .. Len(q) : q[i].seq < s.seq
  PROVE  InOrder(q, s) = q \o <<s>>
<1> DEFINE S == {i \in DOMAIN q : q[i].seq < s.seq}
           n == Run(q, S)
<1>1. Len(q) \in Nat /\ DOMAIN q = 1 .. Len(q)
  BY LenProperties
<1>2. n \in 0 .. Len(q) /\ n + 1 \notin S
  BY <1>1, RunFacts
<1>3. n = Len(q)
  BY <1>1, <1>2
<1>4. UpTo(q, n) = q /\ Behind(q, n) = <<>>
  <2> HIDE DEF n
  <2>1. UpTo(q, n) = q
    BY <1>3, SubSeqFull DEF UpTo
  <2>2. Behind(q, n) = <<>>
    BY <1>1, <1>3, SubSeqEmpty DEF Behind
  <2> QED BY <2>1, <2>2
<1>5. q \o <<s>> \in Seq(Segs)
  BY ConcatProperties
<1>6. InOrder(q, s) = UpTo(q, n) \o <<s>> \o Behind(q, n)
  BY DEF InOrder
<1> HIDE DEF n
<1> QED BY <1>4, <1>5, <1>6, ConcatEmptySeq

LEMMA InOrderFirst ==
  ASSUME NEW q \in Seq(Segs), NEW s \in Segs, q # <<>> => ~(q[1].seq < s.seq)
  PROVE  InOrder(q, s) = <<s>> \o q
<1> DEFINE S == {i \in DOMAIN q : q[i].seq < s.seq}
           n == Run(q, S)
<1>1. Len(q) \in Nat /\ DOMAIN q = 1 .. Len(q) /\ (q = <<>> => Len(q) = 0)
  BY LenProperties
<1>2. n \in 0 .. Len(q) /\ \A i \in 1 .. n : i \in S
  BY <1>1, RunFacts
<1>3. n = 0
  <2> SUFFICES ASSUME n # 0 PROVE FALSE
    OBVIOUS
  <2>1. 1 \in 1 .. n
    BY <1>2
  <2>2. 1 \in S
    BY <1>2, <2>1
  <2> QED BY <2>2, <1>1
<1>4. UpTo(q, n) = <<>> /\ Behind(q, n) = q
  <2> HIDE DEF n
  <2>1. UpTo(q, n) = <<>>
    BY <1>3, SubSeqEmpty DEF UpTo
  <2>2. Behind(q, n) = q
    BY <1>1, <1>3, SubSeqFull DEF Behind
  <2> QED BY <2>1, <2>2
<1>5. <<s>> \in Seq(Segs)
  OBVIOUS
<1>6. InOrder(q, s) = UpTo(q, n) \o <<s>> \o Behind(q, n)
  BY DEF InOrder
<1> HIDE DEF n
<1>7. InOrder(q, s) = <<>> \o <<s>> \o q
  BY <1>4, <1>6
<1> QED BY <1>5, <1>7, ConcatEmptySeq

-----------------------------------------------------------------------------
(* tcp_output.                                                              *)
OutputFields == {"out", "rcv_ann_right_edge", "flags", "rtime", "held", "unsent", "unacked", "snd_nxt"}

SentOne(d, r) ==
  /\ d.unsent # <<>> /\ r.unsent = Tail(d.unsent)
  /\ r.snd_nxt = Max({d.snd_nxt, SegEnd(Head(d.unsent))})
  /\ r.unacked = InOrder(d.unacked, Head(d.unsent))

LEMMA SendNextKeeps ==
  ASSUME NEW d, Typed(d)
  PROVE  /\ Typed(SendNext(d)) /\ Same(d, SendNext(d), OutputFields)
         /\ Stops(d) \/ Refused(d) => SendNext(d) = d
         /\ ~Stops(d) /\ ~Refused(d) => SentOne(d, SendNext(d))
<1>0. Same(d, d, OutputFields)
  BY DEF Same, Typed
<1>1. CASE Stops(d) \/ Refused(d)
  BY <1>0, <1>1 DEF SendNext
<1>2. CASE ~Stops(d) /\ ~Refused(d)
  <2> DEFINE s == Head(d.unsent)
             acked == IF d.state = "SYN_SENT" THEN {} ELSE {"ACK_DELAY", "ACK_NOW"}
             a == OutputSegment(d, s)
             c == Clear(a, acked)
             r == [c EXCEPT !.unsent = Tail(@), !.snd_nxt = Max({@, SegEnd(s)}),
                            !.unacked = InOrder(@, s)]
             T == {"unsent", "snd_nxt", "unacked"}
  <2>1. d.unsent \in Seq(Segs) /\ d.unsent # <<>>
    BY <1>2 DEF Stops, Typed, PcbTyped
  <2>2. s \in Segs
    BY <2>1, HeadTailProperties
  <2>3. Typed(a) /\ Same(d, a, {"out", "rcv_ann_right_edge", "rtime", "held"})
    <3> HIDE DEF s
    <3> QED BY <2>2, OutputSegmentKeeps
  <2>4. Typed(c) /\ Same(a, c, {"flags"})
    <3>1. acked \in SUBSET Flags
      BY DEF Flags
    <3> HIDE DEF a, acked
    <3> QED BY <2>3, <3>1, FlagsKeep
  <2>5. c.unsent = d.unsent /\ c.unacked \in Seq(Segs) /\ c.snd_nxt \in Int /\ DOMAIN c = Fields
    <3> HIDE DEF a, c
    <3> QED BY <2>3, <2>4 DEF Same, Typed, PcbTyped, Fields, PcbFields
  <2> HIDE DEF s, acked, a, c
  <2>6. Same(c, r, T)
    BY <2>5 DEF Same
  <2>7. /\ r.unsent = Tail(c.unsent) /\ r.snd_nxt = Max({c.snd_nxt, SegEnd(s)})
        /\ r.unacked = InOrder(c.unacked, s)
    BY <2>5 DEF Fields, PcbFields
  <2>8. Typed(r)
    <3>1. r.unsent \in Seq(Segs)
      BY <2>1, <2>5, <2>7, HeadTailProperties
    <3>2. r.snd_nxt \in Int
      <4>1. SegEnd(s) \in Int
        BY <2>2, SegmentFacts
      <4> QED BY <2>5, <2>7, <4>1, MaxOf
    <3>3. r.unacked \in Seq(Segs)
      BY <2>2, <2>5, <2>7, InOrderType
    <3> HIDE DEF r
    <3> QED BY <2>4, <2>6, <3>1, <3>2, <3>3, Retyped DEF IsTyped
  <2>9. Same(d, r, OutputFields)
    <3> HIDE DEF r
    <3> QED BY <2>3, <2>4, <2>6 DEF Same, OutputFields
  <2>10. SendNext(d) = r
    BY <1>2 DEF SendNext, s, acked, a, c
  <2>11. r.unsent = Tail(d.unsent) /\ r.snd_nxt = Max({d.snd_nxt, SegEnd(s)})
         /\ r.unacked = InOrder(d.unacked, s)
    <3>1. c.unacked = d.unacked /\ c.snd_nxt = d.snd_nxt
      BY <2>3, <2>4 DEF Same, Fields, PcbFields
    <3> QED BY <3>1, <2>5, <2>7
  <2> HIDE DEF r
  <2>12. SentOne(d, r)
    BY <2>1, <2>11 DEF SentOne, s
  <2> QED BY <1>2, <2>8, <2>9, <2>10, <2>12
<1> QED BY <1>1, <1>2

(* The turns of the loop, and what follows the last of them.               *)
Turns(d, k, turn) ==
  /\ turn = [n \in 0 .. k |-> IF n = 0 THEN d ELSE SendNext(turn[n - 1])]
EndTurns(last) ==
  IF Stops(last) THEN Clear(last, {"NAGLEMEMERR"})
  ELSE Set(OutputSegment(last, Head(last.unsent)), {"NAGLEMEMERR"})

LEMMA TurnsExist ==
  ASSUME NEW d, NEW k \in Nat
  PROVE  \E turn : Turns(d, k, turn)
<1> DEFINE T == {m \in 0 .. k : \E turn : Turns(d, m, turn)}
<1>1. 0 \in T
  <2> DEFINE g == [n \in 0 .. 0 |-> d]
  <2>1. g = [n \in 0 .. 0 |-> IF n = 0 THEN d ELSE SendNext(g[n - 1])]
    OBVIOUS
  <2> HIDE DEF g
  <2> QED BY <2>1 DEF Turns
<1>2. ASSUME NEW m \in 0 .. k - 1, m \in T PROVE m + 1 \in T
  <2>1. PICK f : Turns(d, m, f)
    BY <1>2
  <2> DEFINE g == [n \in 0 .. m + 1 |-> IF n = m + 1 THEN SendNext(f[m]) ELSE f[n]]
             G == [n \in 0 .. m + 1 |-> IF n = 0 THEN d ELSE SendNext(g[n - 1])]
  <2>2. ASSUME NEW n \in 0 .. m + 1 PROVE g[n] = G[n]
    <3>1. CASE n = m + 1
      <4>1. g[n] = SendNext(f[m]) /\ n # 0 /\ n - 1 = m /\ m \in 0 .. m + 1
        BY <3>1
      <4>2. g[m] = f[m]
        BY <4>1
      <4> QED BY <4>1, <4>2
    <3>2. CASE n = 0
      <4>1. f[0] = d /\ m # -1
        BY <2>1 DEF Turns
      <4> QED BY <4>1, <3>2
    <3>3. CASE n \in 1 .. m
      <4>1. f[n] = SendNext(f[n - 1]) /\ n \in 0 .. m /\ n - 1 \in 0 .. m + 1 /\ n - 1 # m + 1
        BY <2>1, <3>3 DEF Turns
      <4>2. g[n] = f[n] /\ g[n - 1] = f[n - 1]
        BY <3>3, <4>1
      <4> QED BY <4>1, <4>2, <3>3
    <3> QED BY <3>1, <3>2, <3>3
  <2>3. g = G
    BY <2>2
  <2>4. Turns(d, m + 1, g)
    <3> HIDE DEF g
    <3> QED BY <2>3 DEF Turns
  <2> HIDE DEF g
  <2> QED BY <2>4
<1>3. k \in T
  <2> HIDE DEF T
  <2> QED BY <1>1, <1>2, Induction
<1> QED BY <1>3

LEMMA SendTurns ==
  ASSUME NEW d, Typed(d)
  PROVE  \E turn :
            /\ turn[0] = d
            /\ \A n \in 1 .. Len(d.unsent) : turn[n] = SendNext(turn[n - 1])
            /\ SendUnsent(d) = EndTurns(turn[Len(d.unsent)])
<1> DEFINE k == Len(d.unsent)
           turn == CHOOSE f : Turns(d, k, f)
<1>1. k \in Nat
  BY LenProperties DEF Typed, PcbTyped
<1>2. Turns(d, k, turn)
  <2> HIDE DEF k
  <2> QED BY <1>1, TurnsExist
<1>3. SendUnsent(d) = EndTurns(turn[k])
  BY DEF SendUnsent, EndTurns, Turns
<1>4. turn[0] = d /\ \A n \in 1 .. k : turn[n] = SendNext(turn[n - 1])
  <2> HIDE DEF turn, k
  <2>1. turn[0] = d
    BY <1>1, <1>2 DEF Turns
  <2>2. \A n \in 1 .. k : n \in 0 .. k /\ n # 0
    BY <1>1
  <2> QED BY <2>1, <2>2, <1>2 DEF Turns
<1> QED BY <1>3, <1>4

LEMMA EndTurnsKeeps ==
  ASSUME NEW d, Typed(d)
  PROVE  /\ Typed(EndTurns(d))
         /\ Same(d, EndTurns(d), {"out", "rcv_ann_right_edge", "rtime", "held", "flags"})
<1> DEFINE f == {"NAGLEMEMERR"}
           a == OutputSegment(d, Head(d.unsent))
           S == {"out", "rcv_ann_right_edge", "rtime", "held", "flags"}
<1>1. f \in SUBSET Flags
  BY DEF Flags
<1>2. CASE Stops(d)
  <2>1. Typed(Clear(d, f)) /\ Same(d, Clear(d, f), {"flags"})
    BY <1>1, FlagsKeep
  <2> QED BY <2>1, <1>2 DEF EndTurns, Same
<1>3. CASE ~Stops(d)
  <2>1. Head(d.unsent) \in Segs
    BY <1>3, HeadTailProperties DEF Stops, Typed, PcbTyped
  <2>2. Typed(a) /\ Same(d, a, {"out", "rcv_ann_right_edge", "rtime", "held"})
    BY <2>1, OutputSegmentKeeps
  <2>3. Typed(Set(a, f)) /\ Same(a, Set(a, f), {"flags"})
    <3> HIDE DEF a, f
    <3> QED BY <1>1, <2>2, FlagsKeep
  <2>4. Same(d, Set(a, f), S)
    <3> HIDE DEF a, f
    <3> QED BY <2>2, <2>3 DEF Same
  <2> QED BY <2>3, <2>4, <1>3 DEF EndTurns
<1> QED BY <1>2, <1>3

LEMMA SendUnsentKeeps ==
  ASSUME NEW d, Typed(d)
  PROVE  Typed(SendUnsent(d)) /\ Same(d, SendUnsent(d), OutputFields)
<1> DEFINE k == Len(d.unsent)
<1>1. k \in Nat
  BY LenProperties DEF Typed, PcbTyped
<1>2. PICK turn :
        /\ turn[0] = d
        /\ \A n \in 1 .. k : turn[n] = SendNext(turn[n - 1])
        /\ SendUnsent(d) = EndTurns(turn[k])
  BY SendTurns
<1> HIDE DEF k
<1> DEFINE T == {n \in 0 .. k : Typed(turn[n]) /\ Same(d, turn[n], OutputFields)}
<1>3. 0 \in T
  BY <1>1, <1>2 DEF Same, Typed
<1>4. ASSUME NEW n \in 0 .. k - 1, n \in T PROVE n + 1 \in T
  <2>1. Typed(turn[n]) /\ Same(d, turn[n], OutputFields)
    BY <1>4
  <2>2. n + 1 \in 1 .. k /\ n + 1 \in 0 .. k /\ (n + 1) - 1 = n
    BY <1>1
  <2>3. turn[n + 1] = SendNext(turn[n])
    BY <1>2, <2>2
  <2>4. Typed(turn[n + 1]) /\ Same(turn[n], turn[n + 1], OutputFields)
    BY <2>1, <2>3, SendNextKeeps
  <2>5. Same(d, turn[n + 1], OutputFields)
    BY <2>1, <2>4 DEF Same
  <2> QED BY <2>2, <2>4, <2>5
<1>5. k \in T
  <2> HIDE DEF T
  <2>1. \A n \in 0 .. k : n \in T
    BY <1>1, <1>3, <1>4, Induction
  <2> QED BY <2>1, <1>1
<1>6. Typed(turn[k]) /\ Same(d, turn[k], OutputFields)
  BY <1>5
<1>7. /\ Typed(EndTurns(turn[k]))
      /\ Same(turn[k], EndTurns(turn[k]), {"out", "rcv_ann_right_edge", "rtime", "held", "flags"})
  BY <1>6, EndTurnsKeeps
<1>8. Same(d, EndTurns(turn[k]), OutputFields)
  BY <1>6, <1>7 DEF Same, OutputFields
<1> QED BY <1>2, <1>7, <1>8

LEMMA OutputKeeps ==
  ASSUME NEW d, Typed(d)
  PROVE  Typed(Output(d)) /\ Same(d, Output(d), OutputFields) /\ (d.input => Output(d) = d)
<1>1. Typed(SendUnsent(d)) /\ Same(d, SendUnsent(d), OutputFields)
  BY SendUnsentKeeps
<1>2. Typed(SendEmptyAck(d)) /\ Same(d, SendEmptyAck(d), OutputFields)
  BY EmptyAckKeeps DEF Same, OutputFields
<1>3. Same(d, d, OutputFields)
  BY DEF Same, Typed
<1> QED BY <1>1, <1>2, <1>3 DEF Output

-----------------------------------------------------------------------------
(* tcp_write, tcp_enqueue_flags and the retransmissions.                    *)
Places(n) == (n + Mss - 1) \div Mss

LEMMA PlacesFacts ==
  ASSUME NEW n \in Nat
  PROVE  /\ Places(n) \in Nat
         /\ n <= Places(n) * Mss
         /\ \A i \in 1 .. Places(n) : (i - 1) * Mss \in Nat /\ (i - 1) * Mss < n
         /\ \A i \in 1 .. Places(n) - 1 : i * Mss < n
         /\ Places(n) = 0 <=> n = 0
<1> DEFINE k == Places(n)
<1>1. Mss \in Nat /\ Mss >= 1
  BY Constants
<1>2. k \in Int /\ k * Mss <= n + Mss - 1 /\ n + Mss - 1 < k * Mss + Mss
  BY <1>1 DEF Places
<1> HIDE DEF k
<1>3. k \in Nat
  <2> SUFFICES ASSUME k <= -1 PROVE FALSE
    BY <1>2
  <2>1. (k + 1) * Mss <= 0
    BY <1>1, <1>2
  <2>2. (k + 1) * Mss = k * Mss + Mss
    BY <1>1, <1>2
  <2> QED BY <1>1, <1>2, <2>1, <2>2
<1>4. \A i \in 1 .. k : (i - 1) * Mss \in Nat /\ (i - 1) * Mss < n
  <2> SUFFICES ASSUME NEW i \in 1 .. k PROVE (i - 1) * Mss \in Nat /\ (i - 1) * Mss < n
    OBVIOUS
  <2>1. (k - i) * Mss >= 0 /\ (i - 1) * Mss >= 0
    BY <1>1, <1>3
  <2>2. (i - 1) * Mss = k * Mss - (k - i) * Mss - Mss
    BY <1>1, <1>3
  <2>3. (i - 1) * Mss \in Int /\ k * Mss \in Int /\ (k - i) * Mss \in Int
    BY <1>1, <1>3
  <2> QED BY <1>1, <1>2, <2>1, <2>2, <2>3
<1>5. \A i \in 1 .. k - 1 : i * Mss < n
  <2> SUFFICES ASSUME NEW i \in 1 .. k - 1 PROVE i * Mss < n
    OBVIOUS
  <2>1. i + 1 \in 1 .. k /\ (i + 1) - 1 = i
    BY <1>3
  <2> QED BY <1>4, <2>1
<1>6. k = 0 <=> n = 0
  BY <1>1, <1>2, <1>3
<1>7. n <= k * Mss
  BY <1>1, <1>2, <1>3
<1> QED BY <1>3, <1>4, <1>5, <1>6, <1>7 DEF k

\* Where the i-th segment of n units ends.
PlaceEnd(i, n) == IF i * Mss <= n THEN i * Mss ELSE n
CutAs(seq, data, c) ==
  /\ c \in Seq(Segs) /\ Len(c) = Places(Len(data))
  /\ \A i \in 1 .. Len(c) :
        /\ ~c[i].syn /\ ~c[i].fin /\ c[i].seq = seq + (i - 1) * Mss
        /\ Len(c[i].data) = PlaceEnd(i, Len(data)) - (i - 1) * Mss /\ Len(c[i].data) >= 1
        /\ SegEnd(c[i]) = seq + PlaceEnd(i, Len(data)) /\ DataEnd(c[i]) = SegEnd(c[i])
        /\ \A j \in 1 .. Len(c[i].data) : c[i].data[j] = data[(i - 1) * Mss + j]

LEMMA CutFacts ==
  ASSUME NEW seq \in Int, NEW data \in Seq(Int)
  PROVE  CutAs(seq, data, Cut(seq, data))
<1> DEFINE n == Len(data)
           k == Places(n)
           c == Cut(seq, data)
           part(i) == SubSeq(data, (i - 1) * Mss + 1, Min({i * Mss, n}))
<1>1. n \in Nat /\ k \in Nat /\ Mss \in Nat
  BY LenProperties, PlacesFacts, Constants
<1>2. ASSUME NEW i \in 1 .. k
      PROVE  /\ part(i) \in Payload
             /\ Len(part(i)) = PlaceEnd(i, n) - (i - 1) * Mss /\ Len(part(i)) >= 1
             /\ \A j \in 1 .. Len(part(i)) : part(i)[j] = data[(i - 1) * Mss + j]
  <2> DEFINE a == (i - 1) * Mss
             b == Min({i * Mss, n})
  <2>1. a \in Nat /\ a < n /\ i * Mss = a + Mss /\ Mss >= 1
    <3>1. a \in Nat /\ a < n
      BY PlacesFacts, <1>1
    <3>2. i * Mss = a + Mss
      BY <1>1
    <3> QED BY <3>1, <3>2, Constants
  <2>2. b = PlaceEnd(i, n) /\ b \in Nat /\ a + 1 <= b /\ b <= n
    <3> DEFINE m == i * Mss
    <3>1. m \in Int /\ m = a + Mss
      BY <2>1, <1>1
    <3>2. b = Min({m, n}) /\ PlaceEnd(i, n) = IF m <= n THEN m ELSE n
      BY DEF PlaceEnd
    <3>3. n \in Int
      BY <1>1
    <3> HIDE DEF a, b, m, n
    <3>4. b = IF m <= n THEN m ELSE n
      BY <3>1, <3>2, <3>3, MinOf
    <3>5. a \in Nat /\ a < n /\ Mss \in Nat /\ Mss >= 1 /\ n \in Nat
      BY <1>1, <2>1
    <3>6. b \in Nat /\ a + 1 <= b /\ b <= n
      BY <3>1, <3>4, <3>5
    <3> QED BY <3>2, <3>4, <3>6
  <2> HIDE DEF a, b
  <2>3. part(i) = SubSeq(data, a + 1, b)
    BY DEF a, b
  <2>4. /\ SubSeq(data, a + 1, b) \in Seq(Int)
        /\ Len(SubSeq(data, a + 1, b)) = b - a
        /\ \A j \in 1 .. b - a : SubSeq(data, a + 1, b)[j] = data[a + j]
    <3>1. \A j \in a + 1 .. b : data[j] \in Int
      BY <2>1, <2>2, <1>1, ElementOfSeq
    <3>2. SubSeq(data, a + 1, b) \in Seq(Int) /\ Len(SubSeq(data, a + 1, b)) = b - a
      BY <2>1, <2>2, <1>1, <3>1, SubSeqProperties
    <3>3. \A j \in 1 .. b - a : SubSeq(data, a + 1, b)[j] = data[(a + 1) + j - 1]
      BY <2>1, <2>2, <1>1, <3>1, SubSeqProperties
    <3>4. \A j \in 1 .. b - a : (a + 1) + j - 1 = a + j
      BY <2>1, <2>2
    <3> QED BY <3>2, <3>3, <3>4
  <2> HIDE DEF part, n
  <2>5. part(i) \in Seq(Int) /\ Len(part(i)) = b - a /\ b - a >= 1
    BY <2>1, <2>2, <2>3, <2>4
  <2>6. \A j \in 1 .. Len(part(i)) : part(i)[j] = data[a + j]
    BY <2>3, <2>4, <2>5
  <2>7. b - a <= Mss
    <3>1. i * Mss = a + Mss /\ b <= i * Mss
      BY <2>1, <2>2, <1>1 DEF PlaceEnd
    <3> QED BY <3>1, <2>1, <2>2, <1>1
  <2>8. part(i) \in Payload
    BY <2>5, <2>7 DEF Payload
  <2> QED BY <2>2, <2>5, <2>6, <2>8 DEF a
<1>3. c = [i \in 1 .. k |-> Segment(seq + (i - 1) * Mss, part(i), FALSE, FALSE)]
  BY DEF Cut, Places
<1> HIDE DEF part, c
<1> HIDE DEF k
<1>4. ASSUME NEW i \in 1 .. k
      PROVE  /\ c[i] = Segment(seq + (i - 1) * Mss, part(i), FALSE, FALSE)
             /\ c[i] \in Segs
  <2>1. (i - 1) * Mss \in Nat
    BY PlacesFacts, <1>1 DEF k
  <2>2. seq + (i - 1) * Mss \in Int
    BY <2>1
  <2>3. c[i] = Segment(seq + (i - 1) * Mss, part(i), FALSE, FALSE)
    BY <1>3
  <2>4. part(i) \in Payload
    BY <1>2
  <2> QED BY <2>2, <2>3, <2>4, SegmentType
<1>5. c \in Seq(Segs) /\ Len(c) = k
  <2>1. c \in [1 .. k -> Segs]
    BY <1>3, <1>4
  <2> QED BY <2>1, <1>1, SeqDef
<1>6. ASSUME NEW i \in 1 .. k
      PROVE  /\ ~c[i].syn /\ ~c[i].fin /\ c[i].seq = seq + (i - 1) * Mss /\ c[i].data = part(i)
             /\ SegEnd(c[i]) = seq + PlaceEnd(i, n) /\ DataEnd(c[i]) = SegEnd(c[i])
  <2> DEFINE a == (i - 1) * Mss
  <2>0. c[i] = Segment(seq + a, part(i), FALSE, FALSE)
    BY <1>4
  <2>1. c[i].seq = seq + a /\ c[i].data = part(i) /\ c[i].syn = FALSE /\ c[i].fin = FALSE
    <3> HIDE DEF a, n, k
    <3> QED BY <2>0 DEF Segment
  <2>2. Len(part(i)) = PlaceEnd(i, n) - a /\ Len(part(i)) \in Nat
    BY <1>2, PayloadFacts
  <2>3. TcpLen(c[i]) = Len(part(i)) /\ DataEnd(c[i]) = (seq + a) + Len(part(i))
    BY <2>1, <2>2 DEF TcpLen, DataEnd
  <2>4. a \in Nat /\ PlaceEnd(i, n) \in Int
    <3>1. a \in Nat /\ i * Mss \in Int
      BY PlacesFacts, <1>1 DEF k
    <3> QED BY <3>1, <1>1 DEF PlaceEnd
  <2> HIDE DEF a
  <2>5. SegEnd(c[i]) = DataEnd(c[i])
    BY <2>1, <2>3 DEF SegEnd
  <2>6. DataEnd(c[i]) = seq + PlaceEnd(i, n)
    <3> HIDE DEF n
    <3> QED BY <2>2, <2>3, <2>4
  <2> QED BY <2>1, <2>5, <2>6 DEF a
<1>7. ASSUME NEW i \in 1 .. Len(c)
      PROVE  /\ ~c[i].syn /\ ~c[i].fin /\ c[i].seq = seq + (i - 1) * Mss
             /\ Len(c[i].data) = PlaceEnd(i, n) - (i - 1) * Mss /\ Len(c[i].data) >= 1
             /\ SegEnd(c[i]) = seq + PlaceEnd(i, n) /\ DataEnd(c[i]) = SegEnd(c[i])
             /\ \A j \in 1 .. Len(c[i].data) : c[i].data[j] = data[(i - 1) * Mss + j]
  <2>1. i \in 1 .. k
    BY <1>5
  <2>2. c[i].data = part(i)
    BY <2>1, <1>6
  <2>3. \A j \in 1 .. Len(c[i].data) : c[i].data[j] = data[(i - 1) * Mss + j]
    BY <2>1, <2>2, <1>2
  <2>4. Len(c[i].data) = PlaceEnd(i, n) - (i - 1) * Mss /\ Len(c[i].data) >= 1
    BY <2>1, <2>2, <1>2
  <2> QED BY <2>1, <2>3, <2>4, <1>6
<1>8. Len(c) = Places(Len(data))
  BY <1>5 DEF k
<1> QED BY <1>5, <1>7, <1>8 DEF CutAs, c

\* The last unsent segment with n more units in it; and what tcp_write makes of the queue.
Filled(last, data, n) == [last EXCEPT !.data = @ \o SubSeq(data, 1, n)]
WrittenAs(d, data, n, r) ==
  /\ n \in 0 .. Len(data)
  /\ n # 0 => /\ d.unsent # <<>> /\ Len(Last(d.unsent).data) # 0
              /\ Len(Last(d.unsent).data) + n <= Mss
  /\ r.unsent = (IF n = 0 THEN d.unsent ELSE Front(d.unsent) \o <<Filled(Last(d.unsent), data, n)>>)
                \o Cut(d.snd_lbb + n, SubSeq(data, n + 1, Len(data)))
  /\ r.snd_lbb = d.snd_lbb + Len(data)

LEMMA PieceFacts ==
  ASSUME NEW data \in Seq(Int), NEW n \in 0 .. Len(data)
  PROVE  /\ SubSeq(data, n + 1, Len(data)) \in Seq(Int) /\ SubSeq(data, 1, n) \in Seq(Int)
         /\ Len(SubSeq(data, n + 1, Len(data))) = Len(data) - n /\ Len(SubSeq(data, 1, n)) = n
         /\ \A i \in 1 .. n : SubSeq(data, 1, n)[i] = data[i]
         /\ \A i \in 1 .. Len(data) - n : SubSeq(data, n + 1, Len(data))[i] = data[n + i]
<1>1. Len(data) \in Nat
  BY LenProperties
<1>2. /\ Behind(data, n) \in Seq(Int) /\ Len(Behind(data, n)) = Len(data) - n
      /\ \A i \in 1 .. Len(data) - n : Behind(data, n)[i] = data[n + i]
  BY BehindFacts
<1>3. /\ UpTo(data, n) \in Seq(Int) /\ Len(UpTo(data, n)) = n
      /\ \A i \in 1 .. n : UpTo(data, n)[i] = data[i]
  BY UpToFacts
<1> QED BY <1>2, <1>3 DEF UpTo, Behind

LEMMA LastFacts ==
  ASSUME NEW T, NEW q \in Seq(T), q # <<>>
  PROVE  /\ Last(q) \in T /\ Last(q) = q[Len(q)] /\ Len(q) \in Nat \ {0}
         /\ Front(q) \in Seq(T) /\ Len(Front(q)) = Len(q) - 1
         /\ \A i \in 1 .. Len(q) - 1 : Front(q)[i] = q[i]
<1>1. Len(q) \in Nat \ {0}
  BY EmptySeq
<1>2. Last(q) = q[Len(q)] /\ q[Len(q)] \in T
  BY <1>1, ElementOfSeq DEF Last
<1>3. Front(q) = UpTo(q, Len(q) - 1) /\ Len(q) - 1 \in 0 .. Len(q)
  BY <1>1 DEF Front, UpTo
<1> QED BY SMTT(30), <1>1, <1>2, <1>3, UpToFacts

LEMMA FilledFacts ==
  ASSUME NEW s \in Segs, NEW data \in Seq(Int), NEW n \in 0 .. Len(data), Len(s.data) + n <= Mss
  PROVE  /\ Filled(s, data, n) \in Segs
         /\ Filled(s, data, n).seq = s.seq
         /\ Filled(s, data, n).syn = s.syn /\ Filled(s, data, n).fin = s.fin
         /\ Filled(s, data, n).data = s.data \o SubSeq(data, 1, n)
         /\ DataEnd(Filled(s, data, n)) = DataEnd(s) + n
         /\ SegEnd(Filled(s, data, n)) = SegEnd(s) + n
<1> DEFINE p == SubSeq(data, 1, n)
           r == Filled(s, data, n)
<1>1. p \in Seq(Int) /\ Len(p) = n /\ n \in Nat
  BY PieceFacts
<1>2. s.data \in Seq(Int) /\ Len(s.data) \in Nat /\ s.seq \in Int
  BY SegmentFacts
<1> HIDE DEF p
<1>3. s.data \o p \in Seq(Int) /\ Len(s.data \o p) = Len(s.data) + n
  BY <1>1, <1>2, ConcatProperties
<1>8. s.data \o p \in Payload
  BY <1>3 DEF Payload
<1>4. r = [s EXCEPT !.data = @ \o p]
  BY DEF Filled, p
<1> HIDE DEF r
<1>5. /\ r \in Segs /\ r.seq = s.seq /\ r.syn = s.syn /\ r.fin = s.fin /\ r.data = s.data \o p
  BY <1>4, <1>8 DEF Segs
<1>6. DataEnd(r) = DataEnd(s) + n
  BY <1>1, <1>2, <1>3, <1>5 DEF DataEnd
<1>7. SegEnd(r) = SegEnd(s) + n
  <2> DEFINE flag == IF s.syn \/ s.fin THEN 1 ELSE 0
  <2>1. TcpLen(r) = (Len(s.data) + n) + flag /\ TcpLen(s) = Len(s.data) + flag
    BY <1>3, <1>5 DEF TcpLen
  <2>2. flag \in {0, 1}
    OBVIOUS
  <2> HIDE DEF flag
  <2>3. TcpLen(r) = TcpLen(s) + n
    BY <2>1, <2>2, <1>1, <1>2
  <2>4. TcpLen(s) \in Nat
    BY SegmentFacts
  <2> QED BY <2>3, <2>4, <1>1, <1>2, <1>5 DEF SegEnd
<1> QED BY <1>5, <1>6, <1>7 DEF r, p

LEMMA WriteKeeps ==
  ASSUME NEW d, NEW data \in Seq(Int), Typed(d), Len(data) <= d.snd_buf
  PROVE  /\ Typed(Write(d, data)) /\ Same(d, Write(d, data), {"unsent", "snd_lbb", "snd_buf"})
         /\ \E n : WrittenAs(d, data, n, Write(d, data))
<1> DEFINE last == Last(d.unsent)
           room == IF d.unsent = <<>> \/ Len(last.data) = 0 THEN 0 ELSE Mss - Len(last.data)
           n == Min({room, Len(data)})
           rest == Cut(d.snd_lbb + n, SubSeq(data, n + 1, Len(data)))
           q == IF n = 0 THEN d.unsent ELSE Front(d.unsent) \o <<Filled(last, data, n)>>
           r == Write(d, data)
<1>1. /\ d.unsent \in Seq(Segs) /\ d.snd_lbb \in Int /\ d.snd_buf \in Nat /\ DOMAIN d = Fields
      /\ Len(data) \in Nat
  BY LenProperties DEF Typed, PcbTyped
<1>2. r = [d EXCEPT !.unsent = q \o rest, !.snd_lbb = d.snd_lbb + Len(data),
                    !.snd_buf = d.snd_buf - Len(data)]
  BY <1>1 DEF Write, Filled, Fields, PcbFields
<1> HIDE DEF r
<1>3. Same(d, r, {"unsent", "snd_lbb", "snd_buf"})
  BY <1>1, <1>2 DEF Same
<1>4. /\ r.unsent = q \o rest /\ r.snd_lbb = d.snd_lbb + Len(data)
      /\ r.snd_buf = d.snd_buf - Len(data)
  <2> HIDE DEF q, rest
  <2> QED BY <1>1, <1>2 DEF Fields, PcbFields
<1>5. /\ room \in Nat
      /\ room # 0 => d.unsent # <<>> /\ Len(last.data) # 0 /\ room = Mss - Len(last.data)
  <2>1. CASE d.unsent = <<>> \/ Len(last.data) = 0
    BY <2>1
  <2>2. CASE ~(d.unsent = <<>> \/ Len(last.data) = 0)
    <3>1. last \in Segs
      BY <2>2, <1>1, LastFacts
    <3>2. Len(last.data) \in Nat /\ Len(last.data) <= Mss
      BY <3>1, SegmentFacts
    <3> QED BY <2>2, <3>2, Constants
  <2> QED BY <2>1, <2>2
<1>6. /\ n \in 0 .. Len(data)
      /\ n # 0 => d.unsent # <<>> /\ Len(last.data) # 0 /\ Len(last.data) + n <= Mss
  <2> HIDE DEF room
  <2>1. n \in 0 .. Len(data) /\ n <= room
    BY SMTT(30), <1>1, <1>5, MinOf
  <2> HIDE DEF n
  <2>2. ASSUME n # 0 PROVE d.unsent # <<>> /\ Len(last.data) # 0 /\ Len(last.data) + n <= Mss
    <3>1. d.unsent # <<>> /\ Len(last.data) # 0 /\ room = Mss - Len(last.data)
      BY <1>5, <2>1, <2>2
    <3>2. Len(last.data) \in Nat
      BY <3>1, <1>1, LastFacts, SegmentFacts
    <3> QED BY <3>1, <3>2, <2>1, Constants
  <2> QED BY <2>1, <2>2
<1>7. WrittenAs(d, data, n, r)
  <2> HIDE DEF n
  <2> QED BY <1>4, <1>6 DEF WrittenAs
<1>8. q \in Seq(Segs)
  <2> HIDE DEF n
  <2>1. CASE n = 0
    BY <2>1, <1>1
  <2>2. CASE n # 0
    <3>1. last \in Segs /\ Front(d.unsent) \in Seq(Segs)
      BY <2>2, <1>1, <1>6, LastFacts
    <3>2. Filled(last, data, n) \in Segs
      BY <2>2, <3>1, <1>6, FilledFacts
    <3>3. <<Filled(last, data, n)>> \in Seq(Segs)
      BY <3>2
    <3> QED BY <2>2, <3>1, <3>3, ConcatProperties
  <2> QED BY <2>1, <2>2
<1>9. rest \in Seq(Segs)
  <2> HIDE DEF n
  <2>1. d.snd_lbb + n \in Int /\ SubSeq(data, n + 1, Len(data)) \in Seq(Int)
    BY <1>1, <1>6, PieceFacts
  <2> QED BY <2>1, CutFacts DEF CutAs
<1>10. Typed(r)
  <2> HIDE DEF q, rest
  <2>1. r.unsent \in Seq(Segs) /\ r.snd_lbb \in Int /\ r.snd_buf \in Nat
    BY <1>1, <1>4, <1>8, <1>9, ConcatProperties
  <2> QED BY <2>1, <1>3, Retyped DEF IsTyped
<1> QED BY <1>3, <1>7, <1>10 DEF r

LEMMA EnqueueKeeps ==
  ASSUME NEW d, NEW syn \in BOOLEAN, NEW fin \in BOOLEAN, Typed(d), d.snd_buf > 0
  PROVE  /\ Typed(EnqueueFlags(d, syn, fin))
         /\ Same(d, EnqueueFlags(d, syn, fin), {"flags", "unsent", "snd_lbb", "snd_buf"})
         /\ EnqueueFlags(d, syn, fin).unsent = Append(d.unsent, Segment(d.snd_lbb, <<>>, syn, fin))
         /\ EnqueueFlags(d, syn, fin).snd_lbb = d.snd_lbb + 1
         /\ Segment(d.snd_lbb, <<>>, syn, fin) \in Segs
<1> DEFINE f == IF fin THEN {"FIN"} ELSE {}
           s == Segment(d.snd_lbb, <<>>, syn, fin)
           a == Set(d, f)
           r == [a EXCEPT !.unsent = Append(@, s), !.snd_lbb = @ + 1, !.snd_buf = @ - 1]
           T == {"unsent", "snd_lbb", "snd_buf"}
<1>1. Typed(a) /\ Same(d, a, {"flags"})
  <2>1. f \in SUBSET Flags
    BY DEF Flags
  <2> HIDE DEF f
  <2> QED BY <2>1, FlagsKeep
<1>2. EnqueueFlags(d, syn, fin) = r
  <2>1. a.snd_lbb = d.snd_lbb
    BY <1>1 DEF Same, Fields, PcbFields
  <2> QED BY DEF EnqueueFlags
<1>3. s \in Segs
  BY PayloadFacts, SegmentType DEF Typed, PcbTyped
<1> HIDE DEF a, s
<1>4. a.unsent = d.unsent /\ a.snd_lbb = d.snd_lbb /\ DOMAIN a = Fields
  BY <1>1 DEF Same, Fields, PcbFields
<1>5. Same(a, r, T) /\ r.unsent = Append(d.unsent, s) /\ r.snd_lbb = d.snd_lbb + 1
      /\ r.snd_buf = a.snd_buf - 1
  BY <1>4 DEF Same, Fields, PcbFields
<1> HIDE DEF r
<1>6. Typed(r)
  <2>1. d.unsent \in Seq(Segs) /\ d.snd_lbb \in Int /\ a.snd_buf \in Nat /\ a.snd_buf > 0
    <3>1. a.snd_buf = d.snd_buf
      BY <1>1 DEF Same, Fields, PcbFields
    <3> QED BY <3>1, <1>1 DEF Typed, PcbTyped
  <2>2. r.unsent \in Seq(Segs) /\ r.snd_lbb \in Int /\ r.snd_buf \in Nat
    BY <2>1, <1>3, <1>5, AppendProperties
  <2>3. \A x \in T : IsTyped(x, r[x])
    BY <2>2 DEF IsTyped
  <2> HIDE DEF T
  <2> QED BY <2>3, <1>1, <1>5, Retyped
<1>7. Same(d, r, {"flags", "unsent", "snd_lbb", "snd_buf"})
  BY <1>1, <1>5 DEF Same
<1> QED BY <1>2, <1>3, <1>5, <1>6, <1>7 DEF s

(* A FIN goes with the last unsent segment, or in one of its own.           *)
LEMMA SendFinKeeps ==
  ASSUME NEW d, Typed(d), CanSendFin(d)
  PROVE  /\ Typed(SendFin(d)) /\ Same(d, SendFin(d), {"flags", "unsent", "snd_lbb", "snd_buf"})
         /\ ~JoinsLast(d) =>
              /\ SendFin(d).unsent = Append(d.unsent, Segment(d.snd_lbb, <<>>, FALSE, TRUE))
              /\ SendFin(d).snd_lbb = d.snd_lbb + 1
         /\ JoinsLast(d) =>
              /\ SendFin(d).unsent =
                   [d.unsent EXCEPT ![Len(d.unsent)] = [Last(d.unsent) EXCEPT !.fin = TRUE]]
              /\ SendFin(d).snd_lbb = d.snd_lbb
<1> DEFINE S == {"flags", "unsent", "snd_lbb", "snd_buf"}
<1>1. CASE ~JoinsLast(d)
  BY <1>1, EnqueueKeeps DEF SendFin, CanSendFin
<1>2. CASE JoinsLast(d)
  <2> DEFINE n == Len(d.unsent)
             s == [Last(d.unsent) EXCEPT !.fin = TRUE]
             a == [d EXCEPT !.unsent[n].fin = TRUE]
             f == {"FIN"}
  <2>1. d.unsent \in Seq(Segs) /\ d.unsent # <<>> /\ DOMAIN d = Fields
    BY <1>2 DEF JoinsLast, Typed, PcbTyped
  <2>2. n \in 1 .. Len(d.unsent) /\ d.unsent[n] = Last(d.unsent) /\ Last(d.unsent) \in Segs
    <3>1. /\ Len(d.unsent) \in Nat \ {0} /\ Last(d.unsent) = d.unsent[Len(d.unsent)]
          /\ Last(d.unsent) \in Segs
      BY <2>1, LastFacts
    <3> QED BY <3>1
  <2>3. s \in Segs
    BY <2>2 DEF Segs
  <2>4. a.unsent = [d.unsent EXCEPT ![n] = s] /\ Same(d, a, {"unsent"})
    <3> HIDE DEF n
    <3> QED BY <2>1, <2>2 DEF Same, Fields, PcbFields
  <2>5. a.unsent \in Seq(Segs)
    <3> HIDE DEF a, s, n
    <3> QED BY <2>1, <2>2, <2>3, <2>4, ExceptSeq
  <2>6. Typed(a)
    <3> HIDE DEF a
    <3> QED BY <2>4, <2>5, Retyped DEF IsTyped
  <2>7. Typed(Set(a, f)) /\ Same(a, Set(a, f), {"flags"})
    <3>1. f \in SUBSET Flags
      BY DEF Flags
    <3> HIDE DEF a, f
    <3> QED BY <2>6, <3>1, FlagsKeep
  <2>8. SendFin(d) = Set(a, f)
    BY <1>2 DEF SendFin
  <2> HIDE DEF a, f, s, n
  <2>9. Same(d, Set(a, f), S)
    BY <2>4, <2>7 DEF Same
  <2>10. Set(a, f).unsent = a.unsent /\ Set(a, f).snd_lbb = d.snd_lbb
    BY <2>4, <2>7 DEF Same, Fields, PcbFields
  <2> QED BY <1>2, <2>4, <2>7, <2>8, <2>9, <2>10 DEF n, s
<1> QED BY <1>1, <1>2

LEMMA RexmitKeeps ==
  ASSUME NEW d, Typed(d)
  PROVE  /\ Typed(Rexmit(d)) /\ Same(d, Rexmit(d), {"unsent", "unacked", "nrtx"})
         /\ d.unacked # <<>> =>
               /\ Rexmit(d).unsent = InOrder(d.unsent, Head(d.unacked))
               /\ Rexmit(d).unacked = Tail(d.unacked)
<1> DEFINE s == Head(d.unacked)
           r == [d EXCEPT !.unsent = InOrder(@, s), !.unacked = Tail(@), !.nrtx = @ + 1]
<1>1. CASE d.unacked = <<>>
  BY <1>1 DEF Rexmit, Same, Typed
<1>2. CASE d.unacked # <<>>
  <2>1. /\ DOMAIN d = Fields /\ d.unsent \in Seq(Segs) /\ d.unacked \in Seq(Segs) /\ d.nrtx \in Int
    BY DEF Typed, PcbTyped
  <2>2. s \in Segs /\ Tail(d.unacked) \in Seq(Segs)
    BY <1>2, <2>1, HeadTailProperties
  <2>3. Rexmit(d) = r
    BY <1>2 DEF Rexmit
  <2> HIDE DEF s
  <2>4. /\ Same(d, r, {"unsent", "unacked", "nrtx"})
        /\ r.unsent = InOrder(d.unsent, s) /\ r.unacked = Tail(d.unacked) /\ r.nrtx = d.nrtx + 1
    BY <2>1 DEF Same, Fields, PcbFields
  <2> HIDE DEF r
  <2>5. Typed(r)
    <3>1. InOrder(d.unsent, s) \in Seq(Segs)
      BY <2>1, <2>2, InOrderType
    <3>2. r.unsent \in Seq(Segs) /\ r.unacked \in Seq(Segs) /\ r.nrtx \in Int
      BY <2>1, <2>2, <2>4, <3>1
    <3>3. \A x \in {"unsent", "unacked", "nrtx"} : IsTyped(x, r[x])
      BY <3>2 DEF IsTyped
    <3> QED BY <3>3, <2>4, Retyped
  <2> QED BY <1>2, <2>3, <2>4, <2>5 DEF s
<1> QED BY <1>1, <1>2

LEMMA RexmitFastKeeps ==
  ASSUME NEW d, Typed(d)
  PROVE  /\ Typed(RexmitFast(d))
         /\ Same(d, RexmitFast(d), {"unsent", "unacked", "nrtx", "flags", "cwnd", "rtime"})
         /\ \/ RexmitFast(d) = d
            \/ /\ d.unacked # <<>>
               /\ RexmitFast(d).unsent = InOrder(d.unsent, Head(d.unacked))
               /\ RexmitFast(d).unacked = Tail(d.unacked)
<1> DEFINE a == Rexmit(d)
           b == Set(a, {"INFR"})
           r == [b EXCEPT !.cwnd = SndBuf, !.rtime = TRUE]
           S == {"unsent", "unacked", "nrtx", "flags", "cwnd", "rtime"}
<1>1. CASE d.unacked = <<>> \/ "INFR" \in d.flags
  BY <1>1 DEF RexmitFast, Same, Typed
<1>2. CASE ~(d.unacked = <<>> \/ "INFR" \in d.flags)
  <2>1. /\ Typed(a) /\ Same(d, a, {"unsent", "unacked", "nrtx"})
        /\ a.unsent = InOrder(d.unsent, Head(d.unacked)) /\ a.unacked = Tail(d.unacked)
    BY <1>2, RexmitKeeps
  <2>2. RexmitFast(d) = r
    BY <1>2 DEF RexmitFast
  <2>3. Typed(b) /\ Same(a, b, {"flags"})
    <3>1. {"INFR"} \in SUBSET Flags
      BY DEF Flags
    <3> HIDE DEF a
    <3> QED BY <2>1, <3>1, FlagsKeep
  <2> HIDE DEF b
  <2>4. DOMAIN b = Fields /\ b.unsent = a.unsent /\ b.unacked = a.unacked
    BY <2>3 DEF Same, Fields, PcbFields
  <2>5. /\ Same(b, r, {"cwnd", "rtime"}) /\ r.cwnd = SndBuf /\ r.rtime = TRUE
        /\ r.unsent = b.unsent /\ r.unacked = b.unacked
    BY <2>4 DEF Same, Fields, PcbFields
  <2> HIDE DEF r, a
  <2>6. Typed(r)
    <3>0. r.cwnd \in Int
      BY <2>5, Constants
    <3>1. r.cwnd \in Int /\ r.rtime \in BOOLEAN
      BY <3>0, <2>5, Zenon
    <3>2. \A x \in {"cwnd", "rtime"} : IsTyped(x, r[x])
      BY <3>1 DEF IsTyped
    <3> QED BY <3>2, <2>3, <2>5, Retyped
  <2>7. Same(d, r, S)
    BY <2>1, <2>3, <2>5 DEF Same
  <2> QED BY <1>2, <2>1, <2>2, <2>4, <2>5, <2>6, <2>7
<1> QED BY <1>1, <1>2

\* What tcp_rexmit_rto gives to tcp_output.
Requeued(d) == [d EXCEPT !.cwnd = Mss, !.unsent = d.unacked \o @, !.unacked = <<>>, !.nrtx = @ + 1]

LEMMA RequeuedKeeps ==
  ASSUME NEW d, Typed(d)
  PROVE  /\ Typed(Requeued(d)) /\ Same(d, Requeued(d), {"cwnd", "unsent", "unacked", "nrtx"})
         /\ Requeued(d).unsent = d.unacked \o d.unsent /\ Requeued(d).unacked = <<>>
         /\ RexmitRto(d) = Output(Requeued(d))
<1> DEFINE r == Requeued(d)
<1>1. DOMAIN d = Fields /\ d.unsent \in Seq(Segs) /\ d.unacked \in Seq(Segs) /\ d.nrtx \in Int
  BY DEF Typed, PcbTyped
<1>2. /\ Same(d, r, {"cwnd", "unsent", "unacked", "nrtx"}) /\ r.cwnd = Mss /\ r.nrtx = d.nrtx + 1
      /\ r.unsent = d.unacked \o d.unsent /\ r.unacked = <<>>
  BY <1>1 DEF Same, Fields, PcbFields, Requeued
<1>3. RexmitRto(d) = Output(r)
  BY DEF RexmitRto, Requeued
<1> HIDE DEF r
<1>4. Typed(r)
  <2>1. r.unsent \in Seq(Segs) /\ r.unacked \in Seq(Segs) /\ r.cwnd \in Int /\ r.nrtx \in Int
    BY <1>1, <1>2, ConcatProperties, EmptySeq, Constants
  <2>2. \A x \in {"cwnd", "unsent", "unacked", "nrtx"} : IsTyped(x, r[x])
    BY <2>1 DEF IsTyped
  <2> QED BY <2>2, <1>2, Retyped
<1> QED BY <1>2, <1>3, <1>4 DEF r

\* What a zero-window probe sends.
Probe(s) == Segment(s.seq, SubSeq(s.data, 1, Min({1, Len(s.data)})), FALSE, s.fin /\ s.data = <<>>)

LEMMA ProbeType ==
  ASSUME NEW s \in Segs
  PROVE  Probe(s) \in Segs
<1> DEFINE n == Min({1, Len(s.data)})
<1>1. s.seq \in Int /\ s.data \in Seq(Int) /\ Len(s.data) \in Nat
  BY SegmentFacts
<1>2. n \in 0 .. Len(s.data) /\ n <= 1
  BY <1>1, MinOf
<1> HIDE DEF n
<1>3. SubSeq(s.data, 1, n) \in Seq(Int) /\ Len(SubSeq(s.data, 1, n)) = n
  BY <1>1, <1>2, PieceFacts
<1>4. SubSeq(s.data, 1, n) \in Payload
  BY <1>2, <1>3, Constants DEF Payload
<1>5. (s.fin /\ s.data = <<>>) \in BOOLEAN
  OBVIOUS
<1> QED BY <1>1, <1>4, <1>5, SegmentType DEF Probe, n

LEMMA ProbeKeeps ==
  ASSUME NEW d, Typed(d)
  PROVE  Typed(ZeroWindowProbe(d)) /\ Same(d, ZeroWindowProbe(d), {"out", "rcv_ann_right_edge"})
<1> DEFINE q == d.unacked \o d.unsent
           s == Head(q)
           b == Announce(d)
           m == Wire(d, Probe(s))
<1>1. CASE q = <<>>
  BY <1>1 DEF ZeroWindowProbe, Same, Typed
<1>2. CASE q # <<>>
  <2>1. q \in Seq(Segs)
    BY ConcatProperties DEF Typed, PcbTyped
  <2>2. s \in Segs
    <3> HIDE DEF q
    <3> QED BY <1>2, <2>1, HeadTailProperties
  <2>3. m \in Messages
    <3> HIDE DEF s
    <3> QED BY <2>2, ProbeType, WireType
  <2>4. Typed(b) /\ Same(d, b, {"rcv_ann_right_edge"})
    BY AnnounceKeeps
  <2>5. ZeroWindowProbe(d) = Emit(b, m)
    BY <1>2 DEF ZeroWindowProbe, Probe
  <2> HIDE DEF b, m
  <2>6. Typed(Emit(b, m)) /\ Same(b, Emit(b, m), {"out"})
    BY <2>3, <2>4, EmitKeeps
  <2>7. Same(d, Emit(b, m), {"out", "rcv_ann_right_edge"})
    BY <2>4, <2>6 DEF Same
  <2> QED BY <2>5, <2>6, <2>7
<1> QED BY <1>1, <1>2

-----------------------------------------------------------------------------
(* tcp.c.                                                                   *)
LEMMA Unsigned == U16 \in Nat /\ U16 > Wnd /\ U16 > 0
  BY SizeAssumption, SMT DEF U16

LEMMA WrapType ==
  ASSUME NEW x \in Int
  PROVE  Wrap(x) \in Nat /\ (x \in 0 .. U16 - 1 => Wrap(x) = x)
  BY Unsigned, SMT DEF Wrap

LEMMA UpdateAnnWndKeeps ==
  ASSUME NEW d, Typed(d)
  PROVE  Typed(UpdateAnnWnd(d)) /\ Same(d, UpdateAnnWnd(d), {"rcv_ann_wnd"})
<1> DEFINE r == UpdateAnnWnd(d)
           v == IF CanAnnounce(d) THEN d.rcv_wnd ELSE Max({0, d.rcv_ann_right_edge - d.rcv_nxt})
<1>0. DOMAIN d = Fields /\ d.rcv_wnd \in Int /\ d.rcv_ann_right_edge \in Int /\ d.rcv_nxt \in Int
  BY DEF Typed, PcbTyped
<1>1. DOMAIN d = Fields /\ d.rcv_wnd \in Int /\ d.rcv_ann_right_edge - d.rcv_nxt \in Int
  BY <1>0
<1>2. v \in Int
  BY <1>1, MaxOf
<1>3. r = [d EXCEPT !.rcv_ann_wnd = v]
  BY DEF UpdateAnnWnd
<1> HIDE DEF v, r
<1>4. Same(d, r, {"rcv_ann_wnd"}) /\ r.rcv_ann_wnd = v
  BY <1>1, <1>3 DEF Same, Fields, PcbFields
<1>5. Typed(r)
  BY <1>2, <1>4, Retyped DEF IsTyped
<1> QED BY <1>4, <1>5 DEF r

RecvedFields == OutputFields \cup {"rcv_wnd", "rcv_ann_wnd"}
Credited(d, n) ==
  LET full == Wrap(d.rcv_wnd + n) = 0 /\ d.state \in {"CLOSE_WAIT", "LAST_ACK"}
  IN  [d EXCEPT !.rcv_wnd = IF full THEN Wnd ELSE Min({Wrap(@ + n), Wnd})]

LEMMA CreditedKeeps ==
  ASSUME NEW d, NEW n \in Nat, Typed(d)
  PROVE  /\ Typed(Credited(d, n)) /\ Same(d, Credited(d, n), {"rcv_wnd"})
         /\ Recved(d, n) = IF Inflation(Credited(d, n)) >= UpdateThreshold
                           THEN Output(Set(UpdateAnnWnd(Credited(d, n)), {"ACK_NOW"}))
                           ELSE UpdateAnnWnd(Credited(d, n))
<1> DEFINE r == Credited(d, n)
           full == Wrap(d.rcv_wnd + n) = 0 /\ d.state \in {"CLOSE_WAIT", "LAST_ACK"}
           v == IF full THEN Wnd ELSE Min({Wrap(d.rcv_wnd + n), Wnd})
<1>1. DOMAIN d = Fields /\ d.rcv_wnd + n \in Int
  BY SMTT(30) DEF Typed, PcbTyped
<1>2. v \in Int
  <2> DEFINE y == Wrap(d.rcv_wnd + n)
  <2>1. y \in Int /\ Wnd \in Int
    BY <1>1, WrapType, Constants
  <2> HIDE DEF y
  <2>2. Min({y, Wnd}) \in Int
    BY <2>1, MinOf
  <2> QED BY <2>1, <2>2 DEF y
<1>3. r = [d EXCEPT !.rcv_wnd = v]
  BY <1>1 DEF Credited, Fields, PcbFields
<1>6. Recved(d, n) = IF Inflation(r) >= UpdateThreshold THEN Output(Set(UpdateAnnWnd(r), {"ACK_NOW"}))
                     ELSE UpdateAnnWnd(r)
  BY DEF Recved, Credited
<1> HIDE DEF v, r
<1>4. Same(d, r, {"rcv_wnd"}) /\ r.rcv_wnd = v
  BY <1>1, <1>3 DEF Same, Fields, PcbFields
<1>5. Typed(r)
  BY <1>2, <1>4, Retyped DEF IsTyped
<1> QED BY <1>4, <1>5, <1>6 DEF r

LEMMA RecvedKeeps ==
  ASSUME NEW d, NEW n \in Nat, Typed(d)
  PROVE  /\ Typed(Recved(d, n)) /\ Same(d, Recved(d, n), RecvedFields)
         /\ d.input => Same(d, Recved(d, n), {"rcv_wnd", "rcv_ann_wnd", "flags"})
<1> DEFINE c == Credited(d, n)
           u == UpdateAnnWnd(c)
           f == {"ACK_NOW"}
           s == Set(u, f)
           o == Output(s)
<1>1. Typed(c) /\ Same(d, c, {"rcv_wnd"})
  BY CreditedKeeps
<1>2. Typed(u) /\ Same(c, u, {"rcv_ann_wnd"})
  <2> HIDE DEF c
  <2> QED BY <1>1, UpdateAnnWndKeeps
<1>3. Typed(s) /\ Same(u, s, {"flags"})
  <2>1. f \in SUBSET Flags
    BY DEF Flags
  <2> HIDE DEF f, u
  <2> QED BY <2>1, <1>2, FlagsKeep
<1>4. Typed(o) /\ Same(s, o, OutputFields) /\ (s.input => o = s)
  <2> HIDE DEF s
  <2> QED BY <1>3, OutputKeeps
<1>5. Recved(d, n) = IF Inflation(c) >= UpdateThreshold THEN o ELSE u
  BY CreditedKeeps
<1> HIDE DEF c, u, s, o
<1>6. Same(d, u, {"rcv_wnd", "rcv_ann_wnd", "flags"}) /\ Same(d, u, RecvedFields)
  BY <1>1, <1>2 DEF Same, RecvedFields
<1>7. Same(d, s, {"rcv_wnd", "rcv_ann_wnd", "flags"})
  BY <1>6, <1>3 DEF Same
<1>8. Same(d, o, RecvedFields)
  BY <1>7, <1>4 DEF Same, RecvedFields, OutputFields
<1>9. s.input = d.input
  BY <1>7 DEF Same, Fields, HandlerFields
<1>10. d.input => o = s
  BY <1>4, <1>9
<1>11. CASE Inflation(c) >= UpdateThreshold
  <2>1. Recved(d, n) = o
    BY <1>5, <1>11
  <2> QED BY <2>1, <1>4, <1>7, <1>8, <1>10
<1>12. CASE ~(Inflation(c) >= UpdateThreshold)
  <2>1. Recved(d, n) = u
    BY <1>5, <1>12
  <2> QED BY <2>1, <1>2, <1>6
<1> QED BY <1>11, <1>12

PurgedFields == {"refused_data", "refused_fin", "ooseq", "rtime", "unsent", "unacked"}

LEMMA PurgeKeeps ==
  ASSUME NEW d, Typed(d)
  PROVE  /\ Typed(Purge(d)) /\ Same(d, Purge(d), PurgedFields)
         /\ Typed(TimeWait(d)) /\ Same(d, TimeWait(d), PurgedFields \cup {"state"})
         /\ TimeWait(d).state = "TIME_WAIT"
<1> DEFINE p == Purge(d)
           t == [p EXCEPT !.state = "TIME_WAIT"]
<1>1. DOMAIN d = Fields
  BY DEF Typed
<1>2. /\ Same(d, p, PurgedFields)
      /\ p.refused_data = <<>> /\ p.refused_fin = FALSE /\ p.ooseq = <<>> /\ p.rtime = FALSE
      /\ p.unsent = <<>> /\ p.unacked = <<>>
  BY <1>1 DEF Purge, Same, PurgedFields, Fields, PcbFields
<1>3. TimeWait(d) = t
  BY DEF TimeWait
<1> HIDE DEF p
<1>4. Typed(p)
  <2>1. <<>> \in Seq(Int) /\ <<>> \in Seq(Segs) /\ FALSE \in BOOLEAN
    BY EmptySeq
  <2>2. p.refused_fin \in BOOLEAN /\ p.rtime \in BOOLEAN
    BY <1>2, Zenon
  <2>3. \A x \in PurgedFields : IsTyped(x, p[x])
    BY <1>2, <2>1, <2>2 DEF IsTyped, PurgedFields
  <2> QED BY <1>2, <2>3, Retyped
<1>5. Same(p, t, {"state"}) /\ t.state = "TIME_WAIT"
  BY <1>2 DEF Same, Fields, PcbFields
<1> HIDE DEF t
<1>6. Typed(t)
  <2>1. "TIME_WAIT" \in States
    BY DEF States
  <2>2. IsTyped("state", t.state)
    BY <1>5, <2>1 DEF IsTyped
  <2> QED BY <2>2, <1>4, <1>5, Retyped
<1>7. Same(d, t, PurgedFields \cup {"state"})
  BY <1>2, <1>5 DEF Same
<1> QED BY <1>2, <1>3, <1>4, <1>5, <1>6, <1>7 DEF p

\* What is left of a host whose pcb is gone.
GoneAs(d, how, r) ==
  /\ \A x \in PcbFields \ {"state"} : r[x] = NoPcb[x]
  /\ r.state = IF d.app = "accept" THEN "LISTEN" ELSE "CLOSED"
  /\ \A x \in (HandlerFields \cup ConnFields) \ {"ended", "held"} : r[x] = d[x]
  /\ r.ended = how /\ r.held = {}

LEMMA FieldsApart == PcbFields \cap (HandlerFields \cup ConnFields) = {}
  BY DEF PcbFields, HandlerFields, ConnFields

LEMMA GoneKeeps ==
  ASSUME NEW d, NEW how \in Endings, Typed(d)
  PROVE  Typed(Gone(d, how)) /\ GoneAs(d, how, Gone(d, how))
<1> DEFINE a == [d EXCEPT !.ended = how, !.held = {}]
           p == [NoPcb EXCEPT !.state = IF d.app = "accept" THEN "LISTEN" ELSE "CLOSED"]
           r == With(a, p)
<1>1. DOMAIN d = Fields /\ DOMAIN NoPcb = PcbFields
  BY NoPcbTyped DEF Typed
<1>2. /\ Same(d, a, {"ended", "held"}) /\ a.ended = how /\ a.held = {}
  BY <1>1 DEF Same, Fields, ConnFields
<1>3. /\ DOMAIN p = PcbFields /\ \A x \in PcbFields \ {"state"} : p[x] = NoPcb[x]
      /\ p.state = IF d.app = "accept" THEN "LISTEN" ELSE "CLOSED"
  BY <1>1 DEF PcbFields
<1>4. Gone(d, how) = r
  BY DEF Gone
<1> HIDE DEF a, p
<1>5. /\ DOMAIN r = Fields /\ \A x \in PcbFields : r[x] = p[x]
      /\ \A x \in Fields \ PcbFields : r[x] = a[x]
  <2>1. DOMAIN a = Fields
    BY <1>2 DEF Same
  <2>2. Fields = Fields \cup PcbFields
    BY DEF Fields
  <2>3. /\ DOMAIN r = DOMAIN a \cup DOMAIN p /\ \A x \in DOMAIN p : r[x] = p[x]
        /\ \A x \in DOMAIN a \ DOMAIN p : r[x] = a[x]
    BY WithFacts
  <2> HIDE DEF r
  <2> QED BY <2>1, <2>2, <2>3, <1>3
<1> HIDE DEF r
<1>6. \A x \in HandlerFields \cup ConnFields : x \in Fields \ PcbFields /\ r[x] = a[x]
  BY <1>5, FieldsApart DEF Fields
<1>7. GoneAs(d, how, r)
  <2>1. r.state = p.state
    BY <1>5 DEF PcbFields
  <2>2. "ended" \in HandlerFields \cup ConnFields /\ "held" \in HandlerFields \cup ConnFields
    BY DEF ConnFields
  <2> QED BY <1>2, <1>3, <1>5, <1>6, <2>1, <2>2 DEF GoneAs, Same
<1>8. Typed(r)
  <2>1. Typed(a)
    <3>1. IsTyped("ended", a.ended) /\ IsTyped("held", a.held)
      BY <1>2 DEF IsTyped
    <3> QED BY <3>1, <1>2, Retyped
  <2>2. HandlerTyped(r)
    BY <2>1, <1>6 DEF Typed, HandlerTyped, HandlerFields
  <2>3. ConnTyped(r)
    BY <2>1, <1>6 DEF Typed, ConnTyped, ConnFields
  <2>4. PcbTyped(r)
    <3>1. r.state \in States
      BY <1>7 DEF GoneAs, States
    <3>2. PcbTyped(NoPcb) /\ \A x \in PcbFields \ {"state"} : r[x] = NoPcb[x]
      BY NoPcbTyped, <1>7 DEF GoneAs
    <3> QED BY <3>1, <3>2 DEF PcbTyped, PcbFields
  <2> QED BY <2>2, <2>3, <2>4, <1>5 DEF Typed
<1> QED BY <1>4, <1>7, <1>8

\* The netconn is told that the connection is over.
ToldApp(app) ==
  IF app \in {"start", "accept", "done", "failed"} THEN app ELSE IF app = "close" THEN "done" ELSE "failed"

LEMMA ErrTcpKeeps ==
  ASSUME NEW d, Typed(d)
  PROVE  /\ Typed(ErrTcp(d)) /\ Same(d, ErrTcp(d), {"app", "recvmbox", "took"})
         /\ ErrTcp(d).app = ToldApp(d.app)
<1> DEFINE r == [d EXCEPT !.app = IF @ = "close" THEN "done" ELSE "failed",
                          !.recvmbox = <<>>, !.took = 0]
<1>1. DOMAIN d = Fields
  BY DEF Typed
<1>2. CASE d.app \in {"start", "accept", "done", "failed"}
  BY <1>1, <1>2 DEF ErrTcp, ToldApp, Same
<1>3. CASE d.app \notin {"start", "accept", "done", "failed"}
  <2>1. ErrTcp(d) = r
    BY <1>3 DEF ErrTcp
  <2>2. /\ Same(d, r, {"app", "recvmbox", "took"}) /\ r.recvmbox = <<>> /\ r.took = 0
        /\ r.app = IF d.app = "close" THEN "done" ELSE "failed"
    BY <1>1 DEF Same, Fields, ConnFields
  <2> HIDE DEF r
  <2>3. Typed(r)
    <3>1. r.recvmbox \in Seq(Seq(Int)) /\ r.took \in Nat /\ r.app \in Apps
      BY <2>2, EmptySeq DEF Apps
    <3>2. \A x \in {"app", "recvmbox", "took"} : IsTyped(x, r[x])
      BY <3>1 DEF IsTyped
    <3> QED BY <3>2, <2>2, Retyped
  <2> QED BY <2>1, <2>2, <2>3, <1>3 DEF ToldApp
<1> QED BY <1>2, <1>3

\* What a pcb that ends here leaves alone.
EndedFields == PcbFields \cup {"out", "app", "recvmbox", "took", "ended", "held"}
Freed(d) == IF d.app = "accept" THEN "LISTEN" ELSE "CLOSED"

LEMMA GoneSame ==
  ASSUME NEW d, NEW how \in Endings, Typed(d)
  PROVE  /\ Same(d, Gone(d, how), PcbFields \cup {"ended", "held"})
         /\ Gone(d, how).state = Freed(d) /\ Gone(d, how).state \in {"CLOSED", "LISTEN"}
         /\ Gone(d, how).unsent = <<>> /\ Gone(d, how).unacked = <<>>
<1> DEFINE r == Gone(d, how)
<1>1. Typed(r) /\ GoneAs(d, how, r)
  BY GoneKeeps
<1> HIDE DEF r
<1>2. r.unsent = <<>> /\ r.unacked = <<>> /\ r.state = Freed(d) /\ r.state \in {"CLOSED", "LISTEN"}
  BY <1>1 DEF GoneAs, NoPcb, PcbFields, Freed
<1>3. Same(d, r, PcbFields \cup {"ended", "held"})
  BY <1>1 DEF GoneAs, Same, Typed, Fields
<1> QED BY <1>2, <1>3 DEF r

LEMMA AbortKeeps ==
  ASSUME NEW d, Typed(d)
  PROVE  /\ Typed(Abort(d)) /\ Same(d, Abort(d), EndedFields)
         /\ Abort(d).state = Freed(d) /\ Abort(d).state \in {"CLOSED", "LISTEN"}
         /\ Abort(d).app = IF d.state = "TIME_WAIT" THEN d.app ELSE ToldApp(d.app)
<1> DEFINE p == Purge(d)
           s == Set(p, {"ACK_NOW"})
           o == Output(s)
           a == IF "ACK_DELAY" \in d.flags THEN o ELSE p
           m == Reset(d.snd_nxt, d.rcv_nxt)
           b == Emit(a, m)
           g == Gone(b, "aborted")
           r == ErrTcp(g)
<1>1. CASE d.state = "TIME_WAIT"
  <2>1. Abort(d) = Gone(d, "aborted") /\ "aborted" \in Endings
    BY <1>1 DEF Abort, Endings
  <2>2. /\ Typed(Abort(d)) /\ Same(d, Abort(d), PcbFields \cup {"ended", "held"})
        /\ Abort(d).state = Freed(d) /\ Abort(d).state \in {"CLOSED", "LISTEN"}
    BY <2>1, GoneKeeps, GoneSame
  <2>3. Abort(d).app = d.app
    BY <2>2, FieldsApart DEF Same, Fields, ConnFields
  <2>4. Same(d, Abort(d), EndedFields)
    BY <2>2 DEF Same, EndedFields
  <2> QED BY <1>1, <2>2, <2>3, <2>4
<1>2. CASE d.state # "TIME_WAIT"
  <2> DEFINE S == PcbFields \cup {"out", "held"}
  <2>1. Typed(p) /\ Same(d, p, S)
    BY PurgeKeeps DEF Same, PurgedFields, PcbFields
  <2>2. Typed(s) /\ Same(d, s, S)
    <3>1. {"ACK_NOW"} \in SUBSET Flags
      BY DEF Flags
    <3> HIDE DEF p
    <3>2. Typed(s) /\ Same(p, s, {"flags"})
      BY <2>1, <3>1, FlagsKeep
    <3>3. "flags" \in PcbFields
      BY DEF PcbFields
    <3> HIDE DEF s
    <3> QED BY <2>1, <3>2, <3>3 DEF Same
  <2>3. Typed(o) /\ Same(d, o, S)
    <3> HIDE DEF s
    <3>1. Typed(o) /\ Same(s, o, OutputFields)
      BY <2>2, OutputKeeps
    <3>2. OutputFields \subseteq S
      BY DEF OutputFields, PcbFields
    <3> HIDE DEF o, S
    <3> QED BY <2>2, <3>1, <3>2 DEF Same
  <2>4. Typed(a) /\ Same(d, a, S)
    BY <2>1, <2>3
  <2>5. m \in Messages
    BY ResetType DEF Typed, PcbTyped
  <2>6. Typed(b) /\ Same(d, b, S)
    <3> HIDE DEF a, m
    <3>1. Typed(b) /\ Same(a, b, {"out"})
      BY <2>4, <2>5, EmitKeeps
    <3> HIDE DEF b
    <3> QED BY <2>4, <3>1 DEF Same
  <2>7. "aborted" \in Endings
    BY DEF Endings
  <2>8. /\ Typed(g) /\ Same(b, g, PcbFields \cup {"ended", "held"})
        /\ g.state = Freed(b) /\ g.state \in {"CLOSED", "LISTEN"}
    <3> HIDE DEF b
    <3> QED BY <2>6, <2>7, GoneKeeps, GoneSame
  <2>9. g.app = d.app /\ g.state = Freed(d)
    <3> HIDE DEF g, b
    <3> QED BY <2>6, <2>8, FieldsApart DEF Same, Fields, ConnFields, Freed
  <2>10. /\ Typed(r) /\ Same(g, r, {"app", "recvmbox", "took"}) /\ r.app = ToldApp(g.app)
    <3> HIDE DEF g
    <3> QED BY <2>8, ErrTcpKeeps
  <2>11. Abort(d) = r
    BY <1>2 DEF Abort
  <2> HIDE DEF r, g, b
  <2>12. r.state = g.state
    BY <2>10 DEF Same, Fields, PcbFields
  <2>13. Same(d, r, EndedFields)
    BY <2>6, <2>8, <2>10 DEF Same, EndedFields
  <2> QED BY <1>2, <2>8, <2>9, <2>10, <2>11, <2>12, <2>13
<1> QED BY <1>1, <1>2

-----------------------------------------------------------------------------
(* tcp_close.                                                               *)
Closed(d) ==
  LET c == SendFin(Set(d, {"RXCLOSED"}))
  IN  [c EXCEPT !.state = IF @ = "ESTABLISHED" THEN "FIN_WAIT_1" ELSE "LAST_ACK"]

ClosedFields == {"flags", "unsent", "snd_lbb", "snd_buf", "state"}
CloseFields == EndedFields \cup {"recv_flags"}

LEMMA MarkedKeeps ==
  ASSUME NEW d, Typed(d)
  PROVE  /\ Typed(Set(d, {"RXCLOSED"})) /\ Same(d, Set(d, {"RXCLOSED"}), {"flags"})
         /\ Set(d, {"RXCLOSED"}).flags = d.flags \cup {"RXCLOSED"}
<1>1. {"RXCLOSED"} \in SUBSET Flags
  BY DEF Flags
<1>2. Set(d, {"RXCLOSED"}).flags = d.flags \cup {"RXCLOSED"}
  BY DEF Set, Typed, Fields, PcbFields
<1> QED BY <1>1, <1>2, FlagsKeep

LEMMA ClosedKeeps ==
  ASSUME NEW d, Typed(d), CanSendFin(d)
  PROVE  /\ Typed(Closed(d)) /\ Same(d, Closed(d), ClosedFields)
         /\ Closed(d).state = IF d.state = "ESTABLISHED" THEN "FIN_WAIT_1" ELSE "LAST_ACK"
         /\ Same(SendFin(Set(d, {"RXCLOSED"})), Closed(d), {"state"})
<1> DEFINE a == Set(d, {"RXCLOSED"})
           c == SendFin(a)
           r == [c EXCEPT !.state = IF @ = "ESTABLISHED" THEN "FIN_WAIT_1" ELSE "LAST_ACK"]
<1>1. Typed(a) /\ Same(d, a, {"flags"})
  BY MarkedKeeps
<1>2. a.unsent = d.unsent /\ a.snd_buf = d.snd_buf
  <2> HIDE DEF a
  <2> QED BY <1>1 DEF Same, Fields, PcbFields
<1>3. CanSendFin(a)
  <2> HIDE DEF a
  <2> QED BY <1>2 DEF CanSendFin, JoinsLast
<1>4. Typed(c) /\ Same(a, c, {"flags", "unsent", "snd_lbb", "snd_buf"})
  <2> HIDE DEF a
  <2> QED BY <1>1, <1>3, SendFinKeeps
<1>5. Closed(d) = r
  BY DEF Closed
<1> HIDE DEF a, c
<1>6. DOMAIN c = Fields /\ c.state = d.state
  BY <1>1, <1>4 DEF Same, Fields, PcbFields
<1>7. Same(c, r, {"state"}) /\ r.state = IF d.state = "ESTABLISHED" THEN "FIN_WAIT_1" ELSE "LAST_ACK"
  BY <1>6 DEF Same, Fields, PcbFields
<1> HIDE DEF r
<1>8. Typed(r)
  <2>1. IsTyped("state", r.state)
    BY <1>7 DEF IsTyped, States, Active
  <2> QED BY <2>1, <1>4, <1>7, Retyped
<1>9. Same(d, r, ClosedFields)
  BY <1>1, <1>4, <1>7 DEF Same, ClosedFields
<1> QED BY <1>5, <1>7, <1>8, <1>9 DEF a, c

(* What tcp_close makes of a connection.                                    *)
CloseAs(d, r) ==
  \/ Unread(d) /\ d.state = "ESTABLISHED" /\ r.state = "TIME_WAIT" /\ r.recv_flags = d.recv_flags
  \/ /\ Unread(d) /\ d.state = "CLOSE_WAIT" /\ d.input /\ r.state = d.state
     /\ r.recv_flags = d.recv_flags \cup {"CLOSED"}
  \/ /\ Unread(d) /\ d.state = "CLOSE_WAIT" /\ ~d.input /\ r.state \in {"CLOSED", "LISTEN"} /\ r.state = Freed(d)
     /\ r.recv_flags = d.recv_flags
  \/ ~Unread(d) /\ CanSendFin(d) /\ r = Output(Closed(d))
  \/ (CanClose(d) => d.state \notin {"ESTABLISHED", "CLOSE_WAIT"}) /\ r = Set(d, {"RXCLOSED"})

LEMMA TcpCloseKeeps ==
  ASSUME NEW d, Typed(d)
  PROVE  Typed(TcpClose(d)) /\ Same(d, TcpClose(d), CloseFields) /\ CloseAs(d, TcpClose(d))
<1> DEFINE c == Set(d, {"RXCLOSED"})
           m == Reset(c.snd_nxt, c.rcv_nxt)
           b == Emit(c, m)
           p == Purge(b)
           S == PcbFields \cup {"out"}
<1>1. Typed(c) /\ Same(d, c, {"flags"})
  BY MarkedKeeps
<1>2. m \in Messages
  <2> HIDE DEF c
  <2> QED BY <1>1, ResetType DEF Typed, PcbTyped
<1>3. Typed(b) /\ Same(c, b, {"out"})
  <2> HIDE DEF c, m
  <2> QED BY <1>1, <1>2, EmitKeeps
<1>4. /\ Typed(p) /\ Same(b, p, PurgedFields)
      /\ Typed(TimeWait(p)) /\ Same(p, TimeWait(p), PurgedFields \cup {"state"})
      /\ TimeWait(p).state = "TIME_WAIT"
  <2> HIDE DEF b
  <2>1. Typed(p) /\ Same(b, p, PurgedFields)
    BY <1>3, PurgeKeeps
  <2> HIDE DEF p
  <2> QED BY <2>1, PurgeKeeps
<1>5. /\ c.state = d.state /\ c.input = d.input /\ Unread(c) = Unread(d)
      /\ CanSendFin(c) = CanSendFin(d) /\ c.recv_flags = d.recv_flags
  <2> HIDE DEF c
  <2>1. /\ c.state = d.state /\ c.input = d.input /\ c.refused_data = d.refused_data
        /\ c.rcv_wnd = d.rcv_wnd /\ c.unsent = d.unsent /\ c.snd_buf = d.snd_buf
        /\ c.recv_flags = d.recv_flags
    BY <1>1 DEF Same, Fields, PcbFields, HandlerFields
  <2> QED BY <2>1 DEF Unread, CanSendFin, JoinsLast
<1>6. TcpClose(d) =
        CASE Unread(c) /\ c.state = "ESTABLISHED" -> TimeWait(p)
          [] Unread(c) /\ c.state = "CLOSE_WAIT" ->
                IF c.input THEN [p EXCEPT !.recv_flags = @ \cup {"CLOSED"}]
                ELSE Gone(p, "aborted")
          [] ~Unread(c) /\ CanSendFin(c) -> Output(Closed(d))
          [] OTHER -> c
  BY DEF TcpClose, Closed
<1> HIDE DEF c, m, b, p
<1>7. Same(d, p, S) /\ p.recv_flags = d.recv_flags /\ DOMAIN p = Fields /\ p.state = d.state
  <2>1. PurgedFields \subseteq PcbFields /\ "flags" \in PcbFields
    BY DEF PurgedFields, PcbFields
  <2>2. Same(d, p, S)
    BY <1>1, <1>3, <1>4, <2>1 DEF Same
  <2>3. "state" \in Fields /\ "state" \notin {"flags"} \cup {"out"} \cup PurgedFields
    BY DEF Fields, PcbFields, PurgedFields
  <2>4. p.state = d.state
    BY <1>1, <1>3, <1>4, <2>3 DEF Same
  <2> QED BY <2>2, <2>4, FieldsApart DEF Same, Fields, PcbFields, HandlerFields
<1>8. S \subseteq CloseFields /\ "flags" \in CloseFields /\ PcbFields \subseteq CloseFields
      /\ {"out", "recv_flags", "ended", "held"} \subseteq CloseFields
  BY DEF CloseFields, EndedFields, PcbFields
<1> HIDE DEF S
<1>9. CASE Unread(d) /\ d.state = "ESTABLISHED"
  <2>1. TcpClose(d) = TimeWait(p)
    BY <1>5, <1>6, <1>9
  <2>2. TimeWait(p).recv_flags = p.recv_flags
    BY <1>4 DEF Same, PurgedFields, Fields, HandlerFields
  <2>3. Same(d, TimeWait(p), CloseFields)
    <3>1. PurgedFields \cup {"state"} \subseteq CloseFields
      BY DEF PurgedFields, CloseFields, EndedFields, PcbFields
    <3> QED BY <1>4, <1>7, <1>8, <3>1 DEF Same
  <2> QED BY <2>1, <2>2, <2>3, <1>4, <1>7, <1>9 DEF CloseAs
<1>10. CASE Unread(d) /\ d.state = "CLOSE_WAIT" /\ d.input
  <2> DEFINE r == [p EXCEPT !.recv_flags = @ \cup {"CLOSED"}]
  <2>1. TcpClose(d) = r
    BY <1>5, <1>6, <1>10
  <2>2. Same(p, r, {"recv_flags"}) /\ r.recv_flags = d.recv_flags \cup {"CLOSED"} /\ r.state = d.state
    BY <1>7 DEF Same, Fields, PcbFields, HandlerFields
  <2> HIDE DEF r
  <2>3. Typed(r)
    <3>1. r.recv_flags \in SUBSET RecvFlags
      BY <2>2 DEF Typed, HandlerTyped, RecvFlags
    <3>2. IsTyped("recv_flags", r.recv_flags)
      BY <3>1 DEF IsTyped
    <3> QED BY <3>2, <1>4, <2>2, Retyped
  <2>4. Same(d, r, CloseFields)
    BY <1>7, <1>8, <2>2 DEF Same
  <2> QED BY <2>1, <2>2, <2>3, <2>4, <1>10 DEF CloseAs
<1>11. CASE Unread(d) /\ d.state = "CLOSE_WAIT" /\ ~d.input
  <2> DEFINE r == Gone(p, "aborted")
  <2>1. TcpClose(d) = r
    BY <1>5, <1>6, <1>11
  <2>2. "aborted" \in Endings
    BY DEF Endings
  <2>3. /\ Typed(r) /\ Same(p, r, PcbFields \cup {"ended", "held"}) /\ r.state \in {"CLOSED", "LISTEN"}
        /\ r.state = Freed(p)
    BY <2>2, <1>4, GoneKeeps, GoneSame
  <2> HIDE DEF r
  <2>4. r.recv_flags = d.recv_flags /\ p.app = d.app
    <3>1. "app" \in Fields \ S
      BY FieldsApart DEF Fields, ConnFields, S
    <3> QED BY <1>7, <2>3, <3>1, FieldsApart DEF Same, Fields, HandlerFields
  <2>5. Same(d, r, CloseFields)
    BY <1>7, <1>8, <2>3 DEF Same
  <2> QED BY <2>1, <2>3, <2>4, <2>5, <1>11 DEF CloseAs, Freed
<1>12. CASE ~Unread(d) /\ CanSendFin(d)
  <2> DEFINE r == Output(Closed(d))
  <2>1. TcpClose(d) = r
    BY <1>5, <1>6, <1>12
  <2>2. Typed(Closed(d)) /\ Same(d, Closed(d), ClosedFields)
    BY <1>12, ClosedKeeps
  <2>3. Typed(r) /\ Same(Closed(d), r, OutputFields)
    BY <2>2, OutputKeeps
  <2>4. ClosedFields \subseteq CloseFields /\ OutputFields \subseteq CloseFields
    BY DEF ClosedFields, OutputFields, CloseFields, EndedFields, PcbFields
  <2>5. Same(d, r, CloseFields)
    <3> HIDE DEF r
    <3> QED BY <2>2, <2>3, <2>4 DEF Same
  <2> HIDE DEF r
  <2>6. CloseAs(d, r)
    BY <1>12 DEF CloseAs, r
  <2> QED BY <2>1, <2>3, <2>5, <2>6
<1>13. CASE ~(Unread(d) /\ d.state = "ESTABLISHED") /\ ~(Unread(d) /\ d.state = "CLOSE_WAIT")
            /\ ~(~Unread(d) /\ CanSendFin(d))
  <2>1. TcpClose(d) = c
    BY <1>5, <1>6, <1>13
  <2>2. CanClose(d) => d.state \notin {"ESTABLISHED", "CLOSE_WAIT"}
    BY <1>13 DEF CanClose
  <2>3. Same(d, c, CloseFields)
    BY <1>1, <1>8 DEF Same
  <2> QED BY <2>1, <2>2, <2>3, <1>1 DEF CloseAs, c
<1> QED BY <1>9, <1>10, <1>11, <1>12, <1>13

-----------------------------------------------------------------------------
(* api_msg.c.                                                               *)
Offer(d) == Min({d.left, d.snd_buf})
Units(d) == [i \in 1 .. Offer(d) |-> d.snd_lbb + i - 1]
Written(d) ==
  [Write(d, Units(d)) EXCEPT !.left = @ - Offer(d),
                             !.app = IF d.left = Offer(d) THEN "written" ELSE "write"]

LEMMA UnitsFacts ==
  ASSUME NEW d, Typed(d)
  PROVE  /\ Offer(d) \in Nat /\ Offer(d) <= d.left /\ Offer(d) <= d.snd_buf
         /\ Units(d) \in Seq(Int) /\ Len(Units(d)) = Offer(d)
         /\ \A i \in 1 .. Offer(d) : Units(d)[i] = d.snd_lbb + i - 1
<1>1. d.left \in Nat /\ d.snd_buf \in Nat /\ d.snd_lbb \in Int
  BY DEF Typed, PcbTyped, ConnTyped
<1>2. Offer(d) \in Nat /\ Offer(d) <= d.left /\ Offer(d) <= d.snd_buf
  BY <1>1, MinOf DEF Offer
<1> DEFINE n == Offer(d)
<1> HIDE DEF n
<1>3. Units(d) = [i \in 1 .. n |-> d.snd_lbb + i - 1]
  BY DEF Units, n
<1>4. n \in Nat
  BY <1>2 DEF n
<1>5. Units(d) \in [1 .. n -> Int]
  BY <1>1, <1>3, <1>4
<1>6. Units(d) \in Seq(Int) /\ Len(Units(d)) = n
  BY <1>4, <1>5, SeqDef
<1>7. \A i \in 1 .. n : Units(d)[i] = d.snd_lbb + i - 1
  BY <1>3
<1> QED BY <1>2, <1>6, <1>7 DEF n

LEMMA WrittenKeeps ==
  ASSUME NEW d, Typed(d)
  PROVE  /\ Typed(Written(d)) /\ Same(Write(d, Units(d)), Written(d), {"left", "app"})
         /\ Same(d, Written(d), {"unsent", "snd_lbb", "snd_buf", "left", "app"})
         /\ Written(d).app \in {"write", "written"} /\ Written(d).left = d.left - Offer(d)
         /\ Written(d).app = "written" <=> Written(d).left = 0
         /\ \E n : WrittenAs(d, Units(d), n, Written(d))
         /\ WriteMore(d) = Output(Written(d))
<1> DEFINE w == Write(d, Units(d))
           r == Written(d)
<1>1. /\ Units(d) \in Seq(Int) /\ Len(Units(d)) = Offer(d) /\ Len(Units(d)) <= d.snd_buf
      /\ Offer(d) \in Nat /\ Offer(d) <= d.left
  BY UnitsFacts
<1>2. /\ Typed(w) /\ Same(d, w, {"unsent", "snd_lbb", "snd_buf"})
  BY <1>1, WriteKeeps
<1>3. PICK n : WrittenAs(d, Units(d), n, w)
  BY <1>1, WriteKeeps
<1>4. r = [w EXCEPT !.left = @ - Offer(d),
                    !.app = IF d.left = Offer(d) THEN "written" ELSE "write"]
  BY DEF Written
<1>5. WriteMore(d) = Output(r)
  BY DEF WriteMore, Written, Units, Offer
<1> HIDE DEF w, r
<1>6. DOMAIN w = Fields /\ w.left = d.left /\ d.left \in Nat
  BY <1>2 DEF Same, Fields, ConnFields, Typed, ConnTyped
<1>7. /\ Same(w, r, {"left", "app"}) /\ r.left = d.left - Offer(d)
      /\ r.app = IF d.left = Offer(d) THEN "written" ELSE "write"
  BY <1>4, <1>6 DEF Same, Fields, ConnFields
<1>8. Typed(r)
  <2>1. r.left \in Nat /\ r.app \in Apps
    BY <1>1, <1>6, <1>7 DEF Apps
  <2>2. \A x \in {"left", "app"} : IsTyped(x, r[x])
    BY <2>1 DEF IsTyped
  <2> QED BY <2>2, <1>2, <1>7, Retyped
<1>9. WrittenAs(d, Units(d), n, r)
  <2>1. r.unsent = w.unsent /\ r.snd_lbb = w.snd_lbb
    BY <1>7 DEF Same, Fields, PcbFields
  <2> QED BY <1>3, <2>1 DEF WrittenAs
<1>10. Same(d, r, {"unsent", "snd_lbb", "snd_buf", "left", "app"})
  BY <1>2, <1>7 DEF Same
<1>11. r.app = "written" <=> r.left = 0
  BY <1>1, <1>6, <1>7
<1> QED BY <1>5, <1>7, <1>8, <1>9, <1>10, <1>11 DEF w, r

LEMMA CloseInternalKeeps ==
  ASSUME NEW d, Typed(d)
  PROVE  /\ Typed(CloseInternal(d)) /\ Same(TcpClose(d), CloseInternal(d), {"app"})
         /\ Same(d, CloseInternal(d), CloseFields)
         /\ CloseInternal(d).app = IF CanClose(d) THEN "done" ELSE "close"
<1> DEFINE c == TcpClose(d)
           r == [c EXCEPT !.app = IF CanClose(d) THEN "done" ELSE "close"]
<1>1. Typed(c) /\ Same(d, c, CloseFields)
  BY TcpCloseKeeps
<1>2. CloseInternal(d) = r
  BY DEF CloseInternal
<1> HIDE DEF c
<1>3. Same(c, r, {"app"}) /\ r.app = IF CanClose(d) THEN "done" ELSE "close"
  BY <1>1 DEF Same, Fields, ConnFields
<1> HIDE DEF r
<1>4. Typed(r)
  <2>1. r.app \in Apps
    BY <1>3 DEF Apps
  <2>2. IsTyped("app", r.app)
    BY <2>1 DEF IsTyped
  <2> QED BY <2>2, <1>1, <1>3, Retyped
<1>5. Same(d, r, CloseFields)
  <2>1. "app" \in CloseFields
    BY DEF CloseFields, EndedFields
  <2> QED BY <1>1, <1>3, <2>1 DEF Same
<1> QED BY <1>2, <1>3, <1>4, <1>5 DEF c

SentFields == CloseFields \cup {"left"}

LEMMA SentKeeps ==
  ASSUME NEW d, Typed(d)
  PROVE  Typed(Sent(d)) /\ Same(d, Sent(d), SentFields)
<1>1. Typed(WriteMore(d)) /\ Same(d, WriteMore(d), SentFields)
  <2>1. /\ Typed(Written(d)) /\ Same(d, Written(d), {"unsent", "snd_lbb", "snd_buf", "left", "app"})
        /\ WriteMore(d) = Output(Written(d))
    BY WrittenKeeps
  <2>2. Typed(Output(Written(d))) /\ Same(Written(d), Output(Written(d)), OutputFields)
    BY <2>1, OutputKeeps
  <2>3. {"unsent", "snd_lbb", "snd_buf", "left", "app"} \subseteq SentFields /\ OutputFields \subseteq SentFields
    BY DEF SentFields, CloseFields, EndedFields, OutputFields, PcbFields
  <2> QED BY <2>1, <2>2, <2>3 DEF Same
<1>2. Typed(CloseInternal(d)) /\ Same(d, CloseInternal(d), SentFields)
  BY CloseInternalKeeps DEF Same, SentFields
<1>3. Same(d, d, SentFields)
  BY DEF Same, Typed
<1> QED BY <1>1, <1>2, <1>3 DEF Sent

LEMMA RecvTcpKeeps ==
  ASSUME NEW d, NEW p \in Seq(Int), Typed(d)
  PROVE  /\ Typed(RecvTcp(d, p)) /\ Same(d, RecvTcp(d, p), RecvedFields \cup {"recvmbox"})
         /\ d.input => Same(d, RecvTcp(d, p), {"recvmbox", "rcv_wnd", "rcv_ann_wnd", "flags"})
<1> DEFINE a == [d EXCEPT !.recvmbox = Append(@, p)]
<1>1. CASE d.rcvopen /\ Takes(d)
  <2>1. DOMAIN d = Fields /\ d.recvmbox \in Seq(Seq(Int))
    BY DEF Typed, ConnTyped
  <2>2. Same(d, a, {"recvmbox"}) /\ a.recvmbox = Append(d.recvmbox, p)
    BY <2>1 DEF Same, Fields, ConnFields
  <2>3. RecvTcp(d, p) = a
    BY <1>1 DEF RecvTcp
  <2> HIDE DEF a
  <2>4. Typed(a)
    <3>1. a.recvmbox \in Seq(Seq(Int))
      BY <2>1, <2>2, AppendProperties
    <3>2. \A x \in {"recvmbox"} : IsTyped(x, a[x])
      BY <3>1 DEF IsTyped
    <3> QED BY <3>2, <2>2, Retyped
  <2> QED BY <2>2, <2>3, <2>4 DEF Same
<1>2. CASE ~(d.rcvopen /\ Takes(d)) /\ ~d.rcvopen /\ p # <<>>
  <2>1. RecvTcp(d, p) = Recved(d, Len(p)) /\ Len(p) \in Nat
    BY <1>2, LenProperties DEF RecvTcp
  <2>2. /\ Typed(Recved(d, Len(p))) /\ Same(d, Recved(d, Len(p)), RecvedFields)
        /\ d.input => Same(d, Recved(d, Len(p)), {"rcv_wnd", "rcv_ann_wnd", "flags"})
    BY <2>1, RecvedKeeps
  <2> QED BY <2>1, <2>2 DEF Same
<1>3. CASE ~(d.rcvopen /\ Takes(d)) /\ ~(~d.rcvopen /\ p # <<>>)
  <2>1. RecvTcp(d, p) = d
    BY <1>3 DEF RecvTcp
  <2> QED BY <2>1 DEF Same, Typed
<1> QED BY <1>1, <1>2, <1>3

GivenFields == {"recvmbox", "rcv_wnd", "rcv_ann_wnd", "flags"}

LEMMA EndOfStreamKeeps ==
  ASSUME NEW d, Typed(d)
  PROVE  /\ Typed(EndOfStream(d)) /\ Same(d, EndOfStream(d), RecvedFields \cup {"recvmbox"})
         /\ d.input => Same(d, EndOfStream(d), GivenFields)
<1> DEFINE a == [d EXCEPT !.rcv_wnd = IF @ = Wnd THEN @ ELSE Wrap(@ + 1)]
           p == <<>>
<1>1. DOMAIN d = Fields /\ d.rcv_wnd \in Int
  BY DEF Typed, PcbTyped
<1>2. Same(d, a, {"rcv_wnd"}) /\ a.rcv_wnd = IF d.rcv_wnd = Wnd THEN d.rcv_wnd ELSE Wrap(d.rcv_wnd + 1)
  BY <1>1 DEF Same, Fields, PcbFields
<1>3. EndOfStream(d) = RecvTcp(a, p) /\ p \in Seq(Int)
  BY EmptySeq DEF EndOfStream
<1> HIDE DEF a, p
<1>4. Typed(a)
  <2>1. a.rcv_wnd \in Int
    <3>1. d.rcv_wnd + 1 \in Int
      BY <1>1
    <3>2. Wrap(d.rcv_wnd + 1) \in Int
      BY <3>1, WrapType
    <3> QED BY <1>1, <1>2, <3>2
  <2> QED BY <2>1, <1>2, Retyped DEF IsTyped
<1>5. /\ Typed(RecvTcp(a, p)) /\ Same(a, RecvTcp(a, p), RecvedFields \cup {"recvmbox"})
      /\ a.input => Same(a, RecvTcp(a, p), {"recvmbox", "rcv_wnd", "rcv_ann_wnd", "flags"})
  BY <1>3, <1>4, RecvTcpKeeps
<1>6. a.input = d.input /\ "rcv_wnd" \in RecvedFields
  BY <1>2 DEF Same, Fields, HandlerFields, RecvedFields
<1> DEFINE r == RecvTcp(a, p)
<1>7. /\ Typed(r) /\ Same(a, r, RecvedFields \cup {"recvmbox"})
      /\ a.input => Same(a, r, {"recvmbox", "rcv_wnd", "rcv_ann_wnd", "flags"})
  BY <1>5
<1> HIDE DEF r
<1>8. Same(d, r, RecvedFields \cup {"recvmbox"})
  BY <1>2, <1>6, <1>7 DEF Same
<1>9. d.input => Same(d, r, GivenFields)
  BY <1>2, <1>6, <1>7 DEF Same, GivenFields
<1> QED BY <1>3, <1>7, <1>8, <1>9 DEF r

LEMMA ProcessRefusedKeeps ==
  ASSUME NEW d, Typed(d)
  PROVE  /\ Typed(ProcessRefused(d))
         /\ Same(d, ProcessRefused(d), RecvedFields \cup {"recvmbox", "refused_data", "refused_fin"})
         /\ d.input => Same(d, ProcessRefused(d), GivenFields \cup {"refused_data", "refused_fin"})
<1> DEFINE a == [d EXCEPT !.refused_data = <<>>, !.refused_fin = FALSE]
           p == RecvTcp(a, d.refused_data)
           e == EndOfStream(p)
           S == RecvedFields \cup {"recvmbox", "refused_data", "refused_fin"}
           G == GivenFields \cup {"refused_data", "refused_fin"}
<1>1. DOMAIN d = Fields /\ d.refused_data \in Seq(Int)
  BY DEF Typed, PcbTyped
<1>2. /\ Same(d, a, {"refused_data", "refused_fin"}) /\ a.refused_data = <<>> /\ a.refused_fin = FALSE
  BY <1>1 DEF Same, Fields, PcbFields
<1>3. ProcessRefused(d) = IF d.refused_data = <<>> \/ ~Takes(d) THEN d
                          ELSE IF d.refused_fin THEN e ELSE p
  BY DEF ProcessRefused
<1> HIDE DEF a
<1>4. Typed(a)
  <2>1. a.refused_data \in Seq(Int)
    BY <1>2, EmptySeq
  <2>2. a.refused_fin \in BOOLEAN
    BY <1>2, Zenon
  <2>3. \A x \in {"refused_data", "refused_fin"} : IsTyped(x, a[x])
    BY <2>1, <2>2 DEF IsTyped
  <2> QED BY <2>3, <1>2, Retyped
<1>5. /\ Typed(p) /\ Same(a, p, RecvedFields \cup {"recvmbox"})
      /\ a.input => Same(a, p, {"recvmbox", "rcv_wnd", "rcv_ann_wnd", "flags"})
  BY <1>1, <1>4, RecvTcpKeeps
<1> HIDE DEF p
<1>6. /\ Typed(e) /\ Same(p, e, RecvedFields \cup {"recvmbox"})
      /\ p.input => Same(p, e, GivenFields)
  BY <1>5, EndOfStreamKeeps
<1> HIDE DEF e
<1>7. Same(d, p, S) /\ Same(d, e, S) /\ Same(d, d, S) /\ Same(d, d, G)
  BY <1>1, <1>2, <1>5, <1>6 DEF Same
<1>8. a.input = d.input /\ p.input = a.input
  BY <1>2, <1>5 DEF Same, Fields, HandlerFields, RecvedFields, OutputFields
<1>9. d.input => Same(d, p, G) /\ Same(d, e, G)
  BY <1>2, <1>5, <1>6, <1>8 DEF Same, GivenFields
<1> QED BY <1>3, <1>5, <1>6, <1>7, <1>9

-----------------------------------------------------------------------------
(* netconn_drain: an entry of recvmbox after the other.                     *)
ReadOne(x, p) == IF p = <<>> THEN x ELSE Recved(x, Len(p))
Reads(d, k, read) ==
  read = [n \in 0 .. k |-> IF n = 0 THEN d ELSE ReadOne(read[n - 1], d.recvmbox[n])]
Drained(last) == [last EXCEPT !.recvmbox = <<>>, !.rcvopen = FALSE]

LEMMA ReadsExist ==
  ASSUME NEW d, NEW k \in Nat
  PROVE  \E read : Reads(d, k, read)
<1> DEFINE T == {m \in 0 .. k : \E read : Reads(d, m, read)}
<1>1. 0 \in T
  <2> DEFINE g == [n \in 0 .. 0 |-> d]
  <2>1. g = [n \in 0 .. 0 |-> IF n = 0 THEN d ELSE ReadOne(g[n - 1], d.recvmbox[n])]
    OBVIOUS
  <2> HIDE DEF g
  <2> QED BY <2>1 DEF Reads
<1>2. ASSUME NEW m \in 0 .. k - 1, m \in T PROVE m + 1 \in T
  <2>1. PICK f : Reads(d, m, f)
    BY <1>2
  <2> DEFINE last == ReadOne(f[m], d.recvmbox[m + 1])
             g == [n \in 0 .. m + 1 |-> IF n = m + 1 THEN last ELSE f[n]]
             G == [n \in 0 .. m + 1 |-> IF n = 0 THEN d ELSE ReadOne(g[n - 1], d.recvmbox[n])]
  <2>2. ASSUME NEW n \in 0 .. m + 1 PROVE g[n] = G[n]
    <3>1. CASE n = m + 1
      <4>1. g[n] = last /\ n # 0 /\ n - 1 = m /\ m \in 0 .. m + 1 /\ m # m + 1
        BY <3>1
      <4>2. g[m] = f[m]
        BY <4>1
      <4> QED BY <4>1, <4>2, <3>1
    <3>2. CASE n = 0
      <4>1. f[0] = d /\ m # -1
        BY <2>1 DEF Reads
      <4> QED BY <4>1, <3>2
    <3>3. CASE n \in 1 .. m
      <4>1. f[n] = ReadOne(f[n - 1], d.recvmbox[n]) /\ n \in 0 .. m
            /\ n - 1 \in 0 .. m + 1 /\ n - 1 # m + 1
        BY <2>1, <3>3 DEF Reads
      <4>2. g[n] = f[n] /\ g[n - 1] = f[n - 1]
        BY <3>3, <4>1
      <4> QED BY <4>1, <4>2, <3>3
    <3> QED BY <3>1, <3>2, <3>3
  <2>3. g = G
    BY <2>2
  <2>4. Reads(d, m + 1, g)
    <3> HIDE DEF g
    <3> QED BY <2>3 DEF Reads
  <2> HIDE DEF g
  <2> QED BY <2>4
<1>3. k \in T
  <2> HIDE DEF T
  <2> QED BY <1>1, <1>2, Induction
<1> QED BY <1>3

LEMMA DrainReads ==
  ASSUME NEW d, Typed(d)
  PROVE  \E read :
            /\ read[0] = d
            /\ \A n \in 1 .. Len(d.recvmbox) : read[n] = ReadOne(read[n - 1], d.recvmbox[n])
            /\ Drain(d) = Drained(read[Len(d.recvmbox)])
<1> DEFINE k == Len(d.recvmbox)
           read == CHOOSE f : Reads(d, k, f)
<1>1. k \in Nat
  BY LenProperties DEF Typed, ConnTyped
<1>2. Reads(d, k, read)
  <2> HIDE DEF k
  <2> QED BY <1>1, ReadsExist
<1>3. Drain(d) = Drained(read[k])
  BY DEF Drain, Drained, Reads, ReadOne
<1>4. read[0] = d /\ \A n \in 1 .. k : read[n] = ReadOne(read[n - 1], d.recvmbox[n])
  <2> HIDE DEF read, k
  <2>1. read[0] = d
    BY <1>1, <1>2 DEF Reads
  <2>2. \A n \in 1 .. k : n \in 0 .. k /\ n # 0
    BY <1>1
  <2> QED BY <2>1, <2>2, <1>2 DEF Reads
<1> QED BY <1>3, <1>4

LEMMA DrainKeeps ==
  ASSUME NEW d, Typed(d)
  PROVE  /\ Typed(Drain(d)) /\ Same(d, Drain(d), RecvedFields \cup {"recvmbox", "rcvopen"})
         /\ d.input => Same(d, Drain(d), {"rcv_wnd", "rcv_ann_wnd", "flags", "recvmbox", "rcvopen"})
<1> DEFINE k == Len(d.recvmbox)
           In == {"rcv_wnd", "rcv_ann_wnd", "flags"}
<1>1. k \in Nat /\ d.recvmbox \in Seq(Seq(Int))
  BY LenProperties DEF Typed, ConnTyped
<1>2. PICK read :
        /\ read[0] = d
        /\ \A n \in 1 .. k : read[n] = ReadOne(read[n - 1], d.recvmbox[n])
        /\ Drain(d) = Drained(read[k])
  BY DrainReads
<1>3. \A n \in 1 .. k : d.recvmbox[n] \in Seq(Int)
  BY <1>1, ElementOfSeq
<1> HIDE DEF k
<1> DEFINE T == {n \in 0 .. k : Typed(read[n]) /\ Same(d, read[n], RecvedFields)
                                /\ (d.input => Same(d, read[n], In))}
<1>4. 0 \in T
  BY <1>1, <1>2 DEF Same, Typed
<1>5. ASSUME NEW n \in 0 .. k - 1, n \in T PROVE n + 1 \in T
  <2> DEFINE x == read[n]
             p == d.recvmbox[n + 1]
             y == read[n + 1]
  <2>1. Typed(x) /\ Same(d, x, RecvedFields) /\ (d.input => Same(d, x, In))
    BY <1>5
  <2>2. n + 1 \in 1 .. k /\ n + 1 \in 0 .. k /\ (n + 1) - 1 = n
    BY <1>1
  <2>3. y = ReadOne(x, p) /\ p \in Seq(Int)
    BY <1>2, <1>3, <2>2
  <2> HIDE DEF x, p, y
  <2>4. x.input = d.input
    BY <2>1 DEF Same, Fields, HandlerFields, RecvedFields, OutputFields
  <2>5. Typed(y) /\ Same(x, y, RecvedFields) /\ (x.input => Same(x, y, In))
    <3>1. CASE p = <<>>
      BY <3>1, <2>1, <2>3 DEF ReadOne, Same, Typed
    <3>2. CASE p # <<>>
      <4>1. y = Recved(x, Len(p)) /\ Len(p) \in Nat
        BY <3>2, <2>3, LenProperties DEF ReadOne
      <4> QED BY <4>1, <2>1, RecvedKeeps
    <3> QED BY <3>1, <3>2
  <2>6. Same(d, y, RecvedFields) /\ (d.input => Same(d, y, In))
    BY <2>1, <2>4, <2>5 DEF Same
  <2> QED BY <2>2, <2>5, <2>6 DEF y
<1>6. k \in T
  <2> HIDE DEF T
  <2>1. \A n \in 0 .. k : n \in T
    BY <1>1, <1>4, <1>5, Induction
  <2> QED BY <2>1, <1>1
<1> DEFINE z == read[k]
           r == Drained(z)
<1>7. Typed(z) /\ Same(d, z, RecvedFields) /\ (d.input => Same(d, z, In))
  BY <1>6
<1> HIDE DEF z
<1>8. Same(z, r, {"recvmbox", "rcvopen"}) /\ r.recvmbox = <<>> /\ r.rcvopen = FALSE
  BY <1>7 DEF Drained, Same, Fields, ConnFields
<1>9. Drain(d) = r
  BY <1>2 DEF z
<1> HIDE DEF r
<1>10. Typed(r)
  <2>1. r.recvmbox \in Seq(Seq(Int))
    BY <1>8, EmptySeq
  <2>2. r.rcvopen \in BOOLEAN
    BY <1>8, Zenon
  <2>3. \A x \in {"recvmbox", "rcvopen"} : IsTyped(x, r[x])
    BY <2>1, <2>2 DEF IsTyped
  <2> QED BY <2>3, <1>7, <1>8, Retyped
<1>11. Same(d, r, RecvedFields \cup {"recvmbox", "rcvopen"})
  BY <1>7, <1>8 DEF Same
<1>12. d.input => Same(d, r, {"rcv_wnd", "rcv_ann_wnd", "flags", "recvmbox", "rcvopen"})
  BY <1>7, <1>8 DEF Same
<1> QED BY <1>9, <1>10, <1>11, <1>12

-----------------------------------------------------------------------------
(* tcp_receive: the acknowledgement.                                        *)
\* What is left of a queue when the segments that end up to x have left its head.
Dropped(q, x, p) ==
  LET n == Run(q, {i \in DOMAIN q : SegEnd(q[i]) <= x})
  IN  /\ n \in 0 .. Len(q) /\ p = Behind(q, n)
      /\ \A i \in 1 .. n : SegEnd(q[i]) <= x
      /\ n < Len(q) => ~(SegEnd(q[n + 1]) <= x)

LEMMA AcknowledgeKeeps ==
  ASSUME NEW d, NEW queue \in {"unacked", "unsent"}, NEW ackno \in Int, Typed(d)
  PROVE  /\ Typed(Acknowledge(d, queue, ackno)) /\ Same(d, Acknowledge(d, queue, ackno), {queue, "acked"})
         /\ Dropped(d[queue], ackno, Acknowledge(d, queue, ackno)[queue])
         /\ d.acked = 0 => Acknowledge(d, queue, ackno).acked = 0
<1> DEFINE q == d[queue]
           S == {i \in DOMAIN q : SegEnd(q[i]) <= ackno}
           n == Run(q, S)
           fin == \E i \in 1 .. n : q[i].fin
           v == IF fin THEN Max({0, d.acked - 1}) ELSE d.acked
           r == Acknowledge(d, queue, ackno)
<1>1. DOMAIN d = Fields /\ q \in Seq(Segs) /\ d.acked \in Int /\ queue \in Fields /\ queue # "acked"
  BY DEF Typed, PcbTyped, Fields, PcbFields
<1>2. Len(q) \in Nat /\ DOMAIN q = 1 .. Len(q)
  BY <1>1, LenProperties
<1>3. n \in 0 .. Len(q) /\ (\A i \in 1 .. n : i \in S) /\ n + 1 \notin S
  <2>1. S \subseteq 1 .. Len(q) /\ Len(q) \in Nat
    BY <1>2
  <2> HIDE DEF S, q
  <2> QED BY <2>1, RunFacts
<1>4. r = [d EXCEPT ![queue] = Behind(q, n), !.acked = v]
  BY <1>1 DEF Acknowledge, Fields, PcbFields
<1>5. v \in Int /\ (d.acked = 0 => v = 0)
  <2>1. d.acked - 1 \in Int
    BY <1>1
  <2>2. Max({0, d.acked - 1}) \in Int
    BY <2>1, MaxOf
  <2>3. Max({0, 0 - 1}) = 0
    BY MaxOf
  <2> QED BY <1>1, <2>2, <2>3
<1> HIDE DEF v, r
<1>6. Behind(q, n) \in Seq(Segs)
  <2> HIDE DEF n
  <2> QED BY <1>1, <1>3, BehindFacts
<1>7. Same(d, r, {queue, "acked"}) /\ r[queue] = Behind(q, n) /\ r.acked = v
  <2> HIDE DEF n
  <2> QED BY <1>1, <1>4 DEF Same, Fields, PcbFields
<1>8. Typed(r)
  <2>1. r[queue] \in Seq(Segs) /\ r.acked \in Int
    BY <1>5, <1>6, <1>7
  <2>2. \A x \in {queue, "acked"} : IsTyped(x, r[x])
    BY <2>1 DEF IsTyped
  <2> QED BY <2>2, <1>7, Retyped
<1>9. Dropped(q, ackno, r[queue]) /\ (d.acked = 0 => r.acked = 0)
  <2>1. \A i \in 1 .. n : SegEnd(q[i]) <= ackno
    BY <1>3
  <2>2. n < Len(q) => ~(SegEnd(q[n + 1]) <= ackno)
    <3> HIDE DEF n
    <3> QED BY <1>2, <1>3
  <2> QED BY <1>3, <1>5, <1>7, <2>1, <2>2 DEF Dropped
<1> QED BY <1>7, <1>8, <1>9 DEF r

LEMMA WindowUpdateKeeps ==
  ASSUME NEW d, NEW m \in Messages, Typed(d)
  PROVE  /\ Typed(WindowUpdate(d, m))
         /\ Same(d, WindowUpdate(d, m), {"snd_wnd", "snd_wl1", "snd_wl2", "persist"})
<1> DEFINE b == (m.wnd = 0)
           r == [d EXCEPT !.snd_wnd = m.wnd, !.snd_wl1 = m.seq, !.snd_wl2 = m.ackno, !.persist = b]
           S == {"snd_wnd", "snd_wl1", "snd_wl2", "persist"}
<1>1. Same(d, d, S) /\ DOMAIN d = Fields
  BY DEF Same, Typed
<1>2. /\ Same(d, r, S) /\ r.snd_wnd = m.wnd /\ r.snd_wl1 = m.seq /\ r.snd_wl2 = m.ackno
      /\ r.persist = b
  BY <1>1 DEF Same, Fields, PcbFields
<1>3. WindowUpdate(d, m) \in {d, r}
  BY DEF WindowUpdate
<1> HIDE DEF r
<1>4. Typed(r)
  <2>1. r.snd_wnd \in Int /\ r.snd_wl1 \in Int /\ r.snd_wl2 \in Int
    BY <1>2 DEF Messages
  <2>2. b \in BOOLEAN
    OBVIOUS
  <2> HIDE DEF b
  <2>3. r.persist \in BOOLEAN
    BY <1>2, <2>2, Zenon
  <2>4. \A x \in S : IsTyped(x, r[x])
    BY <2>1, <2>3 DEF IsTyped
  <2> HIDE DEF S
  <2> QED BY <2>4, <1>2, Retyped
<1> QED BY <1>1, <1>2, <1>3, <1>4

LEMMA MessageFacts ==
  ASSUME NEW m \in Messages
  PROVE  /\ m.seq \in Int /\ m.ackno \in Int /\ m.wnd \in Int /\ m.data \in Payload
         /\ m.data \in Seq(Int) /\ Len(m.data) \in Nat /\ TcpLen(m) \in Nat
         /\ m.syn \in BOOLEAN /\ m.fin \in BOOLEAN
         /\ SegEnd(m) \in Int /\ SegEnd(m) = m.seq + TcpLen(m)
         /\ DataEnd(m) = m.seq + Len(m.data)
<1>1. /\ m.seq \in Int /\ m.ackno \in Int /\ m.wnd \in Int /\ m.data \in Payload
      /\ m.syn \in BOOLEAN /\ m.fin \in BOOLEAN
  BY DEF Messages
<1>2. m.data \in Seq(Int) /\ Len(m.data) \in Nat
  BY <1>1, PayloadFacts
<1>3. TcpLen(m) \in Nat
  <2> DEFINE flag == IF m.syn \/ m.fin THEN 1 ELSE 0
  <2>1. flag \in {0, 1} /\ TcpLen(m) = Len(m.data) + flag
    BY DEF TcpLen
  <2> HIDE DEF flag
  <2> QED BY <1>2, <2>1
<1>4. SegEnd(m) = m.seq + TcpLen(m) /\ DataEnd(m) = m.seq + Len(m.data)
  BY DEF SegEnd, DataEnd
<1> QED BY <1>1, <1>2, <1>3, <1>4

OldAckFields == {"acked", "dupacks", "unsent", "unacked", "nrtx", "flags", "cwnd", "rtime"}

LEMMA OldAckKeeps ==
  ASSUME NEW d, NEW m, NEW moved, Typed(d)
  PROVE  /\ Typed(OldAck(d, m, moved)) /\ Same(d, OldAck(d, m, moved), OldAckFields)
         /\ OldAck(d, m, moved).acked = 0
         /\ \/ /\ OldAck(d, m, moved).unsent = d.unsent
               /\ OldAck(d, m, moved).unacked = d.unacked
            \/ /\ d.unacked # <<>>
               /\ OldAck(d, m, moved).unsent = InOrder(d.unsent, Head(d.unacked))
               /\ OldAck(d, m, moved).unacked = Tail(d.unacked)
<1> DEFINE duplicate == TcpLen(m) = 0 /\ ~moved /\ d.rtime /\ d.lastack = m.ackno
           v == IF duplicate THEN Min({d.dupacks + 1, 4}) ELSE 0
           a == [d EXCEPT !.acked = 0, !.dupacks = v]
           f == RexmitFast(a)
           w == [a EXCEPT !.cwnd = Min({@ + Mss, SndBuf})]
           r == OldAck(d, m, moved)
<1>1. DOMAIN d = Fields /\ d.dupacks \in Int /\ d.cwnd \in Int
  BY DEF Typed, PcbTyped
<1>2. v \in Int
  <2>1. d.dupacks + 1 \in Int
    BY <1>1
  <2>2. Min({d.dupacks + 1, 4}) \in Int
    BY <2>1, MinOf
  <2> HIDE DEF duplicate
  <2> QED BY <2>2
<1>3. r \in {a, f, w}
  <2>1. a = [d EXCEPT !.acked = 0, !.dupacks = IF duplicate THEN Min({@ + 1, 4}) ELSE 0]
    BY <1>1 DEF Fields, PcbFields
  <2> HIDE DEF duplicate
  <2>2. OldAck(d, m, moved) = CASE duplicate /\ a.dupacks = 3 -> f
                                [] duplicate /\ a.dupacks > 3 -> w
                                [] OTHER -> a
    BY <2>1 DEF OldAck, duplicate
  <2> HIDE DEF a, f, w
  <2> QED BY <2>2
<1>4. Same(d, a, {"acked", "dupacks"}) /\ a.acked = 0 /\ a.dupacks = v
  <2> HIDE DEF v
  <2> QED BY <1>1 DEF Same, Fields, PcbFields
<1> HIDE DEF a, v, r
<1>5. Typed(a)
  <2>1. \A x \in {"acked", "dupacks"} : IsTyped(x, a[x])
    BY <1>2, <1>4 DEF IsTyped
  <2> QED BY <2>1, <1>4, Retyped
<1>6. a.unsent = d.unsent /\ a.unacked = d.unacked
  BY <1>4 DEF Same, Fields, PcbFields
<1>7. /\ Typed(f) /\ Same(a, f, {"unsent", "unacked", "nrtx", "flags", "cwnd", "rtime"})
      /\ \/ f = a
         \/ /\ a.unacked # <<>>
            /\ f.unsent = InOrder(a.unsent, Head(a.unacked)) /\ f.unacked = Tail(a.unacked)
  BY <1>5, RexmitFastKeeps
<1>8. Typed(w) /\ Same(a, w, {"cwnd"})
  <2>1. a.cwnd \in Int /\ DOMAIN a = Fields
    BY <1>5 DEF Typed, PcbTyped
  <2>2. Same(a, w, {"cwnd"}) /\ w.cwnd = Min({a.cwnd + Mss, SndBuf})
    BY <2>1 DEF Same, Fields, PcbFields
  <2>3. a.cwnd + Mss \in Int /\ SndBuf \in Int
    BY <2>1, Constants
  <2>4. w.cwnd \in Int
    BY <2>2, <2>3, MinOf
  <2> HIDE DEF w
  <2> QED BY <2>2, <2>4, <1>5, Retyped DEF IsTyped
<1> HIDE DEF f, w
<1>9. Same(d, a, OldAckFields) /\ Same(d, f, OldAckFields) /\ Same(d, w, OldAckFields)
  BY <1>4, <1>7, <1>8 DEF Same, OldAckFields
<1>10. f.acked = 0 /\ w.acked = 0 /\ w.unsent = a.unsent /\ w.unacked = a.unacked
  BY <1>4, <1>7, <1>8 DEF Same, Fields, PcbFields
<1> QED BY <1>3, <1>4, <1>5, <1>6, <1>7, <1>8, <1>9, <1>10 DEF r

NewAckFields == {"acked", "flags", "unacked", "cwnd", "nrtx", "snd_buf", "dupacks", "lastack", "rtime"}

LEMMA NewAckKeeps ==
  ASSUME NEW d, NEW m \in Messages, Typed(d), m.ackno > d.lastack
  PROVE  /\ Typed(NewAck(d, m)) /\ Same(d, NewAck(d, m), NewAckFields)
         /\ Dropped(d.unacked, m.ackno, NewAck(d, m).unacked)
         /\ NewAck(d, m).lastack = m.ackno
<1> DEFINE n == m.ackno - d.lastack
           c == Clear(d, {"INFR"})
           b == [c EXCEPT !.acked = n]
           a == Acknowledge(b, "unacked", m.ackno)
           t == (a.unacked # <<>>)
           r == [a EXCEPT !.cwnd = SndBuf, !.nrtx = 0, !.snd_buf = @ + n, !.dupacks = 0,
                          !.lastack = m.ackno, !.rtime = t]
           S == {"cwnd", "nrtx", "snd_buf", "dupacks", "lastack", "rtime"}
<1>0. m.ackno \in Int /\ d.lastack \in Int
  BY MessageFacts DEF Typed, PcbTyped
<1>1. m.ackno \in Int /\ d.lastack \in Int /\ n \in Nat
  BY <1>0
<1>2. Typed(c) /\ Same(d, c, {"flags"})
  <2>1. {"INFR"} \in SUBSET Flags
    BY DEF Flags
  <2> QED BY <2>1, FlagsKeep
<1>3. NewAck(d, m) = r
  BY DEF NewAck
<1> HIDE DEF c, n
<1>4. Same(c, b, {"acked"}) /\ b.acked = n
  BY <1>2 DEF Same, Typed, Fields, PcbFields
<1> HIDE DEF b
<1>5. Typed(b)
  BY <1>1, <1>2, <1>4, Retyped DEF IsTyped
<1>6. /\ Typed(a) /\ Same(b, a, {"unacked", "acked"}) /\ Dropped(b["unacked"], m.ackno, a["unacked"])
  BY <1>1, <1>5, AcknowledgeKeeps
<1> HIDE DEF a
<1> HIDE DEF t
<1>7. DOMAIN a = Fields /\ a.snd_buf \in Nat /\ b.unacked = d.unacked
  BY <1>2, <1>4, <1>6 DEF Same, Fields, PcbFields, Typed, PcbTyped
<1>8. /\ Same(a, r, S) /\ r.cwnd = SndBuf /\ r.nrtx = 0 /\ r.snd_buf = a.snd_buf + n
      /\ r.dupacks = 0 /\ r.lastack = m.ackno /\ r.rtime = t /\ r.unacked = a.unacked
  BY <1>7 DEF Same, Fields, PcbFields
<1> HIDE DEF r
<1>9. Typed(r)
  <2>1. /\ r.cwnd \in Int /\ r.nrtx \in Int /\ r.snd_buf \in Nat /\ r.dupacks \in Int
        /\ r.lastack \in Int
    BY <1>1, <1>7, <1>8, Constants
  <2>2. t \in BOOLEAN
    BY DEF t
  <2>3. r.rtime \in BOOLEAN
    BY <1>8, <2>2, Zenon
  <2>4. \A x \in S : IsTyped(x, r[x])
    BY <2>1, <2>3 DEF IsTyped
  <2> HIDE DEF S
  <2> QED BY <2>4, <1>6, <1>8, Retyped
<1>10. Same(d, r, NewAckFields)
  BY <1>2, <1>4, <1>6, <1>8 DEF Same, NewAckFields
<1> QED BY <1>3, <1>6, <1>7, <1>8, <1>9, <1>10

AckFields == OldAckFields \cup NewAckFields \cup {"out", "rcv_ann_right_edge", "snd_wnd", "snd_wl1", "snd_wl2", "persist"}

LEMMA AckKeeps ==
  ASSUME NEW d, NEW m \in Messages, Typed(d)
  PROVE  Typed(Ack(d, m)) /\ Same(d, Ack(d, m), AckFields)
<1> DEFINE w == WindowUpdate(d, m)
           moved == w.snd_wl2 + w.snd_wnd # d.snd_wl2 + d.snd_wnd
           z == [w EXCEPT !.acked = 0]
           o == OldAck(w, m, moved)
           a == CASE m.ackno <= d.lastack -> o
                  [] Between(m.ackno, d.lastack + 1, d.snd_nxt) -> NewAck(w, m)
                  [] OTHER -> SendEmptyAck(z)
           r == Ack(d, m)
<1>1. m.ackno \in Int /\ d.lastack \in Int
  BY MessageFacts DEF Typed, PcbTyped
<1>2. Typed(w) /\ Same(d, w, {"snd_wnd", "snd_wl1", "snd_wl2", "persist"})
  BY WindowUpdateKeeps
<1>3. r = IF m.ackno <= a.snd_nxt THEN Acknowledge(a, "unsent", m.ackno) ELSE a
  BY DEF Ack
<1> HIDE DEF w, moved, r
<1>4. w.lastack = d.lastack
  BY <1>2 DEF Same, Fields, PcbFields
<1>5. Typed(a) /\ Same(d, a, AckFields)
  <2>1. CASE m.ackno <= d.lastack
    <3>2. Typed(o) /\ Same(w, o, OldAckFields)
      BY <1>2, OldAckKeeps
    <3> HIDE DEF o
    <3>1. a = o
      <4>1. ~Between(m.ackno, d.lastack + 1, d.snd_nxt)
        BY <1>1, <2>1 DEF Between
      <4> QED BY <4>1, <2>1
    <3> HIDE DEF a
    <3> QED BY <3>1, <3>2, <1>2 DEF Same, AckFields
  <2>2. CASE ~(m.ackno <= d.lastack) /\ Between(m.ackno, d.lastack + 1, d.snd_nxt)
    <3>1. a = NewAck(w, m)
      BY <2>2
    <3>2. Typed(NewAck(w, m)) /\ Same(w, NewAck(w, m), NewAckFields)
      BY <1>1, <1>2, <1>4, <2>2, NewAckKeeps
    <3> HIDE DEF a
    <3> QED BY <3>1, <3>2, <1>2 DEF Same, AckFields
  <2>3. CASE ~(m.ackno <= d.lastack) /\ ~Between(m.ackno, d.lastack + 1, d.snd_nxt)
    <3>1. a = SendEmptyAck(z)
      BY <2>3
    <3>2. Same(w, z, {"acked"}) /\ z.acked = 0
      BY <1>2 DEF Same, Typed, Fields, PcbFields
    <3> HIDE DEF z, a
    <3>3. Typed(z)
      BY <1>2, <3>2, Retyped DEF IsTyped
    <3>4. Typed(SendEmptyAck(z)) /\ Same(z, SendEmptyAck(z), {"out", "flags", "rcv_ann_right_edge"})
      BY <3>3, EmptyAckKeeps
    <3> QED BY <3>1, <3>2, <3>4, <1>2 DEF Same, AckFields, OldAckFields
  <2> QED BY <2>1, <2>2, <2>3
<1> HIDE DEF a
<1>6. Typed(Acknowledge(a, "unsent", m.ackno)) /\ Same(a, Acknowledge(a, "unsent", m.ackno), {"unsent", "acked"})
  BY <1>1, <1>5, AcknowledgeKeeps
<1>7. Same(d, Acknowledge(a, "unsent", m.ackno), AckFields)
  BY <1>5, <1>6 DEF Same, AckFields, OldAckFields
<1> QED BY <1>3, <1>5, <1>6, <1>7 DEF r

-----------------------------------------------------------------------------
(* tcp_receive: the data.                                                   *)
LEMMA TrimFacts ==
  ASSUME NEW s \in Segs, NEW n \in Int, n <= Len(s.data)
  PROVE  /\ Trim(s, n) \in Segs /\ Trim(s, n).seq = s.seq /\ Trim(s, n).syn = s.syn
         /\ Trim(s, n).fin = s.fin /\ Len(Trim(s, n).data) = IF n > 0 THEN n ELSE 0
         /\ \A i \in 1 .. Len(Trim(s, n).data) : Trim(s, n).data[i] = s.data[i]
<1> DEFINE p == SubSeq(s.data, 1, n)
<1>1. s.data \in Seq(Int) /\ Len(s.data) \in Nat /\ Len(s.data) <= Mss
  BY SegmentFacts
<1>2. /\ p \in Seq(Int) /\ Len(p) = IF n > 0 THEN n ELSE 0
      /\ \A i \in 1 .. n : p[i] = s.data[i]
  <2>1. \A i \in 1 .. n : s.data[i] \in Int
    BY <1>1, ElementOfSeq
  <2>2. /\ p \in Seq(Int) /\ Len(p) = IF 1 <= n THEN 1 + n - 1 ELSE 0
    BY <1>1, <2>1, SubSeqProperties
  <2>3. \A i \in 1 .. n : p[i] = s.data[1 + i - 1]
    BY <1>1, <2>1, SubSeqProperties
  <2> HIDE DEF p
  <2>4. \A i \in 1 .. n : 1 + i - 1 = i
    OBVIOUS
  <2>5. \A i \in 1 .. n : p[i] = s.data[i]
    BY <2>3, <2>4
  <2> QED BY <2>2, <2>5
<1>3. Trim(s, n) = [s EXCEPT !.data = p]
  BY DEF Trim
<1> HIDE DEF p
<1>4. Len(p) <= Mss
  BY <1>1, <1>2, Constants
<1>5. p \in Payload
  BY <1>2, <1>4 DEF Payload
<1>6. Trim(s, n) \in Segs /\ Trim(s, n).data = p
  BY <1>3, <1>5 DEF Segs
<1>7. Trim(s, n).seq = s.seq /\ Trim(s, n).syn = s.syn /\ Trim(s, n).fin = s.fin
  BY <1>3 DEF Segs
<1>8. \A i \in 1 .. Len(p) : p[i] = s.data[i]
  <2> SUFFICES ASSUME NEW i \in 1 .. Len(p) PROVE p[i] = s.data[i]
    OBVIOUS
  <2>1. i \in 1 .. n
    BY <1>2
  <2> QED BY <2>1, <1>2
<1> QED BY <1>2, <1>6, <1>7, <1>8

LEMMA FitWindowType ==
  ASSUME NEW d, NEW s \in Segs, Typed(d)
  PROVE  FitWindow(d, s) \in Segs /\ FitWindow(d, s).seq = s.seq
<1> DEFINE n == d.rcv_nxt + d.rcv_wnd - s.seq
           t == Trim(s, n)
<1>1. d.rcv_nxt \in Int /\ d.rcv_wnd \in Int /\ s.seq \in Int /\ Len(s.data) \in Nat
  BY SegmentFacts DEF Typed, PcbTyped
<1>2. n \in Int
  BY <1>1
<1>3. ASSUME SegEnd(s) > d.rcv_nxt + d.rcv_wnd
      PROVE  FitWindow(d, s) \in Segs /\ FitWindow(d, s).seq = s.seq
  <2>1. n < TcpLen(s) /\ TcpLen(s) \in Nat
    <3>1. SegEnd(s) = s.seq + TcpLen(s) /\ TcpLen(s) \in Nat
      BY SegmentFacts
    <3> QED BY <3>1, <1>1, <1>3
  <2>2. TcpLen(s) <= Len(s.data) + 1
    <3> DEFINE flag == IF s.syn \/ s.fin THEN 1 ELSE 0
    <3>1. flag \in {0, 1} /\ TcpLen(s) = Len(s.data) + flag
      BY DEF TcpLen
    <3> HIDE DEF flag
    <3> QED BY <3>1, <1>1
  <2>3. n <= Len(s.data)
    <3> HIDE DEF n
    <3> QED BY <1>1, <1>2, <2>1, <2>2
  <2> HIDE DEF n
  <2>4. t \in Segs /\ t.seq = s.seq
    BY <1>2, <2>3, TrimFacts
  <2>5. FitWindow(d, s) = [t EXCEPT !.fin = FALSE]
    BY <1>3 DEF FitWindow, n
  <2> HIDE DEF t
  <2> QED BY <2>4, <2>5 DEF Segs
<1>4. CASE ~(SegEnd(s) > d.rcv_nxt + d.rcv_wnd)
  BY <1>4 DEF FitWindow
<1> QED BY <1>3, <1>4

LEMMA MergeType ==
  ASSUME NEW s \in Segs, NEW queue \in Seq(Segs)
  PROVE  Merge(s, queue) \in Seq(Segs) /\ Merge(s, queue) # <<>>
<1> DEFINE n == Run(queue, {i \in DOMAIN queue : DataEnd(s) >= DataEnd(queue[i])})
           rest == Behind(queue, n)
           fin == \E i \in 1 .. n : queue[i].fin
           x == IF rest # <<>> /\ DataEnd(s) > Head(rest).seq
                THEN Trim(s, Head(rest).seq - s.seq) ELSE [s EXCEPT !.fin = fin]
<1>1. Len(queue) \in Nat /\ DOMAIN queue = 1 .. Len(queue)
  BY LenProperties
<1>2. n \in 0 .. Len(queue)
  BY <1>1, RunFacts
<1> HIDE DEF n
<1>3. rest \in Seq(Segs)
  BY <1>2, BehindFacts
<1> HIDE DEF rest
<1>4. fin \in BOOLEAN
  OBVIOUS
<1> HIDE DEF fin
<1>5. x \in Segs
  <2>1. CASE rest # <<>> /\ DataEnd(s) > Head(rest).seq
    <3> DEFINE k == Head(rest).seq - s.seq
    <3>1. Head(rest) \in Segs
      BY <2>1, <1>3, HeadTailProperties
    <3>2. /\ Head(rest).seq \in Int /\ s.seq \in Int /\ Len(s.data) \in Nat
          /\ DataEnd(s) = s.seq + Len(s.data)
      BY <3>1, SegmentFacts
    <3>3. k \in Int /\ k <= Len(s.data)
      BY <2>1, <3>2
    <3> HIDE DEF k
    <3>4. Trim(s, k) \in Segs
      BY <3>3, TrimFacts
    <3> QED BY <2>1, <3>4 DEF k
  <2>2. CASE ~(rest # <<>> /\ DataEnd(s) > Head(rest).seq)
    <3>1. [s EXCEPT !.fin = fin] \in Segs
      BY <1>4 DEF Segs
    <3> QED BY <2>2, <3>1
  <2> QED BY <2>1, <2>2
<1>6. Merge(s, queue) = IF s.fin THEN <<s>> ELSE <<x>> \o rest
  BY DEF Merge, n, rest, fin
<1> HIDE DEF x
<1>7. <<x>> \in Seq(Segs) /\ <<s>> \in Seq(Segs) /\ Len(<<x>>) = 1 /\ <<s>> # <<>>
  BY <1>5
<1>8. <<x>> \o rest \in Seq(Segs) /\ Len(<<x>> \o rest) = 1 + Len(rest) /\ Len(rest) \in Nat
  BY <1>3, <1>7, ConcatProperties, LenProperties
<1>9. <<x>> \o rest # <<>>
  <2>1. Len(<<>>) = 0
    BY EmptySeq
  <2> QED BY <1>8, <2>1
<1> QED BY <1>6, <1>7, <1>8, <1>9

AcceptFields == {"rcv_nxt", "rcv_wnd", "rcv_ann_wnd", "recv_data", "recv_flags"}

LEMMA AcceptKeeps ==
  ASSUME NEW d, NEW s \in Segs, Typed(d)
  PROVE  /\ Typed(Accept(d, s)) /\ Same(d, Accept(d, s), AcceptFields)
         /\ Accept(d, s).rcv_nxt = SegEnd(s)
         /\ Accept(d, s).recv_data = d.recv_data \o s.data
         /\ Accept(d, s).recv_flags = d.recv_flags \cup (IF s.fin THEN {"GOT_FIN"} ELSE {})
<1> DEFINE f == d.recv_flags \cup (IF s.fin THEN {"GOT_FIN"} ELSE {})
           p == d.recv_data \o s.data
           w == Wrap(d.rcv_wnd - TcpLen(s))
           a == [d EXCEPT !.rcv_nxt = SegEnd(s), !.rcv_wnd = w, !.recv_data = p, !.recv_flags = f]
           S == {"rcv_nxt", "rcv_wnd", "recv_data", "recv_flags"}
<1>1. /\ DOMAIN d = Fields /\ d.recv_data \in Seq(Int) /\ d.rcv_wnd \in Int
      /\ d.recv_flags \in SUBSET RecvFlags
  BY DEF Typed, PcbTyped, HandlerTyped
<1>2. SegEnd(s) \in Int /\ TcpLen(s) \in Nat /\ s.data \in Seq(Int)
  BY SegmentFacts
<1>3. f \in SUBSET RecvFlags
  BY <1>1 DEF RecvFlags
<1>4. p \in Seq(Int)
  BY <1>1, <1>2, ConcatProperties
<1>5. w \in Int
  <2>1. d.rcv_wnd - TcpLen(s) \in Int
    BY <1>1, <1>2
  <2> QED BY <2>1, WrapType
<1>6. Accept(d, s) = UpdateAnnWnd(a)
  BY <1>1 DEF Accept, Fields, PcbFields, HandlerFields
<1> HIDE DEF f, p, w
<1>7. /\ Same(d, a, S) /\ a.rcv_nxt = SegEnd(s) /\ a.rcv_wnd = w /\ a.recv_data = p
      /\ a.recv_flags = f
  BY <1>1 DEF Same, Fields, PcbFields, HandlerFields
<1> HIDE DEF a
<1>8. Typed(a)
  <2>1. \A x \in S : IsTyped(x, a[x])
    BY <1>2, <1>3, <1>4, <1>5, <1>7 DEF IsTyped
  <2> HIDE DEF S
  <2> QED BY <2>1, <1>7, Retyped
<1> DEFINE r == UpdateAnnWnd(a)
<1>9. Typed(r) /\ Same(a, r, {"rcv_ann_wnd"})
  BY <1>8, UpdateAnnWndKeeps
<1> HIDE DEF r
<1>10. Same(d, r, AcceptFields)
  BY <1>7, <1>9 DEF Same, AcceptFields
<1>11. r.rcv_nxt = SegEnd(s) /\ r.recv_data = p /\ r.recv_flags = f
  BY <1>7, <1>9 DEF Same, Fields, PcbFields, HandlerFields
<1> QED BY <1>6, <1>9, <1>10, <1>11 DEF r, p, f

\* What the data part changes, and how the state follows.
DataFields == AcceptFields \cup {"rcv_ann_right_edge", "flags", "out", "ooseq", "state"}
Moves(d, r) ==
  /\ r.state = d.state \/ (d.state = "ESTABLISHED" /\ r.state = "CLOSE_WAIT")
  /\ d.recv_flags \subseteq r.recv_flags /\ r.recv_flags \subseteq d.recv_flags \cup {"GOT_FIN"}

LEMMA DequeueNextKeeps ==
  ASSUME NEW d, Typed(d)
  PROVE  /\ Typed(DequeueNext(d)) /\ Same(d, DequeueNext(d), AcceptFields \cup {"ooseq", "state"})
         /\ Moves(d, DequeueNext(d))
<1>1. CASE d.ooseq = <<>> \/ Head(d.ooseq).seq # d.rcv_nxt
  BY <1>1 DEF DequeueNext, Same, Typed, Moves
<1>2. CASE ~(d.ooseq = <<>> \/ Head(d.ooseq).seq # d.rcv_nxt)
  <2> DEFINE s == Head(d.ooseq)
             a == Accept(d, s)
             r == [a EXCEPT !.ooseq = Tail(@),
                            !.state = IF s.fin /\ @ = "ESTABLISHED" THEN "CLOSE_WAIT" ELSE @]
  <2>1. d.ooseq \in Seq(Segs) /\ d.ooseq # <<>>
    BY <1>2 DEF Typed, PcbTyped
  <2>2. s \in Segs /\ Tail(d.ooseq) \in Seq(Segs)
    BY <2>1, HeadTailProperties
  <2>3. DequeueNext(d) = r
    BY <1>2 DEF DequeueNext
  <2> HIDE DEF s
  <2>4. /\ Typed(a) /\ Same(d, a, AcceptFields)
        /\ a.recv_flags = d.recv_flags \cup (IF s.fin THEN {"GOT_FIN"} ELSE {})
    BY <2>2, AcceptKeeps
  <2> HIDE DEF a
  <2>5. DOMAIN a = Fields /\ a.ooseq = d.ooseq /\ a.state = d.state
    BY <2>4 DEF Same, AcceptFields, Fields, PcbFields
  <2>6. /\ Same(a, r, {"ooseq", "state"}) /\ r.ooseq = Tail(d.ooseq)
        /\ r.state = IF s.fin /\ d.state = "ESTABLISHED" THEN "CLOSE_WAIT" ELSE d.state
        /\ r.recv_flags = a.recv_flags
    BY <2>5 DEF Same, Fields, PcbFields, HandlerFields
  <2> HIDE DEF r
  <2>7. Typed(r)
    <3>1. r.state \in States /\ r.ooseq \in Seq(Segs)
      BY <2>2, <2>6 DEF Typed, PcbTyped, States, Active
    <3>2. \A x \in {"ooseq", "state"} : IsTyped(x, r[x])
      BY <3>1 DEF IsTyped
    <3> QED BY <3>2, <2>4, <2>6, Retyped
  <2>8. Same(d, r, AcceptFields \cup {"ooseq", "state"})
    BY <2>4, <2>6 DEF Same
  <2>9. Moves(d, r)
    BY <2>4, <2>6 DEF Moves
  <2> QED BY <2>3, <2>7, <2>8, <2>9
<1> QED BY <1>1, <1>2

\* The turns of the loop over ooseq.
Dequeues(d, k, turn) ==
  turn = [n \in 0 .. k |-> IF n = 0 THEN d ELSE DequeueNext(turn[n - 1])]

LEMMA DequeuesExist ==
  ASSUME NEW d, NEW k \in Nat
  PROVE  \E turn : Dequeues(d, k, turn)
<1> DEFINE T == {m \in 0 .. k : \E turn : Dequeues(d, m, turn)}
<1>1. 0 \in T
  <2> DEFINE g == [n \in 0 .. 0 |-> d]
  <2>1. g = [n \in 0 .. 0 |-> IF n = 0 THEN d ELSE DequeueNext(g[n - 1])]
    OBVIOUS
  <2> HIDE DEF g
  <2> QED BY <2>1 DEF Dequeues
<1>2. ASSUME NEW m \in 0 .. k - 1, m \in T PROVE m + 1 \in T
  <2>1. PICK f : Dequeues(d, m, f)
    BY <1>2
  <2> DEFINE g == [n \in 0 .. m + 1 |-> IF n = m + 1 THEN DequeueNext(f[m]) ELSE f[n]]
             G == [n \in 0 .. m + 1 |-> IF n = 0 THEN d ELSE DequeueNext(g[n - 1])]
  <2>2. ASSUME NEW n \in 0 .. m + 1 PROVE g[n] = G[n]
    <3>1. CASE n = m + 1
      <4>1. g[n] = DequeueNext(f[m]) /\ n # 0 /\ n - 1 = m /\ m \in 0 .. m + 1
        BY <3>1
      <4>2. g[m] = f[m]
        BY <4>1
      <4> QED BY <4>1, <4>2
    <3>2. CASE n = 0
      <4>1. f[0] = d /\ m # -1
        BY <2>1 DEF Dequeues
      <4> QED BY <4>1, <3>2
    <3>3. CASE n \in 1 .. m
      <4>1. f[n] = DequeueNext(f[n - 1]) /\ n \in 0 .. m /\ n - 1 \in 0 .. m + 1 /\ n - 1 # m + 1
        BY <2>1, <3>3 DEF Dequeues
      <4>2. g[n] = f[n] /\ g[n - 1] = f[n - 1]
        BY <3>3, <4>1
      <4> QED BY <4>1, <4>2, <3>3
    <3> QED BY <3>1, <3>2, <3>3
  <2>3. g = G
    BY <2>2
  <2>4. Dequeues(d, m + 1, g)
    <3> HIDE DEF g
    <3> QED BY <2>3 DEF Dequeues
  <2> HIDE DEF g
  <2> QED BY <2>4
<1>3. k \in T
  <2> HIDE DEF T
  <2> QED BY <1>1, <1>2, Induction
<1> QED BY <1>3

LEMMA DequeueTurns ==
  ASSUME NEW d, Typed(d)
  PROVE  \E turn :
            /\ turn[0] = d
            /\ \A n \in 1 .. Len(d.ooseq) : turn[n] = DequeueNext(turn[n - 1])
            /\ Dequeue(d) = turn[Len(d.ooseq)]
<1> DEFINE k == Len(d.ooseq)
           turn == CHOOSE f : Dequeues(d, k, f)
<1>1. k \in Nat
  BY LenProperties DEF Typed, PcbTyped
<1>2. Dequeues(d, k, turn)
  <2> HIDE DEF k
  <2> QED BY <1>1, DequeuesExist
<1>3. Dequeue(d) = turn[k]
  BY DEF Dequeue, Dequeues
<1>4. turn[0] = d /\ \A n \in 1 .. k : turn[n] = DequeueNext(turn[n - 1])
  <2> HIDE DEF turn, k
  <2>1. turn[0] = d
    BY <1>1, <1>2 DEF Dequeues
  <2>2. \A n \in 1 .. k : n \in 0 .. k /\ n # 0
    BY <1>1
  <2> QED BY <2>1, <2>2, <1>2 DEF Dequeues
<1> QED BY <1>3, <1>4

LEMMA DequeueKeeps ==
  ASSUME NEW d, Typed(d)
  PROVE  /\ Typed(Dequeue(d)) /\ Same(d, Dequeue(d), AcceptFields \cup {"ooseq", "state"})
         /\ Moves(d, Dequeue(d))
<1> DEFINE k == Len(d.ooseq)
           S == AcceptFields \cup {"ooseq", "state"}
<1>1. k \in Nat
  BY LenProperties DEF Typed, PcbTyped
<1>2. PICK turn :
        /\ turn[0] = d
        /\ \A n \in 1 .. k : turn[n] = DequeueNext(turn[n - 1])
        /\ Dequeue(d) = turn[k]
  BY DequeueTurns
<1> HIDE DEF k
<1> DEFINE T == {n \in 0 .. k : Typed(turn[n]) /\ Same(d, turn[n], S) /\ Moves(d, turn[n])}
<1>3. 0 \in T
  BY <1>1, <1>2 DEF Same, Typed, Moves
<1>4. ASSUME NEW n \in 0 .. k - 1, n \in T PROVE n + 1 \in T
  <2>1. Typed(turn[n]) /\ Same(d, turn[n], S) /\ Moves(d, turn[n])
    BY <1>4
  <2>2. n + 1 \in 1 .. k /\ n + 1 \in 0 .. k /\ (n + 1) - 1 = n
    BY <1>1
  <2>3. turn[n + 1] = DequeueNext(turn[n])
    BY <1>2, <2>2
  <2>4. Typed(turn[n + 1]) /\ Same(turn[n], turn[n + 1], S) /\ Moves(turn[n], turn[n + 1])
    BY <2>1, <2>3, DequeueNextKeeps
  <2>5. Same(d, turn[n + 1], S)
    <3> HIDE DEF S
    <3> QED BY <2>1, <2>4 DEF Same
  <2>6. Moves(d, turn[n + 1])
    BY <2>1, <2>4 DEF Moves
  <2> QED BY <2>2, <2>4, <2>5, <2>6
<1>5. k \in T
  <2> HIDE DEF T
  <2>1. \A n \in 0 .. k : n \in T
    BY <1>1, <1>3, <1>4, Induction
  <2> QED BY <2>1, <1>1
<1> QED BY <1>2, <1>5

LEMMA AckSegmentKeeps ==
  ASSUME NEW d, Typed(d)
  PROVE  Typed(AckSegment(d)) /\ Same(d, AckSegment(d), {"flags"})
<1> DEFINE D == {"ACK_DELAY"}
           N == {"ACK_NOW"}
           c == Clear(d, D)
<1>1. D \in SUBSET Flags /\ N \in SUBSET Flags
  BY DEF Flags
<1>2. AckSegment(d) = IF "ACK_DELAY" \in d.flags THEN Set(c, N) ELSE Set(d, D)
  BY DEF AckSegment
<1> HIDE DEF D, N
<1>3. Typed(c) /\ Same(d, c, {"flags"}) /\ Typed(Set(d, D)) /\ Same(d, Set(d, D), {"flags"})
  BY <1>1, FlagsKeep
<1> HIDE DEF c
<1>4. Typed(Set(c, N)) /\ Same(c, Set(c, N), {"flags"})
  BY <1>1, <1>3, FlagsKeep
<1>5. Same(d, Set(c, N), {"flags"})
  BY <1>3, <1>4 DEF Same
<1> QED BY <1>2, <1>3, <1>4, <1>5

LEMMA InSequenceKeeps ==
  ASSUME NEW d, NEW s \in Segs, Typed(d)
  PROVE  /\ Typed(InSequence(d, s)) /\ Same(d, InSequence(d, s), DataFields)
         /\ Moves(d, InSequence(d, s))
<1> DEFINE f == FitWindow(d, s)
           q == Merge(f, d.ooseq)
           a == [d EXCEPT !.ooseq = Tail(q)]
           b == Accept(a, Head(q))
           c == Dequeue(b)
           r == AckSegment(c)
<1>1. DOMAIN d = Fields /\ d.ooseq \in Seq(Segs)
  BY DEF Typed, PcbTyped
<1>2. f \in Segs
  BY FitWindowType
<1> HIDE DEF f
<1>3. q \in Seq(Segs) /\ q # <<>>
  BY <1>1, <1>2, MergeType
<1>4. InSequence(d, s) = r
  BY DEF InSequence, f
<1> HIDE DEF q
<1>5. Head(q) \in Segs /\ Tail(q) \in Seq(Segs)
  BY <1>3, HeadTailProperties
<1>6. Same(d, a, {"ooseq"}) /\ a.ooseq = Tail(q) /\ Typed(a)
  <2>1. Same(d, a, {"ooseq"}) /\ a.ooseq = Tail(q)
    BY <1>1 DEF Same, Fields, PcbFields
  <2> HIDE DEF a
  <2>2. \A x \in {"ooseq"} : IsTyped(x, a[x])
    BY <1>5, <2>1 DEF IsTyped
  <2> QED BY <2>1, <2>2, Retyped
<1> HIDE DEF a
<1>7. Typed(b) /\ Same(a, b, AcceptFields)
      /\ b.recv_flags = a.recv_flags \cup (IF Head(q).fin THEN {"GOT_FIN"} ELSE {})
  BY <1>5, <1>6, AcceptKeeps
<1>8. Moves(d, b)
  <2> HIDE DEF b
  <2>1. b.state = d.state /\ a.recv_flags = d.recv_flags
    BY <1>6, <1>7 DEF Same, AcceptFields, Fields, PcbFields, HandlerFields
  <2> QED BY <2>1, <1>7 DEF Moves
<1> HIDE DEF b
<1>9. Typed(c) /\ Same(b, c, AcceptFields \cup {"ooseq", "state"}) /\ Moves(b, c)
  BY <1>7, DequeueKeeps
<1> HIDE DEF c
<1>10. Typed(r) /\ Same(c, r, {"flags"})
  BY <1>9, AckSegmentKeeps
<1> HIDE DEF r
<1>11. Same(d, r, DataFields)
  BY <1>6, <1>7, <1>9, <1>10 DEF Same, DataFields
<1>12. Moves(d, r)
  <2>1. r.state = c.state /\ r.recv_flags = c.recv_flags
    BY <1>10 DEF Same, Fields, PcbFields, HandlerFields
  <2> QED BY <2>1, <1>8, <1>9 DEF Moves
<1> QED BY <1>4, <1>10, <1>11, <1>12

LEMMA QueueKeeps ==
  ASSUME NEW d, NEW s \in Segs, Typed(d)
  PROVE  Typed(Queue(d, s)) /\ Same(d, Queue(d, s), {"ooseq"})
<1> DEFINE n == Run(d.ooseq, {i \in DOMAIN d.ooseq : d.ooseq[i].seq < s.seq})
           before == UpTo(d.ooseq, n)
           after == Behind(d.ooseq, n)
           last == Last(before)
           end == IF DataEnd(last) > s.seq THEN Trim(last, s.seq - last.seq) ELSE last
           trimmed == IF before = <<>> THEN <<>> ELSE Front(before) \o <<end>>
           f == FitWindow(d, s)
           g == Merge(s, after)
           p == trimmed \o <<f>>
           q == trimmed \o g
           rp == [d EXCEPT !.ooseq = p]
           rq == [d EXCEPT !.ooseq = q]
<1>1. DOMAIN d = Fields /\ d.ooseq \in Seq(Segs) /\ Len(d.ooseq) \in Nat
      /\ DOMAIN d.ooseq = 1 .. Len(d.ooseq)
  BY LenProperties DEF Typed, PcbTyped
<1>2. n \in 0 .. Len(d.ooseq)
  BY <1>1, RunFacts
<1> HIDE DEF n
<1>3. before \in Seq(Segs) /\ after \in Seq(Segs)
  BY <1>1, <1>2, UpToFacts, BehindFacts
<1>4. Queue(d, s) \in {d, rp, rq}
  BY DEF Queue, n
<1> HIDE DEF before, after
<1>5. trimmed \in Seq(Segs)
  <2>1. CASE before = <<>>
    BY <2>1, EmptySeq
  <2>2. CASE before # <<>>
    <3>1. last \in Segs /\ Front(before) \in Seq(Segs)
      BY <2>2, <1>3, LastFacts
    <3> HIDE DEF last
    <3>2. end \in Segs
      <4> DEFINE k == s.seq - last.seq
      <4>1. /\ last.seq \in Int /\ s.seq \in Int /\ Len(last.data) \in Nat
            /\ DataEnd(last) = last.seq + Len(last.data)
        BY <3>1, SegmentFacts
      <4>2. CASE DataEnd(last) > s.seq
        <5>1. k \in Int /\ k <= Len(last.data)
          BY <4>1, <4>2
        <5> HIDE DEF k
        <5>2. Trim(last, k) \in Segs
          BY <3>1, <5>1, TrimFacts
        <5> QED BY <5>2, <4>2 DEF k
      <4>3. CASE ~(DataEnd(last) > s.seq)
        BY <4>3, <3>1
      <4> QED BY <4>2, <4>3
    <3> HIDE DEF end
    <3>3. <<end>> \in Seq(Segs)
      BY <3>2
    <3>4. Front(before) \o <<end>> \in Seq(Segs)
      BY <3>1, <3>3, ConcatProperties
    <3> QED BY <2>2, <3>4
  <2> QED BY <2>1, <2>2
<1> HIDE DEF trimmed
<1>6. f \in Segs /\ g \in Seq(Segs)
  BY <1>3, FitWindowType, MergeType
<1> HIDE DEF f, g
<1>7. p \in Seq(Segs) /\ q \in Seq(Segs)
  <2>1. <<f>> \in Seq(Segs)
    BY <1>6
  <2> QED BY <2>1, <1>5, <1>6, ConcatProperties
<1> HIDE DEF p, q
<1>8. Same(d, rp, {"ooseq"}) /\ rp.ooseq = p /\ Same(d, rq, {"ooseq"}) /\ rq.ooseq = q
  BY <1>1 DEF Same, Fields, PcbFields
<1> HIDE DEF rp, rq
<1>9. Typed(rp) /\ Typed(rq)
  <2>1. \A x \in {"ooseq"} : IsTyped(x, rp[x]) /\ IsTyped(x, rq[x])
    BY <1>7, <1>8 DEF IsTyped
  <2> QED BY <2>1, <1>8, Retyped
<1>10. Same(d, d, {"ooseq"})
  BY <1>1 DEF Same
<1> QED BY <1>4, <1>8, <1>9, <1>10

\* The part of a message that is new to the receiver.
Covers(d, m) == Between(d.rcv_nxt, m.seq + 1, SegEnd(m) - 1)
New(d, m) ==
  IF Covers(d, m)
  THEN Segment(d.rcv_nxt, SubSeq(m.data, d.rcv_nxt - m.seq + 1, Len(m.data)), m.syn, m.fin)
  ELSE Segment(m.seq, m.data, m.syn, m.fin)

LEMMA NewFacts ==
  ASSUME NEW d, NEW m \in Messages, Typed(d)
  PROVE  /\ New(d, m) \in Segs
         /\ New(d, m).syn = m.syn /\ New(d, m).fin = m.fin
         /\ New(d, m).seq = IF Covers(d, m) THEN d.rcv_nxt ELSE m.seq
         /\ New(d, m).seq + Len(New(d, m).data) = m.seq + Len(m.data)
         /\ \A i \in 1 .. Len(New(d, m).data) :
               New(d, m).data[i] = m.data[i + (New(d, m).seq - m.seq)]
<1> DEFINE k == d.rcv_nxt - m.seq
           p == SubSeq(m.data, k + 1, Len(m.data))
           r == New(d, m)
<1>1. /\ d.rcv_nxt \in Int /\ m.seq \in Int /\ m.data \in Payload /\ m.data \in Seq(Int)
      /\ Len(m.data) \in Nat /\ m.syn \in BOOLEAN /\ m.fin \in BOOLEAN /\ TcpLen(m) \in Nat
      /\ SegEnd(m) = m.seq + TcpLen(m)
  BY MessageFacts DEF Typed, PcbTyped
<1>2. CASE Covers(d, m)
  <2>1. TcpLen(m) <= Len(m.data) + 1
    <3> DEFINE flag == IF m.syn \/ m.fin THEN 1 ELSE 0
    <3>1. flag \in {0, 1} /\ TcpLen(m) = Len(m.data) + flag
      BY DEF TcpLen
    <3> HIDE DEF flag
    <3> QED BY <3>1, <1>1
  <2>2. k \in 0 .. Len(m.data) /\ d.rcv_nxt = m.seq + k
    <3>1. m.seq + 1 <= d.rcv_nxt /\ d.rcv_nxt <= SegEnd(m) - 1
      BY <1>2 DEF Covers, Between
    <3> QED BY <3>1, <2>1, <1>1
  <2>3. r = Segment(d.rcv_nxt, p, m.syn, m.fin)
    BY <1>2 DEF New
  <2> HIDE DEF k, r
  <2>4. /\ p \in Seq(Int) /\ Len(p) = Len(m.data) - k
        /\ \A i \in 1 .. Len(m.data) - k : p[i] = m.data[k + i]
    BY <1>1, <2>2, PieceFacts
  <2> HIDE DEF p
  <2>5. p \in Payload
    <3>1. Len(m.data) <= Mss
      BY <1>1, PayloadFacts
    <3>2. Len(p) <= Mss
      BY <3>1, <2>2, <2>4, <1>1, Constants
    <3> QED BY <3>2, <2>4 DEF Payload
  <2>6. r \in Segs
    BY <2>3, <2>5, <1>1, SegmentType
  <2>7. r.seq = d.rcv_nxt /\ r.data = p /\ r.syn = m.syn /\ r.fin = m.fin
    BY <2>3 DEF Segment
  <2>8. d.rcv_nxt + Len(p) = m.seq + Len(m.data)
    BY <2>2, <2>4, <1>1
  <2>9. \A i \in 1 .. Len(p) : p[i] = m.data[i + (d.rcv_nxt - m.seq)]
    <3> SUFFICES ASSUME NEW i \in 1 .. Len(p) PROVE p[i] = m.data[i + (d.rcv_nxt - m.seq)]
      OBVIOUS
    <3>1. i + (d.rcv_nxt - m.seq) = k + i
      BY <2>2, <1>1
    <3> QED BY <3>1, <2>4
  <2> QED BY <1>2, <2>6, <2>7, <2>8, <2>9 DEF r
<1>3. CASE ~Covers(d, m)
  <2>1. r = Segment(m.seq, m.data, m.syn, m.fin)
    BY <1>3 DEF New
  <2> HIDE DEF r
  <2>2. r \in Segs
    BY <2>1, <1>1, SegmentType
  <2>3. r.seq = m.seq /\ r.data = m.data /\ r.syn = m.syn /\ r.fin = m.fin
    BY <2>1 DEF Segment
  <2>4. \A i \in 1 .. Len(m.data) : i + (m.seq - m.seq) = i
    BY <1>1
  <2> QED BY <1>3, <2>2, <2>3, <2>4 DEF r
<1> QED BY <1>2, <1>3

LEMMA DataKeeps ==
  ASSUME NEW d, NEW m \in Messages, Typed(d)
  PROVE  Typed(Data(d, m)) /\ Same(d, Data(d, m), DataFields) /\ Moves(d, Data(d, m))
<1> DEFINE s == New(d, m)
           a == IF s.seq < d.rcv_nxt THEN Set(d, {"ACK_NOW"}) ELSE d
           e == SendEmptyAck(a)
           r == Data(d, m)
<1>1. s \in Segs
  BY NewFacts
<1>2. r \in {e, InSequence(a, s), Queue(e, s)}
  BY DEF Data, New, Covers
<1> HIDE DEF s
<1>3. Typed(a) /\ Same(d, a, {"flags"})
  <2>1. {"ACK_NOW"} \in SUBSET Flags
    BY DEF Flags
  <2>2. Typed(Set(d, {"ACK_NOW"})) /\ Same(d, Set(d, {"ACK_NOW"}), {"flags"})
    BY <2>1, FlagsKeep
  <2>3. Same(d, d, {"flags"})
    BY DEF Same, Typed
  <2> QED BY <2>2, <2>3
<1> HIDE DEF a, r
<1>4. Typed(e) /\ Same(a, e, {"out", "flags", "rcv_ann_right_edge"})
  BY <1>3, EmptyAckKeeps
<1> HIDE DEF e
<1>5. /\ Typed(InSequence(a, s)) /\ Same(a, InSequence(a, s), DataFields)
      /\ Moves(a, InSequence(a, s))
  BY <1>1, <1>3, InSequenceKeeps
<1>6. Typed(Queue(e, s)) /\ Same(e, Queue(e, s), {"ooseq"})
  BY <1>1, <1>4, QueueKeeps
<1> DEFINE i == InSequence(a, s)
           q == Queue(e, s)
<1> HIDE DEF i, q
<1>7. Same(d, e, DataFields) /\ Same(d, i, DataFields) /\ Same(d, q, DataFields)
  <2>1. {"flags", "out", "rcv_ann_right_edge", "ooseq"} \subseteq DataFields
    BY DEF DataFields
  <2>2. Same(a, i, DataFields) /\ Same(e, q, {"ooseq"})
    BY <1>5, <1>6 DEF i, q
  <2> QED BY <1>3, <1>4, <2>1, <2>2 DEF Same
<1>8. Moves(d, e) /\ Moves(d, q) /\ Moves(d, i)
  <2>1. /\ a.state = d.state /\ e.state = d.state /\ q.state = d.state
        /\ a.recv_flags = d.recv_flags /\ e.recv_flags = d.recv_flags
        /\ q.recv_flags = d.recv_flags
    BY <1>3, <1>4, <1>6 DEF Same, Fields, PcbFields, HandlerFields, q
  <2>2. Moves(a, i)
    BY <1>5 DEF i
  <2> QED BY <2>1, <2>2 DEF Moves
<1>9. r \in {e, i, q} /\ Typed(i) /\ Typed(q)
  BY <1>2, <1>5, <1>6 DEF i, q
<1> QED BY <1>4, <1>7, <1>8, <1>9 DEF r

ReceiveFields == AckFields \cup DataFields

LEMMA ReceiveKeeps ==
  ASSUME NEW d, NEW m \in Messages, Typed(d)
  PROVE  /\ Typed(Receive(d, m)) /\ Same(d, Receive(d, m), ReceiveFields)
         /\ Moves(d, Receive(d, m))
         /\ LET a == IF m.ack THEN Ack(d, m) ELSE d
            IN  Typed(a) /\ Same(a, Receive(d, m), DataFields)
<1> DEFINE a == IF m.ack THEN Ack(d, m) ELSE d
           f == {"ACK_NOW"}
           r == Receive(d, m)
<1>1. Typed(a) /\ Same(d, a, AckFields)
  <2>1. Typed(Ack(d, m)) /\ Same(d, Ack(d, m), AckFields)
    BY AckKeeps
  <2>2. Same(d, d, AckFields)
    BY DEF Same, Typed
  <2> QED BY <2>1, <2>2
<1>2. r \in {Data(a, m), a, Set(a, f)}
  BY DEF Receive
<1> HIDE DEF a, r
<1>3. Typed(Data(a, m)) /\ Same(a, Data(a, m), DataFields) /\ Moves(a, Data(a, m))
  BY <1>1, DataKeeps
<1>4. Typed(Set(a, f)) /\ Same(a, Set(a, f), {"flags"})
  <2>1. f \in SUBSET Flags
    BY DEF Flags
  <2> QED BY <2>1, <1>1, FlagsKeep
<1>5. Typed(r) /\ Same(a, r, DataFields) /\ Moves(a, r)
  <2>1. Same(a, Set(a, f), DataFields)
    BY <1>4 DEF Same, DataFields
  <2>2. Same(a, a, DataFields) /\ Moves(a, a)
    BY <1>1 DEF Same, Typed, Moves
  <2>3. Moves(a, Set(a, f))
    BY <1>4 DEF Same, Moves, Fields, PcbFields, HandlerFields
  <2> QED BY <1>1, <1>2, <1>3, <1>4, <2>1, <2>2, <2>3
<1>6. Same(d, r, ReceiveFields)
  BY <1>1, <1>5 DEF Same, ReceiveFields
<1>7. Moves(d, r)
  <2>1. a.state = d.state /\ a.recv_flags = d.recv_flags
    BY <1>1 DEF Same, AckFields, OldAckFields, NewAckFields, Fields, PcbFields, HandlerFields
  <2> QED BY <2>1, <1>5 DEF Moves
<1> QED BY <1>1, <1>5, <1>6, <1>7 DEF a, r

-----------------------------------------------------------------------------
(* A queue of segments that covers the sequence numbers from b to t: each  *)
(* segment begins where the one before it ends.                            *)
Line(q, b, t) ==
  /\ q \in Seq(Segs) /\ b \in Int /\ t \in Int
  /\ q = <<>> => b = t
  /\ q # <<>> => q[1].seq = b /\ SegEnd(q[Len(q)]) = t
  /\ \A i \in 1 .. Len(q) : TcpLen(q[i]) >= 1
  /\ \A i, j \in 1 .. Len(q) : i < j => SegEnd(q[i]) <= q[j].seq
  /\ \A i \in 1 .. Len(q) - 1 : SegEnd(q[i]) = q[i + 1].seq

LEMMA LineFacts ==
  ASSUME NEW q, NEW b, NEW t, Line(q, b, t)
  PROVE  /\ q \in Seq(Segs) /\ Len(q) \in Nat /\ b \in Int /\ t \in Int /\ b <= t
         /\ q # <<>> => Len(q) >= 1 /\ b < t
         /\ q = <<>> => Len(q) = 0
         /\ \A i \in 1 .. Len(q) :
               /\ q[i] \in Segs /\ q[i].seq \in Int /\ SegEnd(q[i]) \in Int
               /\ b <= q[i].seq /\ q[i].seq < SegEnd(q[i]) /\ SegEnd(q[i]) <= t
<1>1. /\ q \in Seq(Segs) /\ b \in Int /\ t \in Int /\ Len(q) \in Nat
      /\ q # <<>> => Len(q) >= 1
      /\ q = <<>> => Len(q) = 0
  <2>1. q \in Seq(Segs) /\ b \in Int /\ t \in Int
    BY DEF Line
  <2> QED BY <2>1, EmptySeq
<1>2. \A i \in 1 .. Len(q) : /\ q[i] \in Segs /\ q[i].seq \in Int /\ SegEnd(q[i]) \in Int
                             /\ q[i].seq < SegEnd(q[i])
  <2> SUFFICES ASSUME NEW i \in 1 .. Len(q)
               PROVE  /\ q[i] \in Segs /\ q[i].seq \in Int /\ SegEnd(q[i]) \in Int
                      /\ q[i].seq < SegEnd(q[i])
    OBVIOUS
  <2>1. q[i] \in Segs
    BY <1>1, ElementOfSeq
  <2>2. /\ q[i].seq \in Int /\ SegEnd(q[i]) \in Int /\ TcpLen(q[i]) \in Nat
        /\ SegEnd(q[i]) = q[i].seq + TcpLen(q[i])
    BY <2>1, SegmentFacts
  <2>3. TcpLen(q[i]) >= 1
    BY DEF Line
  <2> QED BY <2>1, <2>2, <2>3
<1>3. \A i \in 1 .. Len(q) : b <= q[i].seq /\ SegEnd(q[i]) <= t
  <2> SUFFICES ASSUME NEW i \in 1 .. Len(q) PROVE b <= q[i].seq /\ SegEnd(q[i]) <= t
    OBVIOUS
  <2> DEFINE n == Len(q)
  <2>1. n \in 1 .. n /\ 1 \in 1 .. n /\ q # <<>>
    BY <1>1
  <2>2. q[1].seq = b /\ SegEnd(q[n]) = t
    BY <2>1 DEF Line
  <2>3. 1 < i => SegEnd(q[1]) <= q[i].seq
    BY <2>1 DEF Line
  <2>4. i < n => SegEnd(q[i]) <= q[n].seq
    BY <2>1 DEF Line
  <2> HIDE DEF n
  <2>5. b <= q[i].seq
    BY <2>1, <2>2, <2>3, <1>1, <1>2 DEF n
  <2>6. SegEnd(q[i]) <= t
    BY <2>1, <2>2, <2>4, <1>1, <1>2 DEF n
  <2> QED BY <2>5, <2>6
<1>4. q # <<>> => b < t
  <2> SUFFICES ASSUME q # <<>> PROVE b < t
    OBVIOUS
  <2>1. 1 \in 1 .. Len(q)
    BY <1>1
  <2> QED BY <2>1, <1>1, <1>2, <1>3
<1>5. b <= t
  BY <1>1, <1>4 DEF Line
<1> QED BY <1>1, <1>2, <1>3, <1>4, <1>5

LEMMA LineOne ==
  ASSUME NEW s \in Segs, TcpLen(s) >= 1
  PROVE  Line(<<s>>, s.seq, SegEnd(s))
<1>1. <<s>> \in Seq(Segs) /\ Len(<<s>>) = 1 /\ <<s>>[1] = s /\ <<s>> # <<>>
  OBVIOUS
<1>2. s.seq \in Int /\ SegEnd(s) \in Int
  BY SegmentFacts
<1> DEFINE q == <<s>>
<1> HIDE DEF q
<1>3. q \in Seq(Segs) /\ Len(q) = 1 /\ q[1] = s /\ q # <<>>
  BY <1>1 DEF q
<1>4. Line(q, s.seq, SegEnd(s))
  BY <1>2, <1>3 DEF Line
<1> QED BY <1>4 DEF q

LEMMA LineNone ==
  ASSUME NEW b \in Int
  PROVE  Line(<<>>, b, b)
<1> DEFINE q == <<>>
<1>1. q \in Seq(Segs) /\ Len(q) = 0 /\ q = <<>>
  BY EmptySeq
<1> HIDE DEF q
<1>2. Line(q, b, b)
  BY <1>1 DEF Line
<1> QED BY <1>2 DEF q

LEMMA LineJoin ==
  ASSUME NEW p, NEW q, NEW b, NEW m, NEW t, Line(p, b, m), Line(q, m, t)
  PROVE  Line(p \o q, b, t)
<1> DEFINE r == p \o q
           k == Len(p)
           n == Len(q)
<1>1. p \in Seq(Segs) /\ q \in Seq(Segs) /\ k \in Nat /\ n \in Nat
      /\ b \in Int /\ m \in Int /\ t \in Int
      /\ (p = <<>> => k = 0) /\ (q = <<>> => n = 0)
      /\ (p # <<>> => k >= 1) /\ (q # <<>> => n >= 1)
  BY LineFacts
<1>2. r \in Seq(Segs) /\ Len(r) = k + n
      /\ (\A i \in 1 .. k + n : r[i] = IF i <= k THEN p[i] ELSE q[i - k])
  BY <1>1, ConcatProperties
<1> HIDE DEF r, k, n
<1>3. \A i \in 1 .. k : r[i] = p[i]
  BY <1>1, <1>2
<1>4. \A i \in 1 .. n : r[k + i] = q[i]
  <2> SUFFICES ASSUME NEW i \in 1 .. n PROVE r[k + i] = q[i]
    OBVIOUS
  <2>1. k + i \in 1 .. k + n /\ ~(k + i <= k) /\ (k + i) - k = i
    BY <1>1
  <2> QED BY <2>1, <1>2
<1>5. \A i \in 1 .. k + n : i \in 1 .. k \/ (\E j \in 1 .. n : i = k + j)
  <2> SUFFICES ASSUME NEW i \in 1 .. k + n, i \notin 1 .. k PROVE \E j \in 1 .. n : i = k + j
    OBVIOUS
  <2>1. i - k \in 1 .. n /\ i = k + (i - k)
    BY <1>1
  <2> QED BY <2>1
<1>6. /\ \A i \in 1 .. k : /\ p[i].seq \in Int /\ SegEnd(p[i]) \in Int /\ SegEnd(p[i]) <= m
      /\ \A i \in 1 .. n : /\ q[i].seq \in Int /\ SegEnd(q[i]) \in Int /\ m <= q[i].seq
  BY LineFacts DEF k, n
<1>7. \A i \in 1 .. k + n : TcpLen(r[i]) >= 1
  <2> SUFFICES ASSUME NEW i \in 1 .. k + n PROVE TcpLen(r[i]) >= 1
    OBVIOUS
  <2>1. CASE i \in 1 .. k
    BY <2>1, <1>3 DEF Line, k
  <2>2. CASE \E j \in 1 .. n : i = k + j
    BY <2>2, <1>4 DEF Line, n
  <2> QED BY <2>1, <2>2, <1>5
<1>8. ASSUME NEW i \in 1 .. k + n, NEW j \in 1 .. k + n, i < j
      PROVE  SegEnd(r[i]) <= r[j].seq
  <2>1. CASE i \in 1 .. k /\ j \in 1 .. k
    <3>1. SegEnd(p[i]) <= p[j].seq
      BY <2>1, <1>8 DEF Line, k
    <3> QED BY <3>1, <2>1, <1>3
  <2>2. CASE i \in 1 .. k /\ \E y \in 1 .. n : j = k + y
    <3>1. PICK y \in 1 .. n : j = k + y
      BY <2>2
    <3>2. r[i] = p[i] /\ r[j] = q[y]
      BY <2>2, <3>1, <1>3, <1>4
    <3> QED BY <2>2, <3>1, <3>2, <1>1, <1>6
  <2>3. CASE (\E x \in 1 .. n : i = k + x) /\ (\E y \in 1 .. n : j = k + y)
    <3>1. PICK x \in 1 .. n : i = k + x
      BY <2>3
    <3>2. PICK y \in 1 .. n : j = k + y
      BY <2>3
    <3>3. x < y
      BY <3>1, <3>2, <1>1, <1>8
    <3>4. SegEnd(q[x]) <= q[y].seq
      BY <3>1, <3>2, <3>3 DEF Line, n
    <3> QED BY <3>1, <3>2, <3>4, <1>4
  <2>4. CASE (\E x \in 1 .. n : i = k + x) /\ j \in 1 .. k
    BY <2>4, <1>1, <1>8
  <2> QED BY <2>1, <2>2, <2>3, <2>4, <1>5
<1>9. ASSUME NEW i \in 1 .. (k + n) - 1
      PROVE  SegEnd(r[i]) = r[i + 1].seq
  <2>1. CASE i \in 1 .. k - 1
    <3>1. SegEnd(p[i]) = p[i + 1].seq
      BY <2>1 DEF Line, k
    <3>2. i \in 1 .. k /\ i + 1 \in 1 .. k
      BY <2>1, <1>1
    <3> QED BY <3>1, <3>2, <1>3
  <2>2. CASE i = k
    <3>1. k \in 1 .. k /\ 1 \in 1 .. n /\ p # <<>> /\ q # <<>>
      BY <2>2, <1>1, <1>9
    <3>2. r[k] = p[k] /\ r[k + 1] = q[1]
      BY <3>1, <1>3, <1>4
    <3>3. SegEnd(p[k]) = m /\ q[1].seq = m
      BY <3>1 DEF Line, k
    <3> QED BY <2>2, <3>2, <3>3
  <2>3. CASE i \in k + 1 .. (k + n) - 1
    <3>1. /\ i - k \in 1 .. n - 1 /\ i - k \in 1 .. n /\ (i - k) + 1 \in 1 .. n
          /\ i = k + (i - k) /\ i + 1 = k + ((i - k) + 1)
      BY <2>3, <1>1
    <3>2. SegEnd(q[i - k]) = q[(i - k) + 1].seq
      BY <3>1 DEF Line, n
    <3> QED BY <3>1, <3>2, <1>4
  <2> QED BY <2>1, <2>2, <2>3, <1>1
<1>10. /\ r = <<>> => b = t
       /\ r # <<>> => r[1].seq = b /\ SegEnd(r[Len(r)]) = t
  <2>0. (r = <<>> => k + n = 0) /\ (r # <<>> => k + n >= 1)
    BY <1>1, <1>2, EmptySeq
  <2>1. CASE k = 0 /\ n = 0
    <3>1. p = <<>> /\ q = <<>>
      BY <2>1, <1>1
    <3> QED BY <2>0, <2>1, <3>1, <1>1 DEF Line
  <2>2. CASE k = 0 /\ n # 0
    <3>1. p = <<>> /\ q # <<>> /\ 1 \in 1 .. n /\ n \in 1 .. n
      BY <2>2, <1>1
    <3>2. b = m /\ q[1].seq = m /\ SegEnd(q[n]) = t
      BY <3>1 DEF Line, n
    <3>3. r[1] = q[1] /\ r[Len(r)] = q[n]
      BY <2>2, <3>1, <1>1, <1>2, <1>4
    <3> QED BY <2>0, <2>2, <3>2, <3>3, <1>1
  <2>3. CASE k # 0 /\ n = 0
    <3>1. p # <<>> /\ q = <<>> /\ 1 \in 1 .. k /\ k \in 1 .. k
      BY <2>3, <1>1
    <3>2. m = t /\ p[1].seq = b /\ SegEnd(p[k]) = m
      BY <3>1 DEF Line, k
    <3>3. r[1] = p[1] /\ r[Len(r)] = p[k]
      BY <2>3, <3>1, <1>1, <1>2, <1>3
    <3> QED BY <2>0, <2>3, <3>2, <3>3, <1>1
  <2>4. CASE k # 0 /\ n # 0
    <3>1. p # <<>> /\ q # <<>> /\ 1 \in 1 .. k /\ n \in 1 .. n
      BY <2>4, <1>1
    <3>2. p[1].seq = b /\ SegEnd(q[n]) = t
      BY <3>1 DEF Line, k, n
    <3>3. r[1] = p[1] /\ r[Len(r)] = q[n]
      BY <3>1, <1>1, <1>2, <1>3, <1>4
    <3> QED BY <2>0, <2>4, <3>2, <3>3, <1>1
  <2> QED BY <2>1, <2>2, <2>3, <2>4
<1>11. Line(r, b, t)
  BY <1>1, <1>2, <1>7, <1>8, <1>9, <1>10 DEF Line
<1> QED BY <1>11 DEF r

\* Where a queue that begins at b and ends at t goes on after n segments.
Mark(q, n, t) == IF n < Len(q) THEN q[n + 1].seq ELSE t

LEMMA LineSplit ==
  ASSUME NEW q, NEW b, NEW t, Line(q, b, t), NEW n \in 0 .. Len(q)
  PROVE  /\ Line(UpTo(q, n), b, Mark(q, n, t)) /\ Line(Behind(q, n), Mark(q, n, t), t)
         /\ n = 0 => Mark(q, n, t) = b
         /\ n > 0 => Mark(q, n, t) = SegEnd(q[n])
<1> DEFINE k == Len(q)
           m == Mark(q, n, t)
           p == UpTo(q, n)
           r == Behind(q, n)
<1>1. /\ q \in Seq(Segs) /\ k \in Nat /\ b \in Int /\ t \in Int /\ n \in 0 .. k
      /\ (q # <<>> => k >= 1) /\ (q = <<>> => k = 0)
  BY LineFacts
<1>2. /\ p \in Seq(Segs) /\ Len(p) = n /\ \A i \in 1 .. n : p[i] = q[i]
      /\ r \in Seq(Segs) /\ Len(r) = k - n /\ \A i \in 1 .. k - n : r[i] = q[n + i]
  BY <1>1, UpToFacts, BehindFacts
<1>3. n = 0 => m = b
  <2>1. CASE n = 0 /\ k = 0
    BY <2>1, <1>1 DEF Mark, Line
  <2>2. CASE n = 0 /\ k # 0
    <3>1. n < k /\ q # <<>> /\ n + 1 = 1
      BY <2>2, <1>1
    <3> QED BY <3>1 DEF Mark, Line
  <2> QED BY <2>1, <2>2
<1>4. n > 0 => m = SegEnd(q[n])
  <2>1. CASE n > 0 /\ n < k
    <3>1. n \in 1 .. k - 1
      BY <2>1, <1>1
    <3> QED BY <2>1, <3>1 DEF Mark, Line
  <2>2. CASE n > 0 /\ n = k
    <3>1. q # <<>> /\ ~(n < k)
      BY <2>2, <1>1
    <3> QED BY <2>2, <3>1 DEF Mark, Line
  <2> QED BY <2>1, <2>2, <1>1
<1>5. m \in Int
  <2>1. CASE n < k
    <3>1. n + 1 \in 1 .. k
      BY <2>1, <1>1
    <3>2. q[n + 1].seq \in Int
      BY <3>1, LineFacts
    <3> QED BY <2>1, <3>2 DEF Mark
  <2>2. CASE ~(n < k)
    BY <2>2, <1>1 DEF Mark
  <2> QED BY <2>1, <2>2
<1>6. /\ \A i \in 1 .. k : TcpLen(q[i]) >= 1
      /\ \A i, j \in 1 .. k : i < j => SegEnd(q[i]) <= q[j].seq
      /\ \A i \in 1 .. k - 1 : SegEnd(q[i]) = q[i + 1].seq
      /\ q # <<>> => q[1].seq = b /\ SegEnd(q[k]) = t
  BY DEF Line
<1>7. n < k => m = q[n + 1].seq
  BY DEF Mark
<1>8. ~(n < k) => m = t
  BY DEF Mark
<1> HIDE DEF m, p, r, k
<1>9. (p = <<>> => n = 0) /\ (p # <<>> => n >= 1) /\ (r = <<>> => k = n) /\ (r # <<>> => n < k)
  BY <1>1, <1>2, EmptySeq
<1>10. Line(p, b, m)
  <2>1. p = <<>> => b = m
    BY <1>3, <1>9
  <2>2. p # <<>> => p[1].seq = b /\ SegEnd(p[Len(p)]) = m
    <3> SUFFICES ASSUME p # <<>> PROVE p[1].seq = b /\ SegEnd(p[Len(p)]) = m
      OBVIOUS
    <3>1. 1 \in 1 .. n /\ n \in 1 .. n /\ n > 0 /\ q # <<>>
      BY <1>1, <1>9
    <3> QED BY <3>1, <1>2, <1>4, <1>6
  <2>3. \A i \in 1 .. n : i \in 1 .. k
    BY <1>1
  <2>4. \A i \in 1 .. n - 1 : i \in 1 .. k - 1 /\ i \in 1 .. n /\ i + 1 \in 1 .. n
    BY <1>1
  <2>5. \A i \in 1 .. Len(p) : TcpLen(p[i]) >= 1
    BY <1>2, <1>6, <2>3
  <2>6. \A i, j \in 1 .. Len(p) : i < j => SegEnd(p[i]) <= p[j].seq
    BY <1>2, <1>6, <2>3
  <2>7. \A i \in 1 .. Len(p) - 1 : SegEnd(p[i]) = p[i + 1].seq
    BY <1>2, <1>6, <2>3, <2>4
  <2> QED BY <2>1, <2>2, <2>5, <2>6, <2>7, <1>1, <1>2, <1>5 DEF Line
<1>11. Line(r, m, t)
  <2>1. r = <<>> => m = t
    BY <1>1, <1>8, <1>9
  <2>2. r # <<>> => r[1].seq = m /\ SegEnd(r[Len(r)]) = t
    <3> SUFFICES ASSUME r # <<>> PROVE r[1].seq = m /\ SegEnd(r[Len(r)]) = t
      OBVIOUS
    <3>1. 1 \in 1 .. k - n /\ k - n \in 1 .. k - n /\ n < k /\ q # <<>> /\ n + (k - n) = k
      BY <1>1, <1>9
    <3> QED BY <3>1, <1>2, <1>6, <1>7
  <2>3. \A i \in 1 .. k - n : n + i \in 1 .. k
    BY <1>1
  <2>4. \A i \in 1 .. (k - n) - 1 : /\ n + i \in 1 .. k - 1 /\ (n + i) + 1 = n + (i + 1)
                                    /\ i \in 1 .. k - n /\ i + 1 \in 1 .. k - n
    BY <1>1
  <2>5. \A i \in 1 .. Len(r) : TcpLen(r[i]) >= 1
    BY <1>2, <1>6, <2>3
  <2>6. \A i, j \in 1 .. Len(r) : i < j => SegEnd(r[i]) <= r[j].seq
    <3> SUFFICES ASSUME NEW i \in 1 .. k - n, NEW j \in 1 .. k - n, i < j
                 PROVE  SegEnd(r[i]) <= r[j].seq
      BY <1>2
    <3>1. n + i < n + j /\ n + i \in 1 .. k /\ n + j \in 1 .. k
      BY <1>1, <2>3
    <3> QED BY <3>1, <1>2, <1>6
  <2>7. \A i \in 1 .. Len(r) - 1 : SegEnd(r[i]) = r[i + 1].seq
    <3> SUFFICES ASSUME NEW i \in 1 .. (k - n) - 1 PROVE SegEnd(r[i]) = r[i + 1].seq
      BY <1>2
    <3>1. SegEnd(q[n + i]) = q[n + (i + 1)].seq
      BY <1>6, <2>4
    <3> QED BY <3>1, <1>2, <2>4
  <2> QED BY <2>1, <2>2, <2>5, <2>6, <2>7, <1>1, <1>2, <1>5 DEF Line
<1> QED BY <1>3, <1>4, <1>10, <1>11 DEF m, p, r

(* The first segment of such a queue, and the last.                         *)
LEMMA LineFirst ==
  ASSUME NEW q, NEW b, NEW t, Line(q, b, t), q # <<>>
  PROVE  /\ Head(q) \in Segs /\ Head(q) = q[1] /\ Head(q).seq = b /\ TcpLen(Head(q)) >= 1
         /\ b < SegEnd(Head(q)) /\ SegEnd(Head(q)) <= t
         /\ Line(<<Head(q)>>, b, SegEnd(Head(q)))
         /\ Line(Tail(q), SegEnd(Head(q)), t)
<1>1. /\ q \in Seq(Segs) /\ Len(q) \in Nat /\ Len(q) >= 1
      /\ q[1] \in Segs /\ b <= q[1].seq /\ q[1].seq < SegEnd(q[1]) /\ SegEnd(q[1]) <= t
      /\ 1 \in 1 .. Len(q)
  <2>1. q \in Seq(Segs) /\ Len(q) \in Nat /\ Len(q) >= 1
    BY LineFacts
  <2>2. 1 \in 1 .. Len(q)
    BY <2>1
  <2> QED BY <2>1, <2>2, LineFacts
<1>2. q[1].seq = b /\ TcpLen(q[1]) >= 1
  BY <1>1 DEF Line
<1>3. Head(q) = q[1]
  OBVIOUS
<1>4. Tail(q) = Behind(q, 1)
  BY <1>1, TailIsSubSeq DEF Behind
<1>5. Line(Behind(q, 1), Mark(q, 1, t), t) /\ Mark(q, 1, t) = SegEnd(q[1])
  <2>1. 1 \in 0 .. Len(q)
    BY <1>1
  <2> QED BY <2>1, LineSplit
<1>6. Line(<<q[1]>>, b, SegEnd(q[1]))
  BY <1>1, <1>2, LineOne
<1> QED BY <1>1, <1>2, <1>3, <1>4, <1>5, <1>6

LEMMA LineLast ==
  ASSUME NEW q, NEW b, NEW t, Line(q, b, t), q # <<>>
  PROVE  /\ Last(q) \in Segs /\ Last(q) = q[Len(q)] /\ SegEnd(Last(q)) = t
         /\ TcpLen(Last(q)) >= 1
         /\ Line(Front(q), b, Last(q).seq)
<1> DEFINE n == Len(q)
<1>1. q \in Seq(Segs) /\ n \in Nat /\ n >= 1
  BY LineFacts
<1>2. Last(q) = q[n] /\ Last(q) \in Segs
  BY <1>1, LastFacts
<1>3. SegEnd(q[n]) = t /\ TcpLen(q[n]) >= 1
  <2>1. n \in 1 .. Len(q)
    BY <1>1
  <2> QED BY <2>1 DEF Line
<1>4. Front(q) = UpTo(q, n - 1)
  BY DEF Front, UpTo
<1>5. Line(UpTo(q, n - 1), b, Mark(q, n - 1, t)) /\ Mark(q, n - 1, t) = q[n].seq
  <2>1. n - 1 \in 0 .. Len(q) /\ n - 1 < Len(q) /\ (n - 1) + 1 = n
    BY <1>1
  <2>2. Mark(q, n - 1, t) = q[n].seq
    BY <2>1 DEF Mark
  <2> HIDE DEF n
  <2> QED BY <2>1, <2>2, LineSplit
<1> QED BY <1>2, <1>3, <1>4, <1>5

-----------------------------------------------------------------------------
(* What tcp_write and tcp_send_fin make of the unsent queue.                *)
LEMMA CutLine ==
  ASSUME NEW seq \in Int, NEW data \in Seq(Int)
  PROVE  Line(Cut(seq, data), seq, seq + Len(data))
<1> DEFINE c == Cut(seq, data)
           n == Len(data)
           k == Places(n)
<1>1. n \in Nat
  BY LenProperties
<1>2. /\ c \in Seq(Segs) /\ Len(c) = k
      /\ \A i \in 1 .. Len(c) :
            /\ ~c[i].syn /\ ~c[i].fin /\ c[i].seq = seq + (i - 1) * Mss
            /\ Len(c[i].data) >= 1 /\ SegEnd(c[i]) = seq + PlaceEnd(i, n)
  BY CutFacts DEF CutAs
<1>3. /\ k \in Nat /\ n <= k * Mss /\ (k = 0 <=> n = 0)
      /\ \A i \in 1 .. k : (i - 1) * Mss \in Nat /\ (i - 1) * Mss < n
      /\ \A i \in 1 .. k - 1 : i * Mss < n
  BY <1>1, PlacesFacts
<1>4. Mss \in Nat /\ Mss >= 1
  BY Constants
<1> HIDE DEF c, n, k
<1>5. \A i \in 1 .. k : TcpLen(c[i]) >= 1
  <2> SUFFICES ASSUME NEW i \in 1 .. k PROVE TcpLen(c[i]) >= 1
    OBVIOUS
  <2>1. ~c[i].syn /\ ~c[i].fin /\ Len(c[i].data) >= 1
    BY <1>2
  <2>2. c[i] \in Segs
    BY <1>2, ElementOfSeq
  <2>3. Len(c[i].data) \in Nat
    BY <2>2, SegmentFacts
  <2>4. TcpLen(c[i]) = Len(c[i].data) + 0
    BY <2>1 DEF TcpLen
  <2> QED BY <2>1, <2>3, <2>4
<1>6. \A i \in 1 .. k - 1 : PlaceEnd(i, n) = i * Mss /\ i * Mss \in Int
  <2> SUFFICES ASSUME NEW i \in 1 .. k - 1 PROVE PlaceEnd(i, n) = i * Mss /\ i * Mss \in Int
    OBVIOUS
  <2>1. i * Mss < n /\ i * Mss \in Int
    BY <1>3, <1>4
  <2> QED BY <2>1, <1>1 DEF PlaceEnd
<1>7. \A i \in 1 .. k - 1 : SegEnd(c[i]) = c[i + 1].seq
  <2> SUFFICES ASSUME NEW i \in 1 .. k - 1 PROVE SegEnd(c[i]) = c[i + 1].seq
    OBVIOUS
  <2>1. i \in 1 .. k /\ i + 1 \in 1 .. k /\ (i + 1) - 1 = i
    BY <1>3
  <2> QED BY <2>1, <1>2, <1>6
<1>8. \A i, j \in 1 .. k : i < j => SegEnd(c[i]) <= c[j].seq
  <2> SUFFICES ASSUME NEW i \in 1 .. k, NEW j \in 1 .. k, i < j PROVE SegEnd(c[i]) <= c[j].seq
    OBVIOUS
  <2>1. SegEnd(c[i]) = seq + i * Mss /\ c[j].seq = seq + (j - 1) * Mss
    <3>1. i \in 1 .. k - 1
      BY <1>3
    <3> QED BY <3>1, <1>2, <1>6
  <2>2. i * Mss <= (j - 1) * Mss /\ i * Mss \in Int /\ (j - 1) * Mss \in Int
    <3>1. ((j - 1) - i) * Mss >= 0
      BY <1>3, <1>4
    <3>2. (j - 1) * Mss = i * Mss + ((j - 1) - i) * Mss
      BY <1>3, <1>4
    <3>3. i * Mss \in Int /\ (j - 1) * Mss \in Int /\ ((j - 1) - i) * Mss \in Int
      BY <1>3, <1>4
    <3> QED BY <3>1, <3>2, <3>3
  <2> QED BY <2>1, <2>2
<1>9. c # <<>> => c[1].seq = seq /\ SegEnd(c[Len(c)]) = seq + n
  <2> SUFFICES ASSUME c # <<>> PROVE c[1].seq = seq /\ SegEnd(c[Len(c)]) = seq + n
    OBVIOUS
  <2>1. k >= 1
    BY <1>2, <1>3, EmptySeq
  <2>2. 1 \in 1 .. k /\ k \in 1 .. k
    BY <2>1, <1>3
  <2>3. c[1].seq = seq
    <3>1. c[1].seq = seq + (1 - 1) * Mss
      BY <2>2, <1>2
    <3>2. (1 - 1) * Mss = 0
      BY <1>4
    <3> QED BY <3>1, <3>2
  <2>4. PlaceEnd(k, n) = n
    <3>1. k * Mss \in Int
      BY <1>3, <1>4
    <3> QED BY <3>1, <1>1, <1>3 DEF PlaceEnd
  <2> QED BY <2>2, <2>3, <2>4, <1>2
<1>10. c = <<>> => seq = seq + n
  <2> SUFFICES ASSUME c = <<>> PROVE seq = seq + n
    OBVIOUS
  <2>1. k = 0
    BY <1>2, EmptySeq
  <2> QED BY <2>1, <1>3
<1>11. Line(c, seq, seq + n)
  <2>1. seq + n \in Int
    BY <1>1
  <2> QED BY <2>1, <1>2, <1>5, <1>7, <1>8, <1>9, <1>10 DEF Line
<1> QED BY <1>11 DEF c, n

\* The first segment of a queue does not get shorter.
Grows(q, r) == q # <<>> => r # <<>> /\ SegEnd(q[1]) <= SegEnd(r[1])

LEMMA GrowsBehind ==
  ASSUME NEW q \in Seq(Segs), NEW r \in Seq(Segs)
  PROVE  Grows(q, q \o r)
<1> SUFFICES ASSUME q # <<>> PROVE q \o r # <<>> /\ SegEnd(q[1]) <= SegEnd((q \o r)[1])
  BY DEF Grows
<1>1. Len(q) \in Nat /\ Len(q) >= 1 /\ Len(r) \in Nat
  BY EmptySeq
<1>2. /\ q \o r \in Seq(Segs) /\ Len(q \o r) = Len(q) + Len(r)
      /\ \A i \in 1 .. Len(q) + Len(r) : (q \o r)[i] = IF i <= Len(q) THEN q[i] ELSE r[i - Len(q)]
  BY ConcatProperties
<1>3. (q \o r)[1] = q[1]
  <2>1. 1 \in 1 .. Len(q) + Len(r) /\ 1 <= Len(q)
    BY <1>1
  <2> QED BY <2>1, <1>2
<1>4. SegEnd(q[1]) \in Int
  <2>1. q[1] \in Segs
    BY <1>1, ElementOfSeq
  <2> QED BY <2>1, SegmentFacts
<1>5. q \o r # <<>>
  <2>1. Len(q \o r) # 0
    BY <1>1, <1>2
  <2> QED BY <2>1, EmptySeq
<1> QED BY <1>3, <1>4, <1>5

\* Another last segment.
LEMMA GrowsLast ==
  ASSUME NEW q \in Seq(Segs), q # <<>>, NEW s \in Segs, SegEnd(Last(q)) <= SegEnd(s)
  PROVE  Grows(q, Front(q) \o <<s>>)
<1> DEFINE p == Front(q)
           r == p \o <<s>>
<1>1. /\ Len(q) \in Nat \ {0} /\ Last(q) = q[Len(q)]
      /\ p \in Seq(Segs) /\ Len(p) = Len(q) - 1 /\ \A i \in 1 .. Len(q) - 1 : p[i] = q[i]
  BY LastFacts
<1>2. <<s>> \in Seq(Segs) /\ Len(<<s>>) = 1 /\ <<s>>[1] = s
  OBVIOUS
<1> HIDE DEF p
<1>3. /\ r \in Seq(Segs) /\ Len(r) = Len(p) + 1
      /\ \A i \in 1 .. Len(p) + 1 : r[i] = IF i <= Len(p) THEN p[i] ELSE <<s>>[i - Len(p)]
  BY <1>1, <1>2, ConcatProperties
<1> HIDE DEF r
<1>4. r # <<>>
  <2>1. Len(r) # 0
    BY <1>1, <1>3
  <2> QED BY <2>1, EmptySeq
<1>5. CASE Len(q) = 1
  <2>1. 1 \in 1 .. Len(p) + 1 /\ ~(1 <= Len(p)) /\ 1 - Len(p) = 1
    BY <1>1, <1>5
  <2>2. r[1] = s
    BY <2>1, <1>2, <1>3
  <2> QED BY <2>2, <1>1, <1>4, <1>5 DEF Grows, r, p
<1>6. CASE Len(q) # 1
  <2>1. 1 \in 1 .. Len(p) + 1 /\ 1 <= Len(p) /\ 1 \in 1 .. Len(q) - 1 /\ 1 \in 1 .. Len(q)
    BY <1>1, <1>6
  <2>2. r[1] = q[1]
    BY <2>1, <1>1, <1>3
  <2>3. q[1] \in Segs
    BY <2>1, ElementOfSeq
  <2>4. SegEnd(q[1]) \in Int
    BY <2>3, SegmentFacts
  <2> QED BY <2>2, <2>4, <1>4 DEF Grows, r, p
<1> QED BY <1>5, <1>6

LEMMA GrowsOn ==
  ASSUME NEW p \in Seq(Segs), NEW q \in Seq(Segs), NEW r \in Seq(Segs), Grows(p, q), Grows(q, r)
  PROVE  Grows(p, r)
<1> SUFFICES ASSUME p # <<>> PROVE r # <<>> /\ SegEnd(p[1]) <= SegEnd(r[1])
  BY DEF Grows
<1>1. q # <<>> /\ SegEnd(p[1]) <= SegEnd(q[1]) /\ r # <<>> /\ SegEnd(q[1]) <= SegEnd(r[1])
  BY DEF Grows
<1>2. p[1] \in Segs /\ q[1] \in Segs /\ r[1] \in Segs
  <2>1. 1 \in 1 .. Len(p) /\ 1 \in 1 .. Len(q) /\ 1 \in 1 .. Len(r)
    BY <1>1, EmptySeq
  <2> QED BY <2>1, ElementOfSeq
<1>3. SegEnd(p[1]) \in Int /\ SegEnd(q[1]) \in Int /\ SegEnd(r[1]) \in Int
  BY <1>2, SegmentFacts
<1> QED BY <1>1, <1>3

LEMMA WrittenLine ==
  ASSUME NEW d, NEW data \in Seq(Int), NEW n, NEW r, NEW m, Typed(d), WrittenAs(d, data, n, r),
         Line(d.unsent, m, d.snd_lbb)
  PROVE  Line(r.unsent, m, r.snd_lbb) /\ Grows(d.unsent, r.unsent)
<1> DEFINE last == Last(d.unsent)
           q == IF n = 0 THEN d.unsent ELSE Front(d.unsent) \o <<Filled(last, data, n)>>
           rest == SubSeq(data, n + 1, Len(data))
           c == Cut(d.snd_lbb + n, rest)
<1>1. /\ n \in 0 .. Len(data) /\ (n # 0 => d.unsent # <<>> /\ Len(last.data) + n <= Mss)
      /\ r.unsent = q \o c /\ r.snd_lbb = d.snd_lbb + Len(data)
  BY DEF WrittenAs
<1>2. d.unsent \in Seq(Segs) /\ d.snd_lbb \in Int /\ Len(data) \in Nat /\ n \in Nat
  BY <1>1, LenProperties DEF Typed, PcbTyped
<1>3. rest \in Seq(Int) /\ Len(rest) = Len(data) - n
  BY <1>1, PieceFacts
<1> HIDE DEF rest
<1>4. Line(c, d.snd_lbb + n, r.snd_lbb)
  <2>1. d.snd_lbb + n \in Int /\ (d.snd_lbb + n) + Len(rest) = r.snd_lbb
    BY <1>1, <1>2, <1>3
  <2>2. Line(c, d.snd_lbb + n, (d.snd_lbb + n) + Len(rest))
    BY <2>1, <1>3, CutLine
  <2> QED BY <2>1, <2>2
<1> HIDE DEF c
<1>5. Line(q, m, d.snd_lbb + n) /\ q \in Seq(Segs) /\ Grows(d.unsent, q)
  <2>1. CASE n = 0
    <3>1. q = d.unsent /\ d.snd_lbb + n = d.snd_lbb
      BY <2>1, <1>2
    <3>2. Grows(d.unsent, d.unsent)
      <4>1. d.unsent \o <<>> = d.unsent /\ <<>> \in Seq(Segs)
        BY <1>2, ConcatEmptySeq, EmptySeq
      <4>2. Grows(d.unsent, d.unsent \o <<>>)
        BY <1>2, <4>1, GrowsBehind
      <4> QED BY <4>1, <4>2
    <3> HIDE DEF q
    <3> QED BY <3>1, <3>2, <1>2
  <2>2. CASE n # 0
    <3> DEFINE f == Filled(last, data, n)
    <3>1. d.unsent # <<>> /\ Len(last.data) + n <= Mss
      BY <1>1, <2>2
    <3>2. /\ last \in Segs /\ SegEnd(last) = d.snd_lbb /\ TcpLen(last) >= 1
          /\ Line(Front(d.unsent), m, last.seq)
      BY <3>1, LineLast
    <3> HIDE DEF last
    <3>3. f \in Segs /\ f.seq = last.seq /\ SegEnd(f) = SegEnd(last) + n
      BY <1>1, <3>1, <3>2, FilledFacts
    <3>4. q = Front(d.unsent) \o <<f>>
      BY <2>2
    <3> HIDE DEF f, q
    <3>5. TcpLen(f) >= 1
      <4>1. /\ SegEnd(f) = f.seq + TcpLen(f) /\ SegEnd(last) = last.seq + TcpLen(last)
            /\ TcpLen(f) \in Nat /\ TcpLen(last) \in Nat /\ f.seq \in Int /\ SegEnd(last) \in Int
        BY <3>2, <3>3, SegmentFacts
      <4> QED BY <4>1, <3>2, <3>3, <1>2
    <3>6. Line(<<f>>, f.seq, SegEnd(f))
      BY <3>3, <3>5, LineOne
    <3>7. Line(<<f>>, last.seq, d.snd_lbb + n)
      BY <3>2, <3>3, <3>6
    <3>8. Line(q, m, d.snd_lbb + n)
      BY <3>2, <3>4, <3>7, LineJoin
    <3>9. Grows(d.unsent, q)
      <4>1. SegEnd(Last(d.unsent)) <= SegEnd(f)
        BY <1>2, <3>2, <3>3 DEF last
      <4> QED BY <4>1, <1>2, <3>1, <3>3, <3>4, GrowsLast
    <3> QED BY <3>8, <3>9 DEF Line
  <2> QED BY <2>1, <2>2
<1> HIDE DEF q
<1>6. Line(r.unsent, m, r.snd_lbb)
  BY <1>1, <1>4, <1>5, LineJoin
<1>7. Grows(d.unsent, r.unsent)
  <2>1. c \in Seq(Segs)
    BY <1>4 DEF Line
  <2>2. Grows(q, q \o c) /\ q \o c \in Seq(Segs)
    BY <2>1, <1>5, GrowsBehind, ConcatProperties
  <2> QED BY <2>1, <2>2, <1>1, <1>2, <1>5, GrowsOn
<1> QED BY <1>6, <1>7

LEMMA AppendLine ==
  ASSUME NEW q, NEW m, NEW t, NEW s \in Segs, Line(q, m, t), s.seq = t, TcpLen(s) >= 1
  PROVE  Line(Append(q, s), m, SegEnd(s)) /\ Grows(q, Append(q, s)) /\ Append(q, s) # <<>>
<1>1. q \in Seq(Segs)
  BY DEF Line
<1>2. Append(q, s) = q \o <<s>> /\ Append(q, s) # <<>>
  BY <1>1, AppendIsConcat, AppendProperties
<1>3. Line(<<s>>, t, SegEnd(s))
  BY LineOne
<1>4. Line(q \o <<s>>, m, SegEnd(s))
  BY <1>3, LineJoin
<1>5. Grows(q, q \o <<s>>)
  <2>1. <<s>> \in Seq(Segs)
    OBVIOUS
  <2> QED BY <2>1, <1>1, GrowsBehind
<1> QED BY <1>2, <1>4, <1>5

LEMMA FlagSegment ==
  ASSUME NEW seq \in Int, NEW syn \in BOOLEAN, NEW fin \in BOOLEAN, syn \/ fin
  PROVE  /\ Segment(seq, <<>>, syn, fin) \in Segs /\ Segment(seq, <<>>, syn, fin).seq = seq
         /\ TcpLen(Segment(seq, <<>>, syn, fin)) = 1 /\ SegEnd(Segment(seq, <<>>, syn, fin)) = seq + 1
<1> DEFINE s == Segment(seq, <<>>, syn, fin)
<1>1. s \in Segs
  BY PayloadFacts, SegmentType
<1>2. s.seq = seq /\ s.data = <<>> /\ (s.syn \/ s.fin)
  BY DEF Segment
<1> HIDE DEF s
<1>3. TcpLen(s) = Len(s.data) + 1
  BY <1>2 DEF TcpLen
<1>4. Len(s.data) = 0
  BY <1>2, EmptySeq
<1>5. TcpLen(s) = 1
  BY <1>3, <1>4
<1> QED BY <1>1, <1>2, <1>5 DEF SegEnd, s

LEMMA OneSeq ==
  ASSUME NEW T, NEW s \in T
  PROVE  <<s>> \in Seq(T) /\ Len(<<s>>) = 1 /\ <<s>>[1] = s
  OBVIOUS

LEMMA SendFinLine ==
  ASSUME NEW d, NEW m, Typed(d), CanSendFin(d), Line(d.unsent, m, d.snd_lbb)
  PROVE  /\ Line(SendFin(d).unsent, m, d.snd_lbb + 1) /\ Grows(d.unsent, SendFin(d).unsent)
         /\ SendFin(d).snd_lbb \in {d.snd_lbb, d.snd_lbb + 1}
<1> DEFINE r == SendFin(d)
<1>0. d.unsent \in Seq(Segs) /\ d.snd_lbb \in Int
  BY DEF Typed, PcbTyped
<1>1. CASE ~JoinsLast(d)
  <2> DEFINE s == Segment(d.snd_lbb, <<>>, FALSE, TRUE)
  <2>1. r.unsent = Append(d.unsent, s) /\ r.snd_lbb = d.snd_lbb + 1
    BY <1>1, SendFinKeeps
  <2>2. s \in Segs /\ s.seq = d.snd_lbb /\ TcpLen(s) = 1 /\ SegEnd(s) = d.snd_lbb + 1
    BY <1>0, FlagSegment
  <2> HIDE DEF s, r
  <2>3. /\ Line(Append(d.unsent, s), m, SegEnd(s)) /\ Grows(d.unsent, Append(d.unsent, s))
    BY <2>2, AppendLine
  <2>4. r.snd_lbb \in {d.snd_lbb, d.snd_lbb + 1}
    BY <2>1
  <2> QED BY <2>1, <2>2, <2>3, <2>4 DEF r
<1>2. CASE JoinsLast(d)
  <2> DEFINE n == Len(d.unsent)
             last == Last(d.unsent)
             s == [last EXCEPT !.fin = TRUE]
  <2>1. r.unsent = [d.unsent EXCEPT ![n] = s] /\ r.snd_lbb = d.snd_lbb
    BY <1>2, SendFinKeeps
  <2>2. d.unsent # <<>> /\ ~last.syn /\ ~last.fin
    BY <1>2 DEF JoinsLast
  <2>3. /\ last \in Segs /\ SegEnd(last) = d.snd_lbb /\ Line(Front(d.unsent), m, last.seq)
    BY <2>2, LineLast
  <2> HIDE DEF r, last
  <2>4. s \in Segs /\ s.seq = last.seq /\ s.data = last.data /\ s.fin = TRUE
    BY <2>3 DEF Segs
  <2> HIDE DEF s
  <2>5. SegEnd(s) = d.snd_lbb + 1 /\ TcpLen(s) >= 1
    <3>1. Len(last.data) \in Nat /\ last.seq \in Int /\ SegEnd(last) = last.seq + TcpLen(last)
      BY <2>3, SegmentFacts
    <3>2. TcpLen(s) = Len(last.data) + 1
      BY <2>4 DEF TcpLen
    <3>3. TcpLen(last) = Len(last.data) + 0
      BY <2>2 DEF TcpLen
    <3>4. SegEnd(s) = last.seq + TcpLen(s)
      BY <2>4 DEF SegEnd
    <3> QED BY <2>3, <3>1, <3>2, <3>3, <3>4
  <2>6. r.unsent = Front(d.unsent) \o <<s>>
    <3> DEFINE p == Front(d.unsent)
               o == p \o <<s>>
    <3>1. /\ n \in Nat \ {0} /\ p \in Seq(Segs) /\ Len(p) = n - 1
          /\ \A i \in 1 .. n - 1 : p[i] = d.unsent[i]
      BY <1>0, <2>2, LastFacts
    <3>2. <<s>> \in Seq(Segs) /\ Len(<<s>>) = 1 /\ <<s>>[1] = s
      BY <2>4, OneSeq
    <3> HIDE DEF p
    <3>3. /\ o \in Seq(Segs) /\ Len(o) = (n - 1) + 1
          /\ \A i \in 1 .. (n - 1) + 1 : o[i] = IF i <= n - 1 THEN p[i] ELSE <<s>>[i - (n - 1)]
      <4> DEFINE w == <<s>>
      <4>1. w \in Seq(Segs) /\ Len(w) = 1
        BY <3>2
      <4> HIDE DEF w
      <4>2. /\ p \o w \in Seq(Segs) /\ Len(p \o w) = Len(p) + Len(w)
            /\ \A i \in 1 .. Len(p) + Len(w) :
                  (p \o w)[i] = IF i <= Len(p) THEN p[i] ELSE w[i - Len(p)]
        BY <3>1, <4>1, ConcatProperties
      <4>3. /\ p \o w \in Seq(Segs) /\ Len(p \o w) = (n - 1) + 1
            /\ \A i \in 1 .. (n - 1) + 1 :
                  (p \o w)[i] = IF i <= n - 1 THEN p[i] ELSE w[i - (n - 1)]
        BY <4>1, <4>2, <3>1
      <4> QED BY <4>3 DEF w
    <3>4. n \in 1 .. Len(d.unsent)
      BY <3>1
    <3>5. /\ r.unsent \in Seq(Segs) /\ Len(r.unsent) = n
          /\ \A i \in 1 .. n : r.unsent[i] = IF i = n THEN s ELSE d.unsent[i]
      BY <1>0, <2>1, <2>4, <3>4, ExceptSeq
    <3> HIDE DEF o, n
    <3>6. Len(o) = n
      BY <3>1, <3>3
    <3>7. \A i \in 1 .. n : r.unsent[i] = o[i]
      <4> SUFFICES ASSUME NEW i \in 1 .. n PROVE r.unsent[i] = o[i]
        OBVIOUS
      <4>1. i \in 1 .. (n - 1) + 1
        BY <3>1
      <4>2. CASE i = n
        <5>1. ~(i <= n - 1) /\ i - (n - 1) = 1
          BY <3>1, <4>2
        <5> QED BY <3>2, <3>3, <3>5, <4>1, <4>2, <5>1
      <4>3. CASE i # n
        <5>1. i <= n - 1 /\ i \in 1 .. n - 1
          BY <3>1, <4>3
        <5> QED BY <3>1, <3>3, <3>5, <4>1, <4>3, <5>1
      <4> QED BY <4>2, <4>3
    <3>8. r.unsent = o
      BY <3>3, <3>5, <3>6, <3>7, SeqEqual
    <3> QED BY <3>8 DEF o, p
  <2>7. Line(<<s>>, last.seq, d.snd_lbb + 1)
    BY <2>4, <2>5, LineOne
  <2>8. Line(r.unsent, m, d.snd_lbb + 1)
    BY <2>3, <2>6, <2>7, LineJoin
  <2>9. Grows(d.unsent, r.unsent)
    <3>1. SegEnd(Last(d.unsent)) <= SegEnd(s)
      BY <1>0, <2>3, <2>5 DEF last
    <3> QED BY <3>1, <1>0, <2>2, <2>4, <2>6, GrowsLast
  <2>10. r.snd_lbb \in {d.snd_lbb, d.snd_lbb + 1}
    BY <2>1
  <2> QED BY <2>8, <2>9, <2>10 DEF r
<1> QED BY <1>1, <1>2

-----------------------------------------------------------------------------
(* The queues of a sender: what is not acknowledged is on unacked and then  *)
(* on unsent, from b to t, and t is the end of all that was written.        *)
Opens == {"SYN_SENT", "SYN_RCVD", "ESTABLISHED", "CLOSE_WAIT"}
Syn == {"SYN_SENT", "SYN_RCVD"}
Limits(d, b, t) ==
  /\ b <= d.lastack /\ d.lastack <= t /\ d.snd_nxt <= t
  /\ t \in {d.snd_lbb, d.snd_lbb + 1}
  /\ d.state \in Opens => t = d.snd_lbb
  /\ d.state \in Syn => b = 1 /\ d.lastack = 1 /\ t = 2
Queues(d, b, m, t) ==
  /\ Line(d.unacked, b, m) /\ Line(d.unsent, m, t) /\ Limits(d, b, t)
  /\ d.unacked # <<>> => d.lastack < SegEnd(d.unacked[1])
  /\ d.unacked = <<>> /\ d.unsent # <<>> => d.lastack < SegEnd(d.unsent[1])
  /\ d.unacked = <<>> /\ d.unsent = <<>> => d.lastack = t
Ordered(d) == \E b, m, t : Queues(d, b, m, t)

(* After a fast retransmission: the first segment is back on unsent.       *)
Again(d, b, c, m, t) ==
  /\ d.unsent # <<>> /\ Head(d.unsent) = d.unsent[1]
  /\ Line(<<Head(d.unsent)>>, b, c) /\ c = SegEnd(Head(d.unsent)) /\ Head(d.unsent).seq = b
  /\ Line(d.unacked, c, m) /\ Line(Tail(d.unsent), m, t)
  /\ d.unsent = <<Head(d.unsent)>> \o Tail(d.unsent)
  /\ d.lastack < c /\ Limits(d, b, t)
Ahead(d) == \E b, c, m, t : Again(d, b, c, m, t)

SenderFields == {"lastack", "snd_nxt", "snd_lbb", "unsent", "unacked"}

LEMMA Framed ==
  ASSUME NEW d, NEW r, NEW S, Same(d, r, S), S \cap SenderFields = {},
         r.state \in Opens => d.state \in Opens, r.state \in Syn => d.state \in Syn
  PROVE  (Ordered(d) => Ordered(r)) /\ (Ahead(d) => Ahead(r))
<1>1. /\ r.lastack = d.lastack /\ r.snd_nxt = d.snd_nxt /\ r.snd_lbb = d.snd_lbb
      /\ r.unsent = d.unsent /\ r.unacked = d.unacked
  BY DEF Same, SenderFields, Fields, PcbFields
<1>2. \A b, t : Limits(d, b, t) => Limits(r, b, t)
  BY <1>1 DEF Limits
<1>3. \A b, m, t : Queues(d, b, m, t) => Queues(r, b, m, t)
  BY <1>1, <1>2 DEF Queues
<1>4. \A b, c, m, t : Again(d, b, c, m, t) => Again(r, b, c, m, t)
  BY <1>1, <1>2 DEF Again
<1> QED BY <1>3, <1>4 DEF Ordered, Ahead

(* The same, when the state is left alone.                                  *)
LEMMA FramedSame ==
  ASSUME NEW d, NEW r, NEW S, Same(d, r, S), S \cap (SenderFields \cup {"state"}) = {}
  PROVE  (Ordered(d) => Ordered(r)) /\ (Ahead(d) => Ahead(r)) /\ r.state = d.state
<1>1. r.state = d.state
  BY DEF Same, Fields, PcbFields
<1>2. S \cap SenderFields = {}
  OBVIOUS
<1> QED BY <1>1, <1>2, Framed

LEMMA LineEmpty ==
  ASSUME NEW q, NEW b, NEW t, Line(q, b, t), q = <<>>
  PROVE  b = t
  BY DEF Line

LEMMA JustOrdered ==
  ASSUME NEW d, Ahead(d), d.unacked = <<>>
  PROVE  Ordered(d)
<1>1. PICK b, c, m, t : Again(d, b, c, m, t)
  BY DEF Ahead
<1>2. c = m
  BY <1>1 DEF Again, Line
<1>3. Line(d.unsent, b, t)
  <2>1. Line(<<Head(d.unsent)>>, b, c) /\ Line(Tail(d.unsent), c, t)
    BY <1>1, <1>2 DEF Again
  <2>2. Line(<<Head(d.unsent)>> \o Tail(d.unsent), b, t)
    BY <2>1, LineJoin
  <2> QED BY <2>2, <1>1 DEF Again
<1>4. Line(d.unacked, b, b)
  <2>1. b \in Int
    BY <1>3 DEF Line
  <2> QED BY <2>1, LineNone
<1>5. d.unsent # <<>> /\ d.lastack < SegEnd(d.unsent[1]) /\ Limits(d, b, t)
  BY <1>1 DEF Again
<1>6. Queues(d, b, b, t)
  BY <1>3, <1>4, <1>5 DEF Queues
<1> QED BY <1>6 DEF Ordered

LEMMA AheadOvertakes ==
  ASSUME NEW d, Ahead(d)
  PROVE  Ordered(d) \/ Overtaken(d)
<1>1. PICK b, c, m, t : Again(d, b, c, m, t)
  BY DEF Ahead
<1>2. CASE d.unacked = <<>>
  BY <1>2, JustOrdered
<1>3. CASE d.unacked # <<>>
  <2>1. Line(d.unacked, c, m) /\ Line(<<Head(d.unsent)>>, b, c)
    BY <1>1 DEF Again
  <2>2. d.unacked[1].seq = c /\ 1 \in DOMAIN d.unacked /\ c \in Int
    <3>1. d.unacked \in Seq(Segs) /\ c \in Int
      BY <2>1 DEF Line
    <3> QED BY <1>3, <2>1, <3>1 DEF Line
  <2>3. b < c
    <3>1. <<Head(d.unsent)>> # <<>>
      OBVIOUS
    <3> QED BY <2>1, <3>1, LineFacts
  <2>4. d.unsent[1].seq = b /\ 1 \in DOMAIN d.unsent
    <3>1. /\ d.unsent = <<Head(d.unsent)>> \o Tail(d.unsent)
          /\ <<Head(d.unsent)>> \in Seq(Segs) /\ Tail(d.unsent) \in Seq(Segs)
      BY <1>1, <2>1 DEF Again, Line
    <3>2. d.unsent \in Seq(Segs)
      BY <3>1, ConcatProperties
    <3> QED BY <1>1, <3>2 DEF Again
  <2>5. d.unsent[1].seq < d.unacked[1].seq
    BY <2>2, <2>3, <2>4
  <2> QED BY <2>2, <2>4, <2>5 DEF Overtaken
<1> QED BY <1>2, <1>3

(* The queue of unsent segments grows at its end.                           *)
LEMMA Extended ==
  ASSUME NEW d, NEW r, NEW b, NEW m, NEW t, NEW u, Typed(d), Queues(d, b, m, t),
         r.unacked = d.unacked, r.lastack = d.lastack, r.snd_nxt = d.snd_nxt,
         Line(r.unsent, m, u), t <= u, Grows(d.unsent, r.unsent), u \in {r.snd_lbb, r.snd_lbb + 1},
         r.state \in Opens => u = r.snd_lbb, r.state \notin Syn
  PROVE  Ordered(r)
<1>1. d.lastack \in Int /\ d.snd_nxt \in Int
  BY DEF Typed, PcbTyped
<1>2. b \in Int /\ m \in Int /\ t \in Int /\ u \in Int
  BY DEF Queues, Line
<1>3. Limits(r, b, u)
  BY <1>1, <1>2 DEF Queues, Limits
<1>4. d.unacked = <<>> /\ r.unsent # <<>> => d.lastack < SegEnd(r.unsent[1])
  <2> SUFFICES ASSUME d.unacked = <<>>, r.unsent # <<>> PROVE d.lastack < SegEnd(r.unsent[1])
    OBVIOUS
  <2>1. b = m
    BY DEF Queues, Line
  <2>2. 1 \in 1 .. Len(r.unsent) /\ SegEnd(r.unsent[1]) \in Int /\ m < SegEnd(r.unsent[1])
    <3>1. Len(r.unsent) \in Nat /\ Len(r.unsent) >= 1
      BY LineFacts
    <3>2. 1 \in 1 .. Len(r.unsent)
      BY <3>1
    <3>3. /\ m <= r.unsent[1].seq /\ r.unsent[1].seq < SegEnd(r.unsent[1])
          /\ r.unsent[1].seq \in Int /\ SegEnd(r.unsent[1]) \in Int
      BY <3>2, LineFacts
    <3> QED BY <3>2, <3>3, <1>2
  <2>3. CASE d.unsent = <<>>
    <3>1. m = t /\ d.lastack = t
      BY <2>3 DEF Queues, Line
    <3> QED BY <3>1, <2>2
  <2>4. CASE d.unsent # <<>>
    <3>1. d.lastack < SegEnd(d.unsent[1]) /\ SegEnd(d.unsent[1]) <= SegEnd(r.unsent[1])
      BY <2>4 DEF Queues, Grows
    <3>2. SegEnd(d.unsent[1]) \in Int
      <4>1. Line(d.unsent, m, t)
        BY DEF Queues
      <4>2. Len(d.unsent) \in Nat /\ Len(d.unsent) >= 1
        BY <2>4, <4>1, LineFacts
      <4>3. 1 \in 1 .. Len(d.unsent)
        BY <4>2
      <4> QED BY <4>1, <4>3, LineFacts
    <3> QED BY <3>1, <3>2, <2>2, <1>1
  <2> QED BY <2>3, <2>4
<1>5. d.unacked = <<>> /\ r.unsent = <<>> => d.lastack = u
  <2> SUFFICES ASSUME d.unacked = <<>>, r.unsent = <<>> PROVE d.lastack = u
    OBVIOUS
  <2>1. m = u /\ b = m /\ Line(d.unsent, m, t)
    <3>1. Line(d.unacked, b, m) /\ Line(d.unsent, m, t)
      BY DEF Queues
    <3>2. b = m
      BY <3>1, LineEmpty
    <3>3. m = u
      BY LineEmpty
    <3> QED BY <3>1, <3>2, <3>3
  <2>2. m <= t
    BY <2>1, LineFacts
  <2>3. t = m
    BY <2>1, <2>2, <1>2, LineFacts
  <2>4. b <= d.lastack /\ d.lastack <= t
    BY DEF Queues, Limits
  <2> QED BY <1>1, <1>2, <2>1, <2>3, <2>4
<1>6. Queues(r, b, m, u)
  BY <1>3, <1>4, <1>5 DEF Queues
<1> QED BY <1>6 DEF Ordered

-----------------------------------------------------------------------------
(* What an acknowledgement takes off a queue.                               *)
LEMMA DropLine ==
  ASSUME NEW q, NEW b, NEW t, NEW x \in Int, NEW p, Line(q, b, t), Dropped(q, x, p)
  PROVE  \E c : /\ Line(p, c, t) /\ (c = b \/ c <= x)
                /\ p # <<>> => x < SegEnd(p[1])
                /\ p = <<>> => c = t
<1> DEFINE n == Run(q, {i \in DOMAIN q : SegEnd(q[i]) <= x})
           c == Mark(q, n, t)
<1>1. /\ n \in 0 .. Len(q) /\ p = Behind(q, n)
      /\ \A i \in 1 .. n : SegEnd(q[i]) <= x
      /\ n < Len(q) => ~(SegEnd(q[n + 1]) <= x)
  BY DEF Dropped
<1> HIDE DEF n
<1>2. q \in Seq(Segs) /\ Len(q) \in Nat
  BY LineFacts
<1>3. Line(p, c, t) /\ (n = 0 => c = b) /\ (n > 0 => c = SegEnd(q[n]))
  BY <1>1, LineSplit
<1> HIDE DEF c
<1>4. c = b \/ c <= x
  <2>1. CASE n = 0
    BY <1>3, <2>1
  <2>2. CASE n > 0
    <3>1. n \in 1 .. n
      BY <1>1, <1>2, <2>2
    <3> QED BY <1>1, <1>3, <2>2, <3>1
  <2> QED BY <1>1, <1>2, <2>1, <2>2
<1>5. p # <<>> => x < SegEnd(p[1])
  <2> SUFFICES ASSUME p # <<>> PROVE x < SegEnd(p[1])
    OBVIOUS
  <2>1. Len(p) = Len(q) - n /\ \A i \in 1 .. Len(q) - n : p[i] = q[n + i]
    BY <1>1, <1>2, BehindFacts
  <2>2. Len(p) >= 1
    BY <1>3, LineFacts
  <2>3. n < Len(q) /\ 1 \in 1 .. Len(q) - n /\ n + 1 \in 1 .. Len(q)
    BY <1>1, <1>2, <2>1, <2>2
  <2>4. p[1] = q[n + 1] /\ SegEnd(q[n + 1]) \in Int
    BY <2>1, <2>3, LineFacts
  <2> QED BY <1>1, <2>3, <2>4
<1>6. p = <<>> => c = t
  BY <1>3, LineEmpty
<1> QED BY <1>3, <1>4, <1>5, <1>6

LEMMA DropNothing ==
  ASSUME NEW q, NEW b, NEW t, NEW x \in Int, NEW p, Line(q, b, t), Dropped(q, x, p),
         q # <<>> => x < SegEnd(q[1])
  PROVE  p = q
<1> DEFINE n == Run(q, {i \in DOMAIN q : SegEnd(q[i]) <= x})
<1>1. /\ n \in 0 .. Len(q) /\ p = Behind(q, n)
      /\ \A i \in 1 .. n : SegEnd(q[i]) <= x
  BY DEF Dropped
<1> HIDE DEF n
<1>2. q \in Seq(Segs) /\ Len(q) \in Nat /\ (q = <<>> => Len(q) = 0)
  BY LineFacts
<1>3. n = 0
  <2> SUFFICES ASSUME n # 0 PROVE FALSE
    OBVIOUS
  <2>1. 1 \in 1 .. n /\ 1 \in 1 .. Len(q) /\ q # <<>>
    BY <1>1, <1>2
  <2>2. SegEnd(q[1]) <= x /\ x < SegEnd(q[1]) /\ SegEnd(q[1]) \in Int
    BY <1>1, <2>1, LineFacts
  <2> QED BY <2>2
<1>4. /\ p \in Seq(Segs) /\ Len(p) = Len(q)
      /\ \A i \in 1 .. Len(q) : p[i] = q[i]
  <2>1. 0 \in 0 .. Len(q)
    BY <1>2
  <2>2. /\ p \in Seq(Segs) /\ Len(p) = Len(q) - 0
        /\ \A i \in 1 .. Len(q) - 0 : p[i] = q[0 + i]
    BY <1>1, <1>2, <1>3, <2>1, BehindFacts
  <2>3. \A i \in 1 .. Len(q) : p[i] = q[i]
    <3> SUFFICES ASSUME NEW i \in 1 .. Len(q) PROVE p[i] = q[i]
      OBVIOUS
    <3>1. i \in 1 .. Len(q) - 0 /\ 0 + i = i
      BY <1>2
    <3> QED BY <2>2, <3>1
  <2> QED BY <1>2, <2>2, <2>3
<1> QED BY <1>2, <1>4, SeqEqual

-----------------------------------------------------------------------------
(* tcp_output moves segments from unsent to unacked, in order; after a fast *)
(* retransmission the one that is sent again goes to the front.             *)
LEMMA SendNextOrdered ==
  ASSUME NEW d, Typed(d), Ordered(d)
  PROVE  Ordered(SendNext(d))
<1> DEFINE r == SendNext(d)
           s == Head(d.unsent)
           e == SegEnd(s)
<1>0. Typed(r) /\ Same(d, r, OutputFields) /\ (Stops(d) \/ Refused(d) => r = d)
      /\ (~Stops(d) /\ ~Refused(d) => SentOne(d, r))
  BY SendNextKeeps
<1> HIDE DEF r
<1>1. CASE Stops(d) \/ Refused(d)
  BY <1>0, <1>1 DEF r
<1>2. CASE ~Stops(d) /\ ~Refused(d)
  <2>1. PICK b, m, t : Queues(d, b, m, t)
    BY DEF Ordered
  <2>2. /\ d.unsent # <<>> /\ r.unsent = Tail(d.unsent)
        /\ r.snd_nxt = Max({d.snd_nxt, e}) /\ r.unacked = InOrder(d.unacked, s)
    BY <1>0, <1>2 DEF SentOne
  <2>3. Line(d.unacked, b, m) /\ Line(d.unsent, m, t) /\ Limits(d, b, t)
    BY <2>1 DEF Queues
  <2>4. /\ s \in Segs /\ s = d.unsent[1] /\ s.seq = m /\ m < e /\ e <= t
        /\ Line(<<s>>, m, e) /\ Line(Tail(d.unsent), e, t)
    BY <2>2, <2>3, LineFirst
  <2>5. b \in Int /\ m \in Int /\ t \in Int /\ e \in Int
    <3>1. e \in Int
      BY <2>4, SegmentFacts
    <3> QED BY <2>3, <3>1 DEF Line
  <2> HIDE DEF s, e
  <2>6. r.unacked = d.unacked \o <<s>>
    <3>1. d.unacked \in Seq(Segs)
      BY <2>3, LineFacts
    <3>2. \A i \in 1 .. Len(d.unacked) : d.unacked[i].seq < s.seq
      <4> SUFFICES ASSUME NEW i \in 1 .. Len(d.unacked) PROVE d.unacked[i].seq < s.seq
        OBVIOUS
      <4>1. /\ d.unacked[i].seq \in Int /\ SegEnd(d.unacked[i]) \in Int
            /\ d.unacked[i].seq < SegEnd(d.unacked[i]) /\ SegEnd(d.unacked[i]) <= m
        BY <2>3, LineFacts
      <4> QED BY <4>1, <2>4, <2>5
    <3> QED BY <2>2, <2>4, <3>1, <3>2, InOrderLast
  <2>7. Line(r.unacked, b, e) /\ Line(r.unsent, e, t)
    <3>1. Line(d.unacked \o <<s>>, b, e)
      BY <2>3, <2>4, LineJoin
    <3> QED BY <2>2, <2>4, <2>6, <3>1
  <2>8. r.lastack = d.lastack /\ r.snd_lbb = d.snd_lbb /\ r.state = d.state
    BY <1>0 DEF Same, OutputFields, Fields, PcbFields
  <2>9. d.snd_nxt \in Int /\ r.snd_nxt <= t
    <3>1. d.snd_nxt \in Int /\ d.snd_nxt <= t
      BY <2>3 DEF Typed, PcbTyped, Limits
    <3> QED BY <3>1, <2>2, <2>4, <2>5, MaxOf
  <2>10. Limits(r, b, t)
    BY <2>3, <2>8, <2>9 DEF Limits
  <2>11. r.unacked # <<>> /\ d.lastack < SegEnd(r.unacked[1])
    <3>1. CASE d.unacked = <<>>
      <4>1. r.unacked = <<s>>
        <5>1. r.unacked = <<>> \o <<s>> /\ <<s>> \in Seq(Segs)
          BY <2>4, <2>6, <3>1
        <5> QED BY <5>1, ConcatEmptySeq
      <4>2. d.lastack < SegEnd(d.unsent[1])
        BY <2>1, <2>2, <3>1 DEF Queues
      <4> QED BY <2>4, <4>1, <4>2
    <3>2. CASE d.unacked # <<>>
      <4>1. d.lastack < SegEnd(d.unacked[1])
        BY <2>1, <3>2 DEF Queues
      <4>2. d.unacked \in Seq(Segs) /\ Len(d.unacked) \in Nat /\ Len(d.unacked) >= 1
        BY <2>3, <3>2, LineFacts
      <4>3. /\ <<s>> \in Seq(Segs) /\ Len(<<s>>) = 1
        BY <2>4, OneSeq
      <4>4. 1 \in 1 .. Len(d.unacked) + Len(<<s>>) /\ 1 <= Len(d.unacked)
        BY <4>2, <4>3
      <4>5. r.unacked[1] = d.unacked[1]
        BY <2>6, <4>2, <4>3, <4>4, ConcatProperties
      <4>6. r.unacked # <<>>
        <5>1. Len(r.unacked) = Len(d.unacked) + Len(<<s>>)
          BY <2>6, <4>2, <4>3, ConcatProperties
        <5>2. Len(r.unacked) # 0
          BY <4>2, <4>3, <5>1
        <5> QED BY <5>2
      <4> QED BY <4>1, <4>5, <4>6
    <3> QED BY <3>1, <3>2
  <2>12. Queues(r, b, e, t)
    BY <2>7, <2>8, <2>10, <2>11 DEF Queues
  <2> QED BY <2>12 DEF Ordered, r
<1> QED BY <1>1, <1>2

LEMMA SendNextAhead ==
  ASSUME NEW d, Typed(d), Ahead(d)
  PROVE  Ordered(SendNext(d)) \/ Ahead(SendNext(d))
<1> DEFINE r == SendNext(d)
           s == Head(d.unsent)
<1>0. Typed(r) /\ Same(d, r, OutputFields) /\ (Stops(d) \/ Refused(d) => r = d)
      /\ (~Stops(d) /\ ~Refused(d) => SentOne(d, r))
  BY SendNextKeeps
<1> HIDE DEF r
<1>1. CASE Stops(d) \/ Refused(d)
  BY <1>0, <1>1 DEF r
<1>2. CASE ~Stops(d) /\ ~Refused(d)
  <2>1. PICK b, c, m, t : Again(d, b, c, m, t)
    BY DEF Ahead
  <2>2. /\ r.unsent = Tail(d.unsent) /\ r.snd_nxt = Max({d.snd_nxt, SegEnd(s)})
        /\ r.unacked = InOrder(d.unacked, s)
    BY <1>0, <1>2 DEF SentOne
  <2>3. /\ Line(<<s>>, b, c) /\ c = SegEnd(s) /\ s.seq = b /\ Line(d.unacked, c, m)
        /\ Line(r.unsent, m, t) /\ Limits(d, b, t) /\ d.lastack < c
    BY <2>1, <2>2 DEF Again
  <2> HIDE DEF s
  <2>4. b \in Int /\ c \in Int /\ m \in Int /\ t \in Int /\ b < c /\ c <= m /\ m <= t
    <3>1. <<s>> # <<>>
      OBVIOUS
    <3> QED BY <2>3, <3>1, LineFacts
  <2>5. s \in Segs
    <3>1. <<s>> \in Seq(Segs)
      BY <2>3, LineFacts
    <3> QED BY <3>1, LenProperties
  <2>6. r.unacked = <<s>> \o d.unacked
    <3>1. d.unacked \in Seq(Segs)
      BY <2>3, LineFacts
    <3>2. d.unacked # <<>> => ~(d.unacked[1].seq < s.seq)
      <4>1. d.unacked # <<>> => d.unacked[1].seq = c
        BY <2>3 DEF Line
      <4> QED BY <2>3, <2>4, <4>1
    <3> QED BY <2>2, <2>5, <3>1, <3>2, InOrderFirst
  <2>7. Line(r.unacked, b, m)
    BY <2>3, <2>6, LineJoin
  <2>8. r.lastack = d.lastack /\ r.snd_lbb = d.snd_lbb /\ r.state = d.state
    BY <1>0 DEF Same, OutputFields, Fields, PcbFields
  <2>9. r.snd_nxt <= t
    <3>1. d.snd_nxt \in Int /\ d.snd_nxt <= t
      BY <2>3 DEF Typed, PcbTyped, Limits
    <3>2. SegEnd(s) \in Int /\ SegEnd(s) <= t
      BY <2>3, <2>4
    <3> HIDE DEF s
    <3> QED BY <2>2, <3>1, <3>2, MaxOf
  <2>10. Limits(r, b, t)
    BY <2>3, <2>8, <2>9 DEF Limits
  <2>11. r.unacked # <<>> /\ r.unacked[1] = s
    <3>1. /\ <<s>> \in Seq(Segs) /\ Len(<<s>>) = 1 /\ <<s>>[1] = s /\ d.unacked \in Seq(Segs)
          /\ Len(d.unacked) \in Nat
      BY <2>3, <2>5, OneSeq, LineFacts
    <3>2. 1 \in 1 .. Len(<<s>>) + Len(d.unacked) /\ 1 <= Len(<<s>>)
      BY <3>1
    <3>3. r.unacked[1] = <<s>>[1] /\ Len(r.unacked) = Len(<<s>>) + Len(d.unacked)
      BY <2>6, <3>1, <3>2, ConcatProperties
    <3>4. Len(r.unacked) # 0
      BY <3>1, <3>3
    <3> QED BY <3>1, <3>3, <3>4
  <2>12. Queues(r, b, m, t)
    BY <2>3, <2>7, <2>8, <2>10, <2>11 DEF Queues
  <2> QED BY <2>12 DEF Ordered, r
<1> QED BY <1>1, <1>2

EndFields == {"out", "rcv_ann_right_edge", "rtime", "held", "flags"}

LEMMA SendUnsentWorks ==
  ASSUME NEW d, Typed(d)
  PROVE  /\ Ordered(d) => Ordered(SendUnsent(d))
         /\ Ahead(d) => Ordered(SendUnsent(d)) \/ Ahead(SendUnsent(d))
<1> DEFINE k == Len(d.unsent)
<1>1. k \in Nat
  BY LenProperties DEF Typed, PcbTyped
<1>2. PICK turn :
        /\ turn[0] = d
        /\ \A n \in 1 .. k : turn[n] = SendNext(turn[n - 1])
        /\ SendUnsent(d) = EndTurns(turn[k])
  BY SendTurns
<1> HIDE DEF k
<1> DEFINE Good(x) == /\ Typed(x) /\ (Ordered(d) => Ordered(x))
                      /\ (Ahead(d) => Ordered(x) \/ Ahead(x))
           T == {n \in 0 .. k : Good(turn[n])}
<1>3. 0 \in T
  BY <1>1, <1>2
<1>4. ASSUME NEW n \in 0 .. k - 1, n \in T PROVE n + 1 \in T
  <2>1. Good(turn[n])
    BY <1>4
  <2>2. n + 1 \in 1 .. k /\ n + 1 \in 0 .. k /\ (n + 1) - 1 = n
    BY <1>1
  <2>3. turn[n + 1] = SendNext(turn[n])
    BY <1>2, <2>2
  <2>4. Good(turn[n + 1])
    <3>1. Typed(turn[n + 1])
      BY <2>1, <2>3, SendNextKeeps
    <3>2. Ordered(turn[n]) => Ordered(turn[n + 1])
      BY <2>1, <2>3, SendNextOrdered
    <3>3. Ahead(turn[n]) => Ordered(turn[n + 1]) \/ Ahead(turn[n + 1])
      BY <2>1, <2>3, SendNextAhead
    <3> QED BY <2>1, <3>1, <3>2, <3>3
  <2> QED BY <2>2, <2>4
<1>5. k \in T
  <2> HIDE DEF T
  <2>1. \A n \in 0 .. k : n \in T
    BY <1>1, <1>3, <1>4, Induction
  <2> QED BY <2>1, <1>1
<1>6. Good(turn[k])
  BY <1>5
<1>7. Same(turn[k], EndTurns(turn[k]), EndFields)
  BY <1>6, EndTurnsKeeps DEF EndFields
<1>8. EndFields \cap (SenderFields \cup {"state"}) = {}
  BY DEF EndFields, SenderFields
<1> DEFINE last == turn[k]
           r == EndTurns(last)
<1>9. Same(last, r, EndFields)
  BY <1>7
<1> HIDE DEF r
<1>10. (Ordered(last) => Ordered(r)) /\ (Ahead(last) => Ahead(r))
  BY <1>8, <1>9, FramedSame
<1> QED BY <1>2, <1>6, <1>10 DEF r

LEMMA OutputWorks ==
  ASSUME NEW d, Typed(d)
  PROVE  /\ Ordered(d) => Ordered(Output(d))
         /\ Ahead(d) => Ordered(Output(d)) \/ Ahead(Output(d))
<1>1. CASE Output(d) = d
  BY <1>1
<1>2. CASE Output(d) = SendUnsent(d)
  BY <1>2, SendUnsentWorks
<1>3. CASE Output(d) = SendEmptyAck(d)
  <2> DEFINE r == SendEmptyAck(d)
             S == {"out", "flags", "rcv_ann_right_edge"}
  <2>1. Same(d, r, S)
    BY EmptyAckKeeps
  <2>2. S \cap (SenderFields \cup {"state"}) = {}
    BY DEF SenderFields
  <2> HIDE DEF r, S
  <2>3. (Ordered(d) => Ordered(r)) /\ (Ahead(d) => Ahead(r))
    BY <2>1, <2>2, FramedSame
  <2> QED BY <2>3, <1>3 DEF r
<1> QED BY <1>1, <1>2, <1>3 DEF Output

-----------------------------------------------------------------------------
(* tcp_recved and what calls it.                                            *)
LEMMA RecvedOrdered ==
  ASSUME NEW d, NEW n \in Nat, Typed(d), Ordered(d)
  PROVE  Ordered(Recved(d, n))
<1> DEFINE c == Credited(d, n)
           u == UpdateAnnWnd(c)
           s == Set(u, {"ACK_NOW"})
<1>1. /\ Typed(c) /\ Same(d, c, {"rcv_wnd"})
      /\ Recved(d, n) = IF Inflation(c) >= UpdateThreshold THEN Output(s) ELSE u
  BY CreditedKeeps
<1> HIDE DEF c
<1>2. Typed(u) /\ Same(c, u, {"rcv_ann_wnd"})
  BY <1>1, UpdateAnnWndKeeps
<1> HIDE DEF u
<1>3. Typed(s) /\ Same(u, s, {"flags"})
  <2>1. {"ACK_NOW"} \in SUBSET Flags
    BY DEF Flags
  <2> QED BY <1>2, <2>1, FlagsKeep
<1> HIDE DEF s
<1>4. \A x \in {"rcv_wnd", "rcv_ann_wnd", "flags"} : {x} \cap (SenderFields \cup {"state"}) = {}
  BY DEF SenderFields
<1>5. Ordered(c)
  BY <1>1, <1>4, FramedSame
<1>6. Ordered(u)
  BY <1>2, <1>4, <1>5, FramedSame
<1>7. Ordered(s)
  BY <1>3, <1>4, <1>6, FramedSame
<1>8. Ordered(Output(s))
  BY <1>3, <1>7, OutputWorks
<1> QED BY <1>1, <1>6, <1>8

LEMMA RecvTcpOrdered ==
  ASSUME NEW d, NEW p \in Seq(Int), Typed(d), Ordered(d)
  PROVE  Ordered(RecvTcp(d, p))
<1>1. CASE RecvTcp(d, p) = d
  BY <1>1
<1>2. CASE RecvTcp(d, p) = Recved(d, Len(p))
  <2>1. Len(p) \in Nat
    BY LenProperties
  <2> QED BY <1>2, <2>1, RecvedOrdered
<1>3. CASE RecvTcp(d, p) = [d EXCEPT !.recvmbox = Append(@, p)]
  <2> DEFINE r == [d EXCEPT !.recvmbox = Append(@, p)]
  <2>1. Same(d, r, {"recvmbox"})
    BY DEF Same, Typed
  <2>2. {"recvmbox"} \cap (SenderFields \cup {"state"}) = {}
    BY DEF SenderFields
  <2> HIDE DEF r
  <2>3. Ordered(r)
    BY <2>1, <2>2, FramedSame
  <2> QED BY <2>3, <1>3 DEF r
<1>4. d.rcvopen \in BOOLEAN
  BY DEF Typed, ConnTyped
<1>5. CASE d.rcvopen
  BY <1>1, <1>3, <1>5 DEF RecvTcp
<1>6. CASE ~d.rcvopen
  BY <1>1, <1>2, <1>6 DEF RecvTcp
<1> QED BY <1>4, <1>5, <1>6

LEMMA EndOfStreamOrdered ==
  ASSUME NEW d, Typed(d), Ordered(d)
  PROVE  Ordered(EndOfStream(d))
<1> DEFINE a == [d EXCEPT !.rcv_wnd = IF @ = Wnd THEN @ ELSE Wrap(@ + 1)]
<1>1. Same(d, a, {"rcv_wnd"})
  BY DEF Same, Typed
<1>2. a.rcv_wnd \in Int
  <2>1. d.rcv_wnd \in Int /\ a.rcv_wnd = IF d.rcv_wnd = Wnd THEN d.rcv_wnd ELSE Wrap(d.rcv_wnd + 1)
    BY DEF Typed, PcbTyped, Fields, PcbFields
  <2>2. d.rcv_wnd + 1 \in Int
    BY <2>1
  <2> QED BY <2>1, <2>2, WrapType
<1>3. EndOfStream(d) = RecvTcp(a, <<>>)
  BY DEF EndOfStream
<1> HIDE DEF a
<1>4. Typed(a)
  <2>1. \A x \in {"rcv_wnd"} : IsTyped(x, a[x])
    BY <1>2 DEF IsTyped
  <2> QED BY <1>1, <2>1, Retyped
<1>5. {"rcv_wnd"} \cap (SenderFields \cup {"state"}) = {}
  BY DEF SenderFields
<1>6. Ordered(a)
  BY <1>1, <1>5, FramedSame
<1>7. <<>> \in Seq(Int)
  OBVIOUS
<1> QED BY <1>3, <1>4, <1>6, <1>7, RecvTcpOrdered

LEMMA ProcessRefusedOrdered ==
  ASSUME NEW d, Typed(d), Ordered(d)
  PROVE  Ordered(ProcessRefused(d))
<1> DEFINE a == [d EXCEPT !.refused_data = <<>>, !.refused_fin = FALSE]
           p == RecvTcp(a, d.refused_data)
           S == {"refused_data", "refused_fin"}
<1>1. Same(d, a, S)
  BY DEF Same, Typed
<1>2. a.refused_data = <<>> /\ a.refused_fin = FALSE /\ d.refused_data \in Seq(Int)
  BY DEF Typed, PcbTyped, Fields, PcbFields
<1>3. ProcessRefused(d) = IF d.refused_data = <<>> \/ ~Takes(d) THEN d
                          ELSE IF d.refused_fin THEN EndOfStream(p) ELSE p
  BY DEF ProcessRefused
<1> HIDE DEF a
<1>4. Typed(a)
  <2>1. <<>> \in Seq(Int)
    OBVIOUS
  <2>2. \A x \in S : IsTyped(x, a[x])
    BY <1>2, <2>1 DEF IsTyped
  <2> QED BY <1>1, <2>2, Retyped
<1>5. S \cap (SenderFields \cup {"state"}) = {}
  BY DEF SenderFields
<1> HIDE DEF S
<1>6. Ordered(a)
  BY <1>1, <1>5, FramedSame
<1>7. Typed(p) /\ Ordered(p)
  BY <1>2, <1>4, <1>6, RecvTcpKeeps, RecvTcpOrdered
<1> HIDE DEF p
<1>8. Ordered(EndOfStream(p))
  BY <1>7, EndOfStreamOrdered
<1> QED BY <1>3, <1>7, <1>8

LEMMA DrainOrdered ==
  ASSUME NEW d, Typed(d), Ordered(d)
  PROVE  Ordered(Drain(d))
<1> DEFINE k == Len(d.recvmbox)
<1>0. d.recvmbox \in Seq(Seq(Int)) /\ k \in Nat
  BY LenProperties DEF Typed, ConnTyped
<1>1. PICK read :
            /\ read[0] = d
            /\ \A n \in 1 .. k : read[n] = ReadOne(read[n - 1], d.recvmbox[n])
            /\ Drain(d) = Drained(read[k])
  BY DrainReads
<1> DEFINE T == {n \in 0 .. k : Typed(read[n]) /\ Ordered(read[n])}
<1>2. \A n \in 1 .. k : d.recvmbox[n] \in Seq(Int)
  BY <1>0, ElementOfSeq
<1> HIDE DEF k
<1>3. 0 \in T
  BY <1>0, <1>1
<1>4. ASSUME NEW n \in 0 .. k - 1, n \in T PROVE n + 1 \in T
  <2>1. Typed(read[n]) /\ Ordered(read[n])
    BY <1>4
  <2>2. n + 1 \in 1 .. k /\ n + 1 \in 0 .. k /\ (n + 1) - 1 = n
    BY <1>0
  <2> DEFINE x == read[n]
             p == d.recvmbox[n + 1]
  <2>3. read[n + 1] = ReadOne(x, p) /\ p \in Seq(Int)
    BY <1>1, <1>2, <2>2
  <2>4. Typed(x) /\ Ordered(x)
    BY <2>1
  <2> HIDE DEF x, p
  <2>5. Len(p) \in Nat
    BY <2>3, LenProperties
  <2>6. Typed(Recved(x, Len(p))) /\ Ordered(Recved(x, Len(p)))
    BY <2>4, <2>5, RecvedKeeps, RecvedOrdered
  <2>7. Typed(ReadOne(x, p)) /\ Ordered(ReadOne(x, p))
    BY <2>4, <2>6 DEF ReadOne
  <2> QED BY <2>2, <2>3, <2>7
<1>5. k \in T
  <2> HIDE DEF T
  <2>1. \A n \in 0 .. k : n \in T
    BY <1>0, <1>3, <1>4, Induction
  <2> QED BY <2>1, <1>0
<1> DEFINE last == read[k]
           r == Drained(last)
           S == {"recvmbox", "rcvopen"}
<1>6. Typed(last) /\ Ordered(last)
  BY <1>5
<1> HIDE DEF last
<1>7. Same(last, r, S)
  BY <1>6 DEF Drained, Same, Typed
<1>8. S \cap (SenderFields \cup {"state"}) = {}
  BY DEF SenderFields
<1> HIDE DEF r, S
<1>9. Ordered(r)
  BY <1>6, <1>7, <1>8, FramedSame
<1> QED BY <1>1, <1>9 DEF r, last

-----------------------------------------------------------------------------
(* The netconn's application is in the middle of something only while the   *)
(* connection is open; what a handler leaves of the queues counts as long   *)
(* as the pcb is not about to be freed.                                     *)
AppOpen == {"open", "write", "written", "close", "took", "eof", "shut"}
AppOk(d) ==
  d.app \in AppOpen => d.state \in {"ESTABLISHED", "CLOSE_WAIT"} /\ "CLOSED" \notin d.recv_flags
Sound(d) == d.state \in Active /\ "CLOSED" \notin d.recv_flags => Ordered(d)

WriteFields == OutputFields \cup {"snd_lbb", "snd_buf", "left", "app"}

LEMMA WriteMoreWorks ==
  ASSUME NEW d, Typed(d), d.state \in {"ESTABLISHED", "CLOSE_WAIT"}
  PROVE  /\ Typed(WriteMore(d)) /\ Same(d, WriteMore(d), WriteFields)
         /\ WriteMore(d).state = d.state /\ WriteMore(d).recv_flags = d.recv_flags
         /\ Ordered(d) => Ordered(WriteMore(d))
<1> DEFINE w == Written(d)
           r == Output(w)
           u == Units(d)
<1>1. /\ Typed(w) /\ Same(d, w, {"unsent", "snd_lbb", "snd_buf", "left", "app"})
      /\ WriteMore(d) = r
  BY WrittenKeeps
<1>2. PICK n : WrittenAs(d, u, n, w)
  BY WrittenKeeps
<1>3. u \in Seq(Int) /\ Len(u) \in Nat
  <2>1. u \in Seq(Int)
    BY UnitsFacts
  <2> HIDE DEF u
  <2> QED BY <2>1, LenProperties
<1> HIDE DEF u, w
<1>4. Typed(r) /\ Same(w, r, OutputFields)
  BY <1>1, OutputKeeps
<1>5. Ordered(w) => Ordered(r)
  BY <1>1, OutputWorks
<1> HIDE DEF r
<1>6. Same(d, r, WriteFields)
  <2> DEFINE S == {"unsent", "snd_lbb", "snd_buf", "left", "app"}
  <2>1. S \cup OutputFields \subseteq WriteFields
    BY DEF WriteFields, OutputFields
  <2>2. Same(d, w, S)
    BY <1>1
  <2> HIDE DEF S
  <2>3. Same(d, r, S \cup OutputFields)
    BY <1>4, <2>2, SameTwice
  <2> QED BY <2>1, <2>3, SameMore
<1>7. r.state = d.state /\ r.recv_flags = d.recv_flags
  BY <1>6 DEF Same, WriteFields, OutputFields, Fields, PcbFields, HandlerFields
<1>8. ASSUME Ordered(d) PROVE Ordered(w)
  <2>1. PICK b, m, t : Queues(d, b, m, t)
    BY <1>8 DEF Ordered
  <2>2. Line(d.unsent, m, t) /\ t = d.snd_lbb
    BY <2>1 DEF Queues, Limits, Opens
  <2>3. Line(w.unsent, m, w.snd_lbb) /\ Grows(d.unsent, w.unsent)
    BY <1>2, <1>3, <2>2, WrittenLine
  <2>4. w.snd_lbb = d.snd_lbb + Len(u)
    BY <1>2 DEF WrittenAs
  <2>5. t \in Int
    BY <2>2 DEF Line
  <2>6. w.unacked = d.unacked /\ w.lastack = d.lastack /\ w.snd_nxt = d.snd_nxt /\ w.state = d.state
    BY <1>1 DEF Same, Fields, PcbFields
  <2>7. w.state \notin Syn
    BY <2>6 DEF Syn
  <2> DEFINE e == w.snd_lbb
  <2>8. /\ Line(w.unsent, m, e) /\ t <= e /\ e \in {w.snd_lbb, w.snd_lbb + 1}
        /\ (w.state \in Opens => e = w.snd_lbb)
    BY <1>3, <2>2, <2>3, <2>4, <2>5
  <2> HIDE DEF e
  <2> QED BY <2>1, <2>3, <2>6, <2>7, <2>8, Extended
<1> QED BY <1>1, <1>4, <1>5, <1>6, <1>7, <1>8

LEMMA ClosedOrdered ==
  ASSUME NEW d, Typed(d), d.state \in {"ESTABLISHED", "CLOSE_WAIT"}, CanSendFin(d), Ordered(d)
  PROVE  Ordered(Closed(d))
<1> DEFINE c == Set(d, {"RXCLOSED"})
           f == SendFin(c)
           r == Closed(d)
<1>1. Typed(c) /\ Same(d, c, {"flags"})
  BY MarkedKeeps
<1>2. /\ Same(d, r, ClosedFields) /\ Same(f, r, {"state"})
      /\ r.state = IF d.state = "ESTABLISHED" THEN "FIN_WAIT_1" ELSE "LAST_ACK"
  BY ClosedKeeps
<1> HIDE DEF c, r
<1>3. CanSendFin(c)
  BY <1>1 DEF CanSendFin, JoinsLast, Same, Fields, PcbFields
<1>4. PICK b, m, t : Queues(d, b, m, t)
  BY DEF Ordered
<1>5. Line(d.unsent, m, t) /\ t = d.snd_lbb /\ t \in Int
  BY <1>4 DEF Queues, Limits, Opens, Line
<1>6. c.unsent = d.unsent /\ c.snd_lbb = d.snd_lbb
  BY <1>1 DEF Same, Fields, PcbFields
<1>7. /\ Line(f.unsent, m, c.snd_lbb + 1) /\ Grows(c.unsent, f.unsent)
      /\ f.snd_lbb \in {c.snd_lbb, c.snd_lbb + 1}
  BY <1>1, <1>3, <1>5, <1>6, SendFinLine
<1> HIDE DEF f
<1>8. r.unsent = f.unsent /\ r.snd_lbb = f.snd_lbb
  BY <1>2 DEF Same, Fields, PcbFields
<1>9. r.unacked = d.unacked /\ r.lastack = d.lastack /\ r.snd_nxt = d.snd_nxt
  BY <1>2 DEF Same, ClosedFields, Fields, PcbFields
<1>10. r.state \notin Opens /\ r.state \notin Syn
  BY <1>2 DEF Opens, Syn
<1> DEFINE e == t + 1
<1>11. Line(r.unsent, m, e) /\ t <= e /\ e \in {r.snd_lbb, r.snd_lbb + 1}
  <2>1. e = c.snd_lbb + 1 /\ t <= e
    BY <1>5, <1>6
  <2>2. e \in {r.snd_lbb, r.snd_lbb + 1}
    BY <2>1, <1>5, <1>6, <1>7, <1>8
  <2> QED BY <1>7, <1>8, <2>1, <2>2
<1>12. Grows(d.unsent, r.unsent)
  BY <1>6, <1>7, <1>8
<1> HIDE DEF e
<1>13. Ordered(r)
  BY <1>4, <1>9, <1>10, <1>11, <1>12, Extended
<1> QED BY <1>13 DEF r

LEMMA CloseInternalWorks ==
  ASSUME NEW d, Typed(d), d.state \in {"ESTABLISHED", "CLOSE_WAIT"}, "CLOSED" \notin d.recv_flags
  PROVE  /\ Typed(CloseInternal(d)) /\ Same(d, CloseInternal(d), CloseFields)
         /\ AppOk(CloseInternal(d))
         /\ Ordered(d) => Sound(CloseInternal(d))
         /\ ~d.input => CloseInternal(d).recv_flags = d.recv_flags
<1> DEFINE c == TcpClose(d)
           r == CloseInternal(d)
<1>1. Typed(c) /\ Same(d, c, CloseFields) /\ CloseAs(d, c)
  BY TcpCloseKeeps
<1>2. /\ Typed(r) /\ Same(c, r, {"app"}) /\ Same(d, r, CloseFields)
      /\ r.app = IF CanClose(d) THEN "done" ELSE "close"
  BY CloseInternalKeeps
<1> HIDE DEF c, r
<1>3. r.state = c.state /\ r.recv_flags = c.recv_flags
  BY <1>2 DEF Same, Fields, PcbFields, HandlerFields
<1>4. Ordered(c) => Ordered(r)
  <2>1. {"app"} \cap (SenderFields \cup {"state"}) = {}
    BY DEF SenderFields
  <2> QED BY <1>2, <2>1, FramedSame
<1>5. CASE Unread(d)
  <2>1. r.app = "done"
    BY <1>2, <1>5 DEF CanClose
  <2>2. AppOk(r)
    BY <2>1 DEF AppOk, AppOpen
  <2>3. CASE c.state \in {"TIME_WAIT", "CLOSED", "LISTEN"} /\ c.recv_flags = d.recv_flags
    <3>1. r.state \notin Active
      BY <1>3, <2>3 DEF Active
    <3> QED BY <1>2, <1>3, <2>2, <2>3, <3>1 DEF Sound, r
  <2>4. CASE d.input /\ c.recv_flags = d.recv_flags \cup {"CLOSED"}
    <3>1. "CLOSED" \in r.recv_flags
      BY <1>3, <2>4
    <3> QED BY <1>2, <2>2, <2>4, <3>1 DEF Sound, r
  <2>5. CanClose(d)
    BY <1>5 DEF CanClose
  <2> QED BY <1>1, <1>5, <2>3, <2>4, <2>5 DEF CloseAs
<1>6. CASE ~Unread(d) /\ CanSendFin(d)
  <2>0. r.app = "done"
    BY <1>2, <1>6 DEF CanClose
  <2>1. AppOk(r)
    BY <2>0 DEF AppOk, AppOpen
  <2>2. c = Output(Closed(d))
    BY <1>1, <1>6 DEF CloseAs, CanClose
  <2>3. Typed(Closed(d)) /\ Same(d, Closed(d), ClosedFields)
    BY <1>6, ClosedKeeps
  <2>4. Ordered(d) => Ordered(c)
    BY <1>6, <2>2, <2>3, ClosedOrdered, OutputWorks
  <2>5. Same(Closed(d), c, OutputFields)
    BY <2>2, <2>3, OutputKeeps
  <2>6. c.recv_flags = d.recv_flags
    BY <2>3, <2>5 DEF Same, ClosedFields, OutputFields, Fields, HandlerFields
  <2> QED BY <1>2, <1>3, <1>4, <2>1, <2>4, <2>6 DEF Sound, r
<1>7. CASE ~CanClose(d)
  <2>1. c = Set(d, {"RXCLOSED"})
    BY <1>1, <1>7 DEF CloseAs, CanClose
  <2>2. Same(d, c, {"flags"})
    BY <2>1, MarkedKeeps
  <2>3. c.state = d.state /\ c.recv_flags = d.recv_flags
    BY <2>2 DEF Same, Fields, PcbFields, HandlerFields
  <2>4. Ordered(d) => Ordered(c)
    <3>1. {"flags"} \cap (SenderFields \cup {"state"}) = {}
      BY DEF SenderFields
    <3> QED BY <2>2, <3>1, FramedSame
  <2>5. AppOk(r)
    BY <1>3, <2>3 DEF AppOk
  <2> QED BY <1>2, <1>3, <1>4, <2>3, <2>4, <2>5 DEF Sound, r
<1> QED BY <1>5, <1>6, <1>7 DEF CanClose

LEMMA SentWorks ==
  ASSUME NEW d, Typed(d), AppOk(d)
  PROVE  /\ Typed(Sent(d)) /\ Same(d, Sent(d), SentFields) /\ AppOk(Sent(d))
         /\ Sound(d) => Sound(Sent(d))
         /\ ~d.input => Sent(d).recv_flags = d.recv_flags
<1>0. Typed(Sent(d)) /\ Same(d, Sent(d), SentFields)
  BY SentKeeps
<1>1. CASE d.app = "write"
  <2>1. d.state \in {"ESTABLISHED", "CLOSE_WAIT"} /\ "CLOSED" \notin d.recv_flags
    BY <1>1 DEF AppOk, AppOpen
  <2>2. Sent(d) = WriteMore(d)
    BY <1>1 DEF Sent
  <2>3. /\ WriteMore(d).state = d.state /\ WriteMore(d).recv_flags = d.recv_flags
        /\ Ordered(d) => Ordered(WriteMore(d))
    BY <2>1, WriteMoreWorks
  <2>4. d.state \in Active
    BY <2>1 DEF Active
  <2> QED BY <1>0, <2>1, <2>2, <2>3, <2>4 DEF Sound, AppOk
<1>2. CASE d.app = "close"
  <2>1. d.state \in {"ESTABLISHED", "CLOSE_WAIT"} /\ "CLOSED" \notin d.recv_flags
    BY <1>2 DEF AppOk, AppOpen
  <2>2. Sent(d) = CloseInternal(d)
    BY <1>2 DEF Sent
  <2>3. d.state \in Active
    BY <2>1 DEF Active
  <2>4. Sound(d) => Ordered(d)
    BY <2>1, <2>3 DEF Sound
  <2> QED BY <1>0, <2>1, <2>2, <2>4, CloseInternalWorks
<1>3. CASE d.app \notin {"write", "close"}
  BY <1>0, <1>3 DEF Sent
<1> QED BY <1>1, <1>2, <1>3

-----------------------------------------------------------------------------
(* The acknowledgement part of tcp_receive.                                 *)
LEMMA ConsFacts ==
  ASSUME NEW T, NEW s \in T, NEW q \in Seq(T)
  PROVE  /\ <<s>> \o q \in Seq(T) /\ <<s>> \o q # <<>> /\ (<<s>> \o q)[1] = s
         /\ Head(<<s>> \o q) = s /\ Tail(<<s>> \o q) = q
<1> DEFINE w == <<s>>
           o == w \o q
<1>1. w \in Seq(T) /\ Len(w) = 1 /\ w[1] = s /\ Len(q) \in Nat
  BY OneSeq, LenProperties
<1> HIDE DEF w
<1>2. /\ o \in Seq(T) /\ Len(o) = Len(w) + Len(q)
      /\ \A i \in 1 .. Len(w) + Len(q) : o[i] = IF i <= Len(w) THEN w[i] ELSE q[i - Len(w)]
  BY <1>1, ConcatProperties
<1> HIDE DEF o
<1>3. Len(o) = Len(q) + 1 /\ o # <<>>
  BY <1>1, <1>2
<1>4. o[1] = s
  <2>1. 1 \in 1 .. Len(w) + Len(q) /\ 1 <= Len(w)
    BY <1>1
  <2> QED BY <1>1, <1>2, <2>1
<1>5. Head(o) = s
  BY <1>2, <1>3, <1>4
<1>6. Tail(o) = q
  <2>1. /\ Tail(o) \in Seq(T) /\ Len(Tail(o)) = Len(o) - 1
        /\ \A i \in 1 .. Len(Tail(o)) : Tail(o)[i] = o[i + 1]
    BY <1>2, <1>3, HeadTailProperties
  <2>2. Len(Tail(o)) = Len(q)
    BY <1>1, <1>3, <2>1
  <2>3. \A i \in 1 .. Len(q) : Tail(o)[i] = q[i]
    <3> SUFFICES ASSUME NEW i \in 1 .. Len(q) PROVE Tail(o)[i] = q[i]
      OBVIOUS
    <3>1. i + 1 \in 1 .. Len(w) + Len(q) /\ ~(i + 1 <= Len(w)) /\ (i + 1) - Len(w) = i
      BY <1>1
    <3>2. o[i + 1] = q[(i + 1) - Len(w)]
      BY <1>2, <3>1
    <3> QED BY <2>1, <2>2, <3>1, <3>2
  <2> QED BY <2>1, <2>2, <2>3, SeqEqual
<1> QED BY <1>2, <1>3, <1>4, <1>5, <1>6 DEF o, w

(* The first segment of a queue that is behind b goes back before it.      *)
LEMMA BackFirst ==
  ASSUME NEW d, NEW r, NEW S, Typed(d), Ordered(d), d.unacked # <<>>,
         Same(d, r, S), S \cap (SenderFields \cup {"state"}) = {"unsent", "unacked"},
         r.unsent = InOrder(d.unsent, Head(d.unacked)), r.unacked = Tail(d.unacked)
  PROVE  Ahead(r)
<1> DEFINE s == Head(d.unacked)
           c == SegEnd(s)
<1>1. PICK b, m, t : Queues(d, b, m, t)
  BY DEF Ordered
<1>2. Line(d.unacked, b, m) /\ Line(d.unsent, m, t) /\ Limits(d, b, t)
  BY <1>1 DEF Queues
<1>3. /\ s \in Segs /\ s = d.unacked[1] /\ s.seq = b /\ b < c /\ c <= m
      /\ Line(<<s>>, b, c) /\ Line(Tail(d.unacked), c, m)
  BY <1>2, LineFirst
<1>4. b \in Int /\ m \in Int /\ t \in Int /\ c \in Int /\ d.unsent \in Seq(Segs)
  <2>1. c \in Int
    BY <1>3, SegmentFacts
  <2> QED BY <2>1, <1>2 DEF Line
<1>5. d.lastack < c
  BY <1>1, <1>3 DEF Queues
<1> HIDE DEF c
<1>6. r.unsent = <<s>> \o d.unsent
  <2>1. d.unsent # <<>> => ~(d.unsent[1].seq < s.seq)
    <3>1. d.unsent # <<>> => d.unsent[1].seq = m
      BY <1>2 DEF Line
    <3> QED BY <1>3, <1>4, <3>1
  <2> HIDE DEF s
  <2>2. InOrder(d.unsent, s) = <<s>> \o d.unsent
    BY <2>1, <1>3, <1>4, InOrderFirst
  <2> QED BY <2>2 DEF s
<1> HIDE DEF s
<1>7. /\ r.unsent # <<>> /\ Head(r.unsent) = s /\ r.unsent[1] = s /\ Tail(r.unsent) = d.unsent
  BY <1>3, <1>4, <1>6, ConsFacts
<1>8. /\ r.lastack = d.lastack /\ r.snd_nxt = d.snd_nxt /\ r.snd_lbb = d.snd_lbb /\ r.state = d.state
  BY DEF Same, SenderFields, Fields, PcbFields
<1>9. Limits(r, b, t)
  BY <1>2, <1>8 DEF Limits
<1>10. c = SegEnd(s)
  BY DEF c
<1>11. Again(r, b, c, m, t)
  BY <1>2, <1>3, <1>5, <1>6, <1>7, <1>8, <1>9, <1>10 DEF Again
<1> QED BY <1>11 DEF Ahead

LEMMA OldAckWorks ==
  ASSUME NEW d, NEW m, NEW moved, Typed(d), Ordered(d)
  PROVE  Ordered(OldAck(d, m, moved)) \/ Ahead(OldAck(d, m, moved))
<1> DEFINE r == OldAck(d, m, moved)
<1>1. /\ Typed(r) /\ Same(d, r, OldAckFields)
      /\ \/ r.unsent = d.unsent /\ r.unacked = d.unacked
         \/ /\ d.unacked # <<>>
            /\ r.unsent = InOrder(d.unsent, Head(d.unacked)) /\ r.unacked = Tail(d.unacked)
  BY OldAckKeeps
<1> HIDE DEF r
<1>2. CASE r.unsent = d.unsent /\ r.unacked = d.unacked
  <2> DEFINE S == OldAckFields \ {"unsent", "unacked"}
  <2>1. Same(d, r, S)
    BY <1>1, <1>2 DEF Same
  <2>2. S \cap (SenderFields \cup {"state"}) = {}
    BY DEF SenderFields, OldAckFields
  <2> HIDE DEF S
  <2> QED BY <2>1, <2>2, FramedSame DEF r
<1>3. CASE /\ d.unacked # <<>>
           /\ r.unsent = InOrder(d.unsent, Head(d.unacked)) /\ r.unacked = Tail(d.unacked)
  <2>1. OldAckFields \cap (SenderFields \cup {"state"}) = {"unsent", "unacked"}
    BY DEF SenderFields, OldAckFields
  <2>2. Ahead(r)
    BY <1>1, <1>3, <2>1, BackFirst
  <2> QED BY <2>2 DEF r
<1> QED BY <1>1, <1>2, <1>3

(* Nothing is taken off unsent by an acknowledgement that is not new.       *)
LEMMA UnsentStays ==
  ASSUME NEW d, Typed(d), NEW x \in Int, x <= d.lastack
  PROVE  /\ Ordered(d) => Ordered(Acknowledge(d, "unsent", x))
         /\ Ahead(d) => Ahead(Acknowledge(d, "unsent", x))
<1> DEFINE r == Acknowledge(d, "unsent", x)
<1>1. Same(d, r, {"unsent", "acked"}) /\ Dropped(d.unsent, x, r.unsent)
  <2>1. "unsent" \in {"unacked", "unsent"} /\ d["unsent"] = d.unsent /\ r["unsent"] = r.unsent
    OBVIOUS
  <2> QED BY <2>1, AcknowledgeKeeps
<1> HIDE DEF r
<1>2. d.lastack \in Int
  BY DEF Typed, PcbTyped
<1>3. r.unsent = d.unsent => (Ordered(d) => Ordered(r)) /\ (Ahead(d) => Ahead(r))
  <2> SUFFICES ASSUME r.unsent = d.unsent PROVE (Ordered(d) => Ordered(r)) /\ (Ahead(d) => Ahead(r))
    OBVIOUS
  <2>1. Same(d, r, {"acked"})
    BY <1>1 DEF Same
  <2>2. {"acked"} \cap (SenderFields \cup {"state"}) = {}
    BY DEF SenderFields
  <2> QED BY <2>1, <2>2, FramedSame
<1>4. ASSUME Ordered(d) PROVE r.unsent = d.unsent
  <2>1. PICK b, m, t : Queues(d, b, m, t)
    BY <1>4 DEF Ordered
  <2>2. Line(d.unacked, b, m) /\ Line(d.unsent, m, t)
    BY <2>1 DEF Queues
  <2>3. ASSUME d.unsent # <<>> PROVE x < SegEnd(d.unsent[1])
    <3>1. Len(d.unsent) \in Nat /\ Len(d.unsent) >= 1
      BY <2>2, <2>3, LineFacts
    <3>2. 1 \in 1 .. Len(d.unsent)
      BY <3>1
    <3>3. /\ SegEnd(d.unsent[1]) \in Int /\ d.unsent[1].seq \in Int /\ m \in Int
          /\ m <= d.unsent[1].seq /\ d.unsent[1].seq < SegEnd(d.unsent[1])
      BY <2>2, <3>2, LineFacts
    <3>4. CASE d.unacked = <<>>
      <4>1. d.lastack < SegEnd(d.unsent[1])
        BY <2>1, <2>3, <3>4 DEF Queues
      <4> QED BY <1>2, <3>3, <4>1
    <3>5. CASE d.unacked # <<>>
      <4>1. d.lastack < SegEnd(d.unacked[1])
        BY <2>1, <3>5 DEF Queues
      <4>2. Len(d.unacked) \in Nat /\ Len(d.unacked) >= 1
        BY <2>2, <3>5, LineFacts
      <4>3. 1 \in 1 .. Len(d.unacked)
        BY <4>2
      <4>4. SegEnd(d.unacked[1]) \in Int /\ SegEnd(d.unacked[1]) <= m
        BY <2>2, <4>3, LineFacts
      <4> QED BY <1>2, <3>3, <4>1, <4>4
    <3> QED BY <3>4, <3>5
  <2> QED BY <1>1, <2>2, <2>3, DropNothing
<1>5. ASSUME Ahead(d) PROVE r.unsent = d.unsent
  <2>1. PICK b, c, m, t : Again(d, b, c, m, t)
    BY <1>5 DEF Ahead
  <2> DEFINE s == Head(d.unsent)
  <2>2. /\ d.unsent # <<>> /\ d.unsent[1] = s /\ Line(<<s>>, b, c) /\ c = SegEnd(s)
        /\ Line(d.unacked, c, m) /\ Line(Tail(d.unsent), m, t) /\ d.lastack < c
        /\ d.unsent = <<s>> \o Tail(d.unsent)
    BY <2>1 DEF Again
  <2> HIDE DEF s
  <2> DEFINE n == Run(d.unsent, {i \in DOMAIN d.unsent : SegEnd(d.unsent[i]) <= x})
             p == r.unsent
  <2>3. /\ n \in 0 .. Len(d.unsent) /\ p = Behind(d.unsent, n)
        /\ \A i \in 1 .. n : SegEnd(d.unsent[i]) <= x
    BY <1>1 DEF Dropped
  <2> HIDE DEF n, p
  <2>4. d.unsent \in Seq(Segs) /\ Len(d.unsent) \in Nat
    <3>1. d.unsent \in Seq(Segs)
      BY DEF Typed, PcbTyped
    <3> QED BY <3>1, LenProperties
  <2>5. n = 0
    <3>1. c \in Int
      BY <2>2 DEF Line
    <3>2. n # 0 => SegEnd(d.unsent[1]) <= x
      BY <2>3, <2>4
    <3> QED BY <1>2, <2>2, <2>3, <2>4, <3>1, <3>2
  <2>6. Behind(d.unsent, 0) = d.unsent
    <3> DEFINE q == d.unsent
               o == Behind(q, 0)
    <3>1. q \in Seq(Segs) /\ Len(q) \in Nat
      BY <2>4
    <3> HIDE DEF q
    <3>2. o \in Seq(Segs) /\ Len(o) = Len(q) - 0 /\ \A i \in 1 .. Len(q) - 0 : o[i] = q[0 + i]
      <4>1. 0 \in 0 .. Len(q)
        BY <3>1
      <4> QED BY <3>1, <4>1, BehindFacts
    <3> HIDE DEF o
    <3>3. Len(o) = Len(q)
      BY <3>1, <3>2
    <3>4. \A i \in 1 .. Len(q) : o[i] = q[i]
      <4> SUFFICES ASSUME NEW i \in 1 .. Len(q) PROVE o[i] = q[i]
        OBVIOUS
      <4>1. i \in 1 .. Len(q) - 0 /\ 0 + i = i
        BY <3>1
      <4> QED BY <3>2, <4>1
    <3>5. o = q
      BY <3>1, <3>2, <3>3, <3>4, SeqEqual
    <3> QED BY <3>5 DEF o, q
  <2> QED BY <2>3, <2>5, <2>6 DEF p
<1> QED BY <1>3, <1>4, <1>5 DEF r

LEMMA NewAckOrdered ==
  ASSUME NEW d, NEW m \in Messages, Typed(d), Ordered(d), d.state \notin Syn,
         d.lastack < m.ackno, m.ackno <= d.snd_nxt
  PROVE  Ordered(Acknowledge(NewAck(d, m), "unsent", m.ackno))
<1> DEFINE x == m.ackno
           a == NewAck(d, m)
           r == Acknowledge(a, "unsent", x)
<1>1. x \in Int /\ d.lastack \in Int /\ d.snd_nxt \in Int /\ d.snd_lbb \in Int /\ x > d.lastack
  <2>1. x \in Int
    BY MessageFacts
  <2>2. d.lastack \in Int /\ d.snd_nxt \in Int /\ d.snd_lbb \in Int
    BY DEF Typed, PcbTyped
  <2> QED BY <2>1, <2>2
<1>2. /\ Typed(a) /\ Same(d, a, NewAckFields) /\ Dropped(d.unacked, x, a.unacked) /\ a.lastack = x
  BY <1>1, NewAckKeeps
<1>3. d.lastack < x /\ x <= d.snd_nxt
  OBVIOUS
<1> HIDE DEF a, x
<1>4. /\ Same(a, r, {"unsent", "acked"}) /\ Dropped(a.unsent, x, r.unsent)
  <2>1. "unsent" \in {"unacked", "unsent"} /\ a["unsent"] = a.unsent /\ r["unsent"] = r.unsent
    OBVIOUS
  <2> QED BY <1>1, <1>2, <2>1, AcknowledgeKeeps
<1> HIDE DEF r
<1>5. /\ r.unacked = a.unacked /\ r.lastack = x /\ r.snd_nxt = d.snd_nxt
      /\ r.snd_lbb = d.snd_lbb /\ r.state = d.state /\ a.unsent = d.unsent
  BY <1>2, <1>4 DEF Same, NewAckFields, Fields, PcbFields
<1>6. PICK b, k, t : Queues(d, b, k, t)
  BY DEF Ordered
<1>7. /\ Line(d.unacked, b, k) /\ Line(d.unsent, k, t) /\ Limits(d, b, t)
  BY <1>6 DEF Queues
<1>8. /\ b \in Int /\ k \in Int /\ t \in Int /\ b <= d.lastack /\ d.snd_nxt <= t
  BY <1>7 DEF Limits, Line
<1>9. PICK c : /\ Line(a.unacked, c, k) /\ (c = b \/ c <= x)
               /\ a.unacked # <<>> => x < SegEnd(a.unacked[1])
               /\ a.unacked = <<>> => c = k
  BY <1>1, <1>2, <1>7, DropLine
<1>10. c \in Int /\ c <= x /\ x <= t
  <2>1. c \in Int
    BY <1>9 DEF Line
  <2> QED BY <2>1, <1>1, <1>3, <1>8, <1>9
<1>11. \A y \in Int : y <= x => Limits(r, y, t)
  BY <1>5, <1>7, <1>8, <1>10 DEF Limits
<1>12. CASE a.unacked # <<>>
  <2>1. x < SegEnd(a.unacked[1]) /\ SegEnd(a.unacked[1]) \in Int /\ SegEnd(a.unacked[1]) <= k
    <3>1. Len(a.unacked) \in Nat /\ Len(a.unacked) >= 1
      BY <1>9, <1>12, LineFacts
    <3>2. 1 \in 1 .. Len(a.unacked)
      BY <3>1
    <3> QED BY <1>9, <1>12, <3>2, LineFacts
  <2>2. ASSUME d.unsent # <<>> PROVE x < SegEnd(d.unsent[1])
    <3>1. Len(d.unsent) \in Nat /\ Len(d.unsent) >= 1
      BY <1>7, <2>2, LineFacts
    <3>2. 1 \in 1 .. Len(d.unsent)
      BY <3>1
    <3>3. /\ SegEnd(d.unsent[1]) \in Int /\ d.unsent[1].seq \in Int
          /\ k <= d.unsent[1].seq /\ d.unsent[1].seq < SegEnd(d.unsent[1])
      BY <1>7, <3>2, LineFacts
    <3> QED BY <1>1, <1>8, <2>1, <3>3
  <2>3. r.unsent = d.unsent
    BY <1>1, <1>4, <1>5, <1>7, <2>2, DropNothing
  <2>4. Limits(r, c, t)
    BY <1>10, <1>11
  <2>5. Queues(r, c, k, t)
    BY <1>5, <1>7, <1>9, <1>12, <2>3, <2>4 DEF Queues
  <2> QED BY <2>5 DEF Ordered, r, x, a
<1>13. CASE a.unacked = <<>>
  <2>1. c = k /\ k <= x
    BY <1>9, <1>10, <1>13
  <2>2. Dropped(d.unsent, x, r.unsent)
    BY <1>4, <1>5
  <2>3. PICK e : /\ Line(r.unsent, e, t) /\ (e = k \/ e <= x)
                 /\ r.unsent # <<>> => x < SegEnd(r.unsent[1])
                 /\ r.unsent = <<>> => e = t
    BY <1>1, <1>7, <2>2, DropLine
  <2>4. e \in Int /\ e <= x
    <3>1. e \in Int
      BY <2>3 DEF Line
    <3> QED BY <3>1, <2>1, <2>3
  <2>5. Line(r.unacked, e, e)
    BY <1>5, <1>13, <2>4, LineNone
  <2>6. Limits(r, e, t)
    BY <1>11, <2>4
  <2>7. r.unsent = <<>> => r.lastack = t
    BY <1>1, <1>5, <1>8, <1>10, <2>3, <2>4
  <2>8. r.unacked = <<>> /\ (r.unsent # <<>> => r.lastack < SegEnd(r.unsent[1]))
    BY <1>5, <1>13, <2>3
  <2>9. Queues(r, e, e, t)
    BY <2>3, <2>5, <2>6, <2>7, <2>8 DEF Queues
  <2> QED BY <2>9 DEF Ordered, r, x, a
<1> QED BY <1>12, <1>13

Going(d) == Ordered(d) \/ (Ahead(d) /\ d.acked = 0)

LEMMA AckWorks ==
  ASSUME NEW d, NEW m \in Messages, Typed(d), Ordered(d), d.state \notin Syn
  PROVE  Going(Ack(d, m))
<1> DEFINE w == WindowUpdate(d, m)
           moved == w.snd_wl2 + w.snd_wnd # d.snd_wl2 + d.snd_wnd
           o == OldAck(w, m, moved)
           n == NewAck(w, m)
           z == [w EXCEPT !.acked = 0]
           e == SendEmptyAck(z)
           U(a) == IF m.ackno <= a.snd_nxt THEN Acknowledge(a, "unsent", m.ackno) ELSE a
           W == {"snd_wnd", "snd_wl1", "snd_wl2", "persist"}
<1>1. Typed(w) /\ Same(d, w, W)
  BY WindowUpdateKeeps
<1>2. Ack(d, m) = U(CASE m.ackno <= d.lastack -> o
                      [] Between(m.ackno, d.lastack + 1, d.snd_nxt) -> n
                      [] OTHER -> e)
  BY DEF Ack
<1>3. W \cap (SenderFields \cup {"state"}) = {}
  BY DEF SenderFields
<1> HIDE DEF w, moved, W
<1>4. Ordered(w) /\ w.state = d.state
  BY <1>1, <1>3, FramedSame
<1>5. w.lastack = d.lastack /\ w.snd_nxt = d.snd_nxt
  <2>1. W \cap {"lastack", "snd_nxt"} = {}
    BY DEF W
  <2> QED BY <2>1, <1>1 DEF Same, Fields, PcbFields
<1>6. m.ackno \in Int /\ d.lastack \in Int /\ d.snd_nxt \in Int
  <2>1. m.ackno \in Int
    BY MessageFacts
  <2> QED BY <2>1 DEF Typed, PcbTyped
<1>7. CASE m.ackno <= d.lastack
  <2>1. /\ Typed(o) /\ Same(w, o, OldAckFields) /\ o.acked = 0
    BY <1>1, OldAckKeeps
  <2>2. Ordered(o) \/ Ahead(o)
    BY <1>1, <1>4, OldAckWorks
  <2> DEFINE r == Acknowledge(o, "unsent", m.ackno)
  <2>3. Ack(d, m) = U(o)
    <3>1. ~Between(m.ackno, d.lastack + 1, d.snd_nxt)
      BY <1>6, <1>7 DEF Between
    <3> HIDE DEF o
    <3> QED BY <1>2, <1>7, <3>1
  <2> HIDE DEF o
  <2>4. o.lastack = d.lastack
    BY <1>5, <2>1 DEF Same, OldAckFields, Fields, PcbFields
  <2>5. Ordered(r) \/ Ahead(r)
    BY <1>6, <1>7, <2>1, <2>2, <2>4, UnsentStays
  <2>6. r.acked = 0
    <3>1. "unsent" \in {"unacked", "unsent"}
      OBVIOUS
    <3> QED BY <1>6, <2>1, <3>1, AcknowledgeKeeps
  <2> HIDE DEF r
  <2>7. U(o) = r \/ U(o) = o
    BY DEF r
  <2> QED BY <2>1, <2>2, <2>3, <2>5, <2>6, <2>7 DEF Going
<1>8. CASE d.lastack < m.ackno /\ m.ackno <= d.snd_nxt
  <2>1. Between(m.ackno, d.lastack + 1, d.snd_nxt) /\ ~(m.ackno <= d.lastack)
    BY <1>6, <1>8 DEF Between
  <2>2. Ack(d, m) = U(n)
    BY <1>2, <2>1
  <2>3. m.ackno > w.lastack
    BY <1>5, <1>6, <1>8
  <2>4. Same(w, n, NewAckFields)
    BY <1>1, <2>3, NewAckKeeps
  <2> DEFINE r == Acknowledge(n, "unsent", m.ackno)
  <2>5. Ordered(r)
    BY <1>1, <1>4, <1>5, <1>8, NewAckOrdered
  <2> HIDE DEF n
  <2>6. n.snd_nxt = d.snd_nxt
    BY <1>5, <2>4 DEF Same, NewAckFields, Fields, PcbFields
  <2>7. U(n) = r
    BY <1>8, <2>6
  <2> HIDE DEF r
  <2> QED BY <2>2, <2>5, <2>7 DEF Going
<1>9. CASE m.ackno > d.lastack /\ m.ackno > d.snd_nxt
  <2>1. ~Between(m.ackno, d.lastack + 1, d.snd_nxt) /\ ~(m.ackno <= d.lastack)
    BY <1>6, <1>9 DEF Between
  <2>2. Ack(d, m) = U(e)
    BY <1>2, <2>1
  <2>3. Same(w, z, {"acked"}) /\ z.acked = 0
    BY <1>1 DEF Same, Typed, Fields, PcbFields
  <2> HIDE DEF z
  <2>4. Typed(z)
    <3>1. \A x \in {"acked"} : IsTyped(x, z[x])
      BY <2>3 DEF IsTyped
    <3> QED BY <1>1, <2>3, <3>1, Retyped
  <2>5. Same(z, e, {"out", "flags", "rcv_ann_right_edge"})
    BY <2>4, EmptyAckKeeps
  <2> HIDE DEF e
  <2>6. {"acked"} \cap (SenderFields \cup {"state"}) = {}
        /\ {"out", "flags", "rcv_ann_right_edge"} \cap (SenderFields \cup {"state"}) = {}
    BY DEF SenderFields
  <2>7. Ordered(z)
    BY <1>4, <2>3, <2>6, FramedSame
  <2>8. Ordered(e)
    BY <2>5, <2>6, <2>7, FramedSame
  <2>9. e.snd_nxt = d.snd_nxt
    BY <1>5, <2>3, <2>5 DEF Same, Fields, PcbFields
  <2>10. U(e) = e
    BY <1>6, <1>9, <2>9
  <2> QED BY <2>2, <2>8, <2>10 DEF Going
<1> QED BY <1>6, <1>7, <1>8, <1>9

(* A state that an open connection goes on to, and what else is received.  *)
LEMMA ReceiveWorks ==
  ASSUME NEW d, NEW m \in Messages, Typed(d), Ordered(d), d.state \notin Syn
  PROVE  Going(Receive(d, m))
<1> DEFINE a == IF m.ack THEN Ack(d, m) ELSE d
           r == Receive(d, m)
<1>1. Typed(a) /\ Same(a, r, DataFields) /\ Moves(d, r) /\ Same(d, r, ReceiveFields)
  BY ReceiveKeeps
<1>2. Going(a) /\ a.state = d.state
  <2>1. Same(d, Ack(d, m), AckFields)
    BY AckKeeps
  <2>2. Ack(d, m).state = d.state
    BY <2>1 DEF Same, AckFields, OldAckFields, NewAckFields, Fields, PcbFields
  <2> QED BY <2>2, AckWorks DEF Going
<1> HIDE DEF a, r
<1>3. DataFields \cap SenderFields = {}
  BY DEF DataFields, AcceptFields, SenderFields
<1>4. (r.state \in Opens => a.state \in Opens) /\ (r.state \in Syn => a.state \in Syn)
  BY <1>1, <1>2 DEF Moves, Opens, Syn
<1>5. r.acked = a.acked
  BY <1>1 DEF Same, DataFields, AcceptFields, Fields, PcbFields
<1> QED BY <1>1, <1>2, <1>3, <1>4, <1>5, Framed DEF Going, r

-----------------------------------------------------------------------------
(* tcp_process: the pcb it starts from has nothing in recv_flags.          *)
Works(d) == d.state \in Active /\ "CLOSED" \notin d.recv_flags => Going(d)
Processed(d, r) ==
  Typed(r) /\ r.input = d.input /\ AppOk(r) /\ (Ordered(d) => Works(r))

LEMMA GoingFramed ==
  ASSUME NEW d, NEW r, NEW S, Same(d, r, S), S \cap (SenderFields \cup {"acked"}) = {},
         r.state \in Opens => d.state \in Opens, r.state \in Syn => d.state \in Syn
  PROVE  Going(d) => Going(r)
<1>1. r.acked = d.acked
  BY DEF Same, Fields, PcbFields
<1>2. S \cap SenderFields = {}
  OBVIOUS
<1>3. (Ordered(d) => Ordered(r)) /\ (Ahead(d) => Ahead(r))
  BY <1>2, Framed
<1> QED BY <1>1, <1>3 DEF Going

LEMMA OneFieldTyped ==
  ASSUME NEW d, NEW r, NEW x, Typed(d), Same(d, r, {x}), IsTyped(x, r[x])
  PROVE  Typed(r)
<1>1. \A y \in {x} : IsTyped(y, r[y])
  OBVIOUS
<1> QED BY <1>1, Retyped

LEMMA ProcessResetWorks ==
  ASSUME NEW d, NEW m \in Messages, Typed(d), AppOk(d)
  PROVE  Processed(d, ProcessReset(d, m))
<1> DEFINE c == Clear(d, {"ACK_DELAY"})
           r == [c EXCEPT !.recv_flags = @ \cup {"RESET"}]
           S == {"flags", "recv_flags"}
<1>1. Typed(c) /\ Same(d, c, {"flags"})
  <2>1. {"ACK_DELAY"} \in SUBSET Flags
    BY DEF Flags
  <2> QED BY <2>1, FlagsKeep
<1> HIDE DEF c
<1>2. Same(c, r, {"recv_flags"}) /\ r.recv_flags = c.recv_flags \cup {"RESET"}
  BY <1>1 DEF Same, Typed, Fields, HandlerFields
<1>3. c.recv_flags \in SUBSET RecvFlags /\ c.recv_flags = d.recv_flags
  BY <1>1 DEF Same, Typed, HandlerTyped, Fields, HandlerFields
<1> HIDE DEF r
<1>4. Typed(r)
  <2>1. r.recv_flags \in SUBSET RecvFlags
    BY <1>2, <1>3 DEF RecvFlags
  <2>2. IsTyped("recv_flags", r["recv_flags"])
    BY <2>1 DEF IsTyped
  <2> QED BY <1>1, <1>2, <2>2, OneFieldTyped
<1>5. Same(d, r, S)
  BY <1>1, <1>2 DEF Same
<1>6. r.state = d.state /\ r.input = d.input /\ r.app = d.app
  BY <1>5 DEF Same, Fields, PcbFields, HandlerFields, ConnFields
<1>7. AppOk(r)
  BY <1>2, <1>3, <1>6 DEF AppOk
<1>8. Going(d) => Going(r)
  <2>1. S \cap (SenderFields \cup {"acked"}) = {}
    BY DEF SenderFields
  <2> QED BY <1>5, <1>6, <2>1, GoingFramed
<1>9. Processed(d, r)
  BY <1>4, <1>6, <1>7, <1>8 DEF Processed, Works, Going
<1>10. Processed(d, d)
  BY DEF Processed, Works, Going
<1>11. ProcessReset(d, m) = r \/ ProcessReset(d, m) = d
  BY DEF ProcessReset, r, c
<1> QED BY <1>9, <1>10, <1>11

LEMMA EmitProcessed ==
  ASSUME NEW d, NEW m \in Messages, Typed(d), AppOk(d)
  PROVE  Processed(d, Emit(d, ResetFor(m)))
<1> DEFINE r == Emit(d, ResetFor(m))
<1>1. Typed(r) /\ Same(d, r, {"out"})
  <2>1. ResetFor(m) \in Messages
    BY ResetType, MessageFacts DEF ResetFor
  <2> QED BY <2>1, EmitKeeps
<1> HIDE DEF r
<1>2. r.state = d.state /\ r.input = d.input /\ r.app = d.app /\ r.recv_flags = d.recv_flags
  BY <1>1 DEF Same, Fields, PcbFields, HandlerFields, ConnFields
<1>3. Going(d) => Going(r)
  <2>1. {"out"} \cap (SenderFields \cup {"acked"}) = {}
    BY DEF SenderFields
  <2> QED BY <1>1, <1>2, <2>1, GoingFramed
<1> QED BY <1>1, <1>2, <1>3 DEF Processed, Works, Going, AppOk, r

(* The acknowledgement of the SYN: it is all there was on the queues.      *)
SynTaken(d, m) ==
  [d EXCEPT !.snd_buf = @ + 1, !.rcv_nxt = m.seq + 1,
            !.rcv_ann_right_edge = m.seq + 1, !.lastack = m.ackno,
            !.snd_wnd = m.wnd, !.snd_wl1 = m.seq - 1, !.state = "ESTABLISHED",
            !.cwnd = SndBuf, !.unacked = Tail(@), !.rtime = Len(d.unacked) > 1,
            !.nrtx = IF Len(d.unacked) > 1 THEN 0 ELSE @, !.app = "open"]
SynFields == {"snd_buf", "rcv_nxt", "rcv_ann_right_edge", "lastack", "snd_wnd", "snd_wl1", "state",
              "cwnd", "unacked", "rtime", "nrtx", "app"}

LEMMA SynTakenKeeps ==
  ASSUME NEW d, NEW m \in Messages, Typed(d), d.unacked # <<>>
  PROVE  /\ Typed(SynTaken(d, m)) /\ Same(d, SynTaken(d, m), SynFields)
         /\ SynTaken(d, m).state = "ESTABLISHED" /\ SynTaken(d, m).app = "open"
         /\ SynTaken(d, m).lastack = m.ackno /\ SynTaken(d, m).unacked = Tail(d.unacked)
<1> DEFINE r == SynTaken(d, m)
<1>1. DOMAIN d = Fields
  BY DEF Typed
<1>2. Same(d, r, SynFields)
  BY <1>1 DEF SynTaken, Same, SynFields
<1>3. /\ r.snd_buf = d.snd_buf + 1 /\ r.rcv_nxt = m.seq + 1 /\ r.rcv_ann_right_edge = m.seq + 1
      /\ r.lastack = m.ackno /\ r.snd_wnd = m.wnd /\ r.snd_wl1 = m.seq - 1
  BY <1>1 DEF SynTaken, Fields, PcbFields
<1>4. /\ r.state = "ESTABLISHED" /\ r.cwnd = SndBuf /\ r.unacked = Tail(d.unacked)
      /\ r.rtime = (Len(d.unacked) > 1) /\ r.nrtx = (IF Len(d.unacked) > 1 THEN 0 ELSE d.nrtx)
      /\ r.app = "open"
  BY <1>1 DEF SynTaken, Fields, PcbFields, ConnFields
<1> HIDE DEF r
<1>5. m.seq \in Int /\ m.ackno \in Int /\ m.wnd \in Int
  BY MessageFacts
<1>6. /\ d.snd_buf \in Nat /\ d.nrtx \in Int /\ d.unacked \in Seq(Segs)
  BY DEF Typed, PcbTyped
<1>7. r.rcv_nxt \in Int /\ r.rcv_ann_right_edge \in Int /\ r.lastack \in Int /\ r.snd_wnd \in Int
      /\ r.snd_wl1 \in Int /\ r.snd_buf \in Nat
  BY <1>3, <1>5, <1>6
<1>8. r.state \in States /\ r.app \in Apps
  BY <1>4 DEF States, Active, Apps
<1>9. r.cwnd \in Int
  <2>1. SndBuf \in Nat
    BY Constants
  <2> QED BY <1>4, <2>1
<1>10. r.unacked \in Seq(Segs)
  BY <1>4, <1>6, HeadTailProperties
<1>11. r.rtime \in BOOLEAN /\ r.nrtx \in Int
  BY <1>4, <1>6
<1>12. \A x \in SynFields : IsTyped(x, r[x])
  BY <1>7, <1>8, <1>9, <1>10, <1>11 DEF IsTyped, SynFields
<1>13. Typed(r)
  BY <1>2, <1>12, Retyped
<1> QED BY <1>2, <1>3, <1>4, <1>13 DEF r

LEMMA SynTakenOrdered ==
  ASSUME NEW d, NEW m \in Messages, Typed(d), Ordered(d), d.state = "SYN_SENT",
         d.unacked # <<>>, m.ackno = Head(d.unacked).seq + 1
  PROVE  Ordered(SynTaken(d, m))
<1> DEFINE r == SynTaken(d, m)
<1>1. /\ Same(d, r, SynFields) /\ r.state = "ESTABLISHED"
      /\ r.lastack = m.ackno /\ r.unacked = Tail(d.unacked)
  BY SynTakenKeeps
<1> HIDE DEF r
<1>2. PICK b, k, t : Queues(d, b, k, t)
  BY DEF Ordered
<1>3. /\ Line(d.unacked, b, k) /\ Line(d.unsent, k, t) /\ d.lastack < SegEnd(d.unacked[1])
      /\ b = 1 /\ d.lastack = 1 /\ t = 2 /\ t = d.snd_lbb /\ d.snd_nxt <= t
  BY <1>2 DEF Queues, Limits, Opens, Syn
<1> DEFINE s == Head(d.unacked)
           e == SegEnd(s)
<1>4. /\ s = d.unacked[1] /\ s.seq = b /\ b < e /\ e <= k /\ Line(Tail(d.unacked), e, k)
  BY <1>3, LineFirst
<1>5. e \in Int /\ k \in Int /\ k <= t
  BY <1>3, <1>4, LineFacts
<1> HIDE DEF s, e
<1>6. e = 2 /\ k = 2
  BY <1>3, <1>4, <1>5
<1>7. Tail(d.unacked) = <<>> /\ d.unsent = <<>>
  <2>1. Line(Tail(d.unacked), 2, 2) /\ Line(d.unsent, 2, 2)
    BY <1>3, <1>4, <1>6
  <2>2. \A q : Line(q, 2, 2) => q = <<>>
    <3> SUFFICES ASSUME NEW q, Line(q, 2, 2), q # <<>> PROVE FALSE
      OBVIOUS
    <3>1. 2 < 2
      BY LineFacts
    <3> QED BY <3>1
  <2> QED BY <2>1, <2>2
<1>8. r.lastack = 2
  BY <1>1, <1>3, <1>4 DEF s
<1>9. r.unsent = <<>> /\ r.unacked = <<>> /\ r.snd_lbb = 2 /\ r.snd_nxt <= 2
  BY <1>1, <1>3, <1>7 DEF Same, SynFields, Fields, PcbFields
<1>10. Line(<<>>, 2, 2)
  BY LineNone
<1>11. Limits(r, 2, 2)
  BY <1>1, <1>8, <1>9 DEF Limits, Opens, Syn
<1>12. Queues(r, 2, 2, 2)
  BY <1>8, <1>9, <1>10, <1>11 DEF Queues
<1> QED BY <1>12 DEF Ordered, r

LEMMA ProcessSynSentWorks ==
  ASSUME NEW d, NEW m \in Messages, Typed(d), AppOk(d), d.state = "SYN_SENT", d.recv_flags = {}
  PROVE  Processed(d, ProcessSynSent(d, m))
<1> DEFINE f == [d EXCEPT !.state = "FAULT"]
           a == SynTaken(d, m)
           s == Set(a, {"ACK_NOW"})
           e == Emit(d, ResetFor(m))
           P == ProcessSynSent(d, m)
<1>1. \/ m.syn /\ m.ack /\ d.unacked = <<>> /\ P = f
      \/ d.unacked # <<>> /\ m.ackno = Head(d.unacked).seq + 1 /\ P = s
      \/ P = e \/ P = d
  <2>1. m.syn \in BOOLEAN /\ m.ack \in BOOLEAN
    BY DEF Messages
  <2> QED BY <2>1 DEF ProcessSynSent, SynTaken
<1>2. CASE P = f
  <2>1. Same(d, f, {"state"}) /\ f.state = "FAULT"
    BY DEF Same, Typed, Fields, PcbFields
  <2> HIDE DEF f
  <2>2. Typed(f)
    <3>1. IsTyped("state", f["state"])
      BY <2>1 DEF IsTyped, States
    <3> QED BY <2>1, <3>1, OneFieldTyped
  <2>3. f.input = d.input /\ f.app = d.app
    BY <2>1 DEF Same, Fields, HandlerFields, ConnFields
  <2>4. AppOk(f)
    BY <2>3 DEF AppOk
  <2>5. f.state \notin Active
    BY <2>1 DEF Active
  <2> QED BY <1>2, <2>2, <2>3, <2>4, <2>5 DEF Processed, Works
<1>3. CASE d.unacked # <<>> /\ m.ackno = Head(d.unacked).seq + 1 /\ P = s
  <2>1. Typed(a) /\ Same(d, a, SynFields) /\ a.state = "ESTABLISHED"
    BY <1>3, SynTakenKeeps
  <2>2. Ordered(d) => Ordered(a)
    BY <1>3, SynTakenOrdered
  <2> HIDE DEF a
  <2>3. Typed(s) /\ Same(a, s, {"flags"})
    <3>1. {"ACK_NOW"} \in SUBSET Flags
      BY DEF Flags
    <3> QED BY <2>1, <3>1, FlagsKeep
  <2> HIDE DEF s
  <2>4. {"flags"} \cap (SenderFields \cup {"state"}) = {}
    BY DEF SenderFields
  <2>5. (Ordered(a) => Ordered(s)) /\ s.state = "ESTABLISHED"
    BY <2>1, <2>3, <2>4, FramedSame
  <2>6. s.input = d.input /\ s.recv_flags = {}
    BY <2>1, <2>3 DEF Same, SynFields, Fields, HandlerFields
  <2>7. AppOk(s)
    BY <2>5, <2>6 DEF AppOk
  <2> QED BY <1>3, <2>2, <2>3, <2>5, <2>6, <2>7 DEF Processed, Works, Going
<1>4. CASE P = e
  BY <1>4, EmitProcessed
<1>5. CASE P = d
  BY <1>5 DEF Processed, Works, Going
<1> QED BY <1>1, <1>2, <1>3, <1>4, <1>5

LEMMA ReceiveGoes ==
  ASSUME NEW d, NEW m \in Messages, Typed(d), d.recv_flags = {}
  PROVE  /\ Typed(Receive(d, m)) /\ Receive(d, m).input = d.input /\ Receive(d, m).app = d.app
         /\ "CLOSED" \notin Receive(d, m).recv_flags
         /\ Receive(d, m).state = d.state
            \/ (d.state = "ESTABLISHED" /\ Receive(d, m).state = "CLOSE_WAIT")
         /\ Ordered(d) /\ d.state \notin Syn => Going(Receive(d, m))
<1> DEFINE r == Receive(d, m)
<1>1. Typed(r) /\ Same(d, r, ReceiveFields) /\ Moves(d, r)
  BY ReceiveKeeps
<1>2. Ordered(d) /\ d.state \notin Syn => Going(r)
  BY ReceiveWorks
<1> HIDE DEF r
<1>3. r.input = d.input /\ r.app = d.app
  <2>1. "input" \notin ReceiveFields /\ "app" \notin ReceiveFields
    BY DEF ReceiveFields, AckFields, OldAckFields, NewAckFields, DataFields, AcceptFields
  <2> QED BY <1>1, <2>1 DEF Same, Fields, HandlerFields, ConnFields
<1>4. "CLOSED" \notin r.recv_flags
  BY <1>1 DEF Moves
<1> QED BY <1>1, <1>2, <1>3, <1>4 DEF Moves, r

LEMMA PassiveCloseWorks ==
  ASSUME NEW d, Typed(d), d.state \in {"ESTABLISHED", "CLOSE_WAIT"}
  PROVE  /\ Typed(PassiveClose(d)) /\ Same(d, PassiveClose(d), {"flags", "state"})
         /\ PassiveClose(d).state \in {"ESTABLISHED", "CLOSE_WAIT"}
         /\ Going(d) => Going(PassiveClose(d))
<1> DEFINE s == Set(d, {"ACK_NOW"})
           r == [s EXCEPT !.state = "CLOSE_WAIT"]
<1>1. Typed(s) /\ Same(d, s, {"flags"})
  <2>1. {"ACK_NOW"} \in SUBSET Flags
    BY DEF Flags
  <2> QED BY <2>1, FlagsKeep
<1> HIDE DEF s
<1>2. Same(s, r, {"state"}) /\ r.state = "CLOSE_WAIT"
  BY <1>1 DEF Same, Typed, Fields, PcbFields
<1> HIDE DEF r
<1>3. Typed(r)
  <2>1. IsTyped("state", r["state"])
    BY <1>2 DEF IsTyped, States, Active
  <2> QED BY <1>1, <1>2, <2>1, OneFieldTyped
<1>4. Same(d, r, {"flags", "state"})
  BY <1>1, <1>2 DEF Same
<1>5. Going(d) => Going(r)
  <2>1. {"flags", "state"} \cap (SenderFields \cup {"acked"}) = {}
    BY DEF SenderFields
  <2>2. (r.state \in Opens => d.state \in Opens) /\ (r.state \in Syn => d.state \in Syn)
    BY <1>2 DEF Opens, Syn
  <2> QED BY <1>4, <2>1, <2>2, GoingFramed
<1>6. Same(d, d, {"flags", "state"})
  BY DEF Same, Typed
<1>7. PassiveClose(d) = IF "GOT_FIN" \in d.recv_flags THEN r ELSE d
  BY DEF PassiveClose, r, s
<1> QED BY <1>2, <1>3, <1>4, <1>5, <1>6, <1>7

LEMMA ProcessOpenWorks ==
  ASSUME NEW d, NEW m \in Messages, Typed(d), d.state \in {"ESTABLISHED", "CLOSE_WAIT"},
         d.recv_flags = {}
  PROVE  Processed(d, PassiveClose(Receive(d, m)))
<1> DEFINE a == Receive(d, m)
           r == PassiveClose(a)
<1>1. /\ Typed(a) /\ a.input = d.input /\ a.app = d.app /\ "CLOSED" \notin a.recv_flags
      /\ a.state \in {"ESTABLISHED", "CLOSE_WAIT"}
      /\ Ordered(d) /\ d.state \notin Syn => Going(a)
  BY ReceiveGoes
<1>2. d.state \notin Syn
  BY DEF Syn
<1> HIDE DEF a
<1>3. /\ Typed(r) /\ Same(a, r, {"flags", "state"}) /\ r.state \in {"ESTABLISHED", "CLOSE_WAIT"}
      /\ Going(a) => Going(r)
  BY <1>1, PassiveCloseWorks
<1> HIDE DEF r
<1>4. r.input = d.input /\ r.app = d.app /\ "CLOSED" \notin r.recv_flags
  BY <1>1, <1>3 DEF Same, Fields, HandlerFields, ConnFields
<1> QED BY <1>1, <1>2, <1>3, <1>4 DEF Processed, Works, AppOk, r, a

(* In SYN_RCVD there is only the SYN on the queues.                        *)
LEMMA RexmitSyn ==
  ASSUME NEW d, Typed(d), Ordered(d), d.state = "SYN_RCVD"
  PROVE  Ordered(Rexmit(d))
<1> DEFINE r == Rexmit(d)
           S == {"unsent", "unacked", "nrtx"}
<1>1. /\ Typed(r) /\ Same(d, r, S)
      /\ d.unacked # <<>> => /\ r.unsent = InOrder(d.unsent, Head(d.unacked))
                             /\ r.unacked = Tail(d.unacked)
      /\ d.unacked = <<>> => r = d
  BY RexmitKeeps DEF Rexmit
<1> HIDE DEF r
<1>2. CASE d.unacked = <<>>
  BY <1>1, <1>2 DEF r
<1>3. CASE d.unacked # <<>>
  <2>1. S \cap (SenderFields \cup {"state"}) = {"unsent", "unacked"}
    BY DEF SenderFields
  <2> HIDE DEF S
  <2>2. Ahead(r)
    BY <1>1, <1>3, <2>1, BackFirst
  <2>3. PICK b, k, t : Queues(d, b, k, t)
    BY DEF Ordered
  <2>4. /\ Line(d.unacked, b, k) /\ Line(d.unsent, k, t) /\ b = 1 /\ t = 2
    BY <2>3 DEF Queues, Limits, Syn
  <2> DEFINE s == Head(d.unacked)
             e == SegEnd(s)
  <2>5. b < e /\ e <= k /\ Line(Tail(d.unacked), e, k) /\ s \in Segs
    BY <1>3, <2>4, LineFirst
  <2>6. e \in Int /\ k \in Int /\ k <= t
    BY <2>4, <2>5, LineFacts
  <2> HIDE DEF s, e
  <2>7. e = 2 /\ k = 2
    BY <2>4, <2>5, <2>6
  <2>8. r.unacked = <<>>
    <3> SUFFICES ASSUME r.unacked # <<>> PROVE FALSE
      OBVIOUS
    <3>1. Line(r.unacked, 2, 2)
      BY <1>1, <1>3, <2>5, <2>7
    <3>2. 2 < 2
      BY <3>1, LineFacts
    <3> QED BY <3>2
  <2> QED BY <2>2, <2>8, JustOrdered DEF r
<1> QED BY <1>2, <1>3

LEMMA ProcessSynRcvdWorks ==
  ASSUME NEW d, NEW m \in Messages, Typed(d), AppOk(d), d.state = "SYN_RCVD", d.recv_flags = {}
  PROVE  Processed(d, ProcessSynRcvd(d, m))
<1> DEFINE o == [d EXCEPT !.state = "ESTABLISHED", !.app = "open"]
           a == Receive(o, m)
           c == [a EXCEPT !.acked = Max({0, @ - 1}), !.cwnd = SndBuf]
           p == PassiveClose(c)
           x == Rexmit(d)
           e == Emit(d, ResetFor(m))
           P == ProcessSynRcvd(d, m)
<1>1. P = p \/ P = e \/ P = x \/ P = d
  <2>1. m.ack \in BOOLEAN
    BY DEF Messages
  <2> QED BY <2>1 DEF ProcessSynRcvd
<1>2. CASE P = p
  <2>1. Same(d, o, {"state", "app"}) /\ o.state = "ESTABLISHED" /\ o.app = "open"
    BY DEF Same, Typed, Fields, PcbFields, ConnFields
  <2> HIDE DEF o
  <2>2. Typed(o)
    <3>1. \A y \in {"state", "app"} : IsTyped(y, o[y])
      BY <2>1 DEF IsTyped, States, Active, Apps
    <3> QED BY <2>1, <3>1, Retyped
  <2>3. Ordered(d) => Ordered(o)
    <3>1. {"state", "app"} \cap SenderFields = {}
      BY DEF SenderFields
    <3>2. (o.state \in Opens => d.state \in Opens) /\ (o.state \in Syn => d.state \in Syn)
      BY <2>1 DEF Opens, Syn
    <3> QED BY <2>1, <3>1, <3>2, Framed
  <2>4. o.recv_flags = {} /\ o.input = d.input /\ o.state \notin Syn
    BY <2>1 DEF Same, Fields, HandlerFields, Syn
  <2>5. /\ Typed(a) /\ a.input = d.input /\ "CLOSED" \notin a.recv_flags
        /\ a.state \in {"ESTABLISHED", "CLOSE_WAIT"}
        /\ Ordered(o) => Going(a)
    BY <2>1, <2>2, <2>4, ReceiveGoes
  <2> HIDE DEF a
  <2>6. /\ Same(a, c, {"acked", "cwnd"}) /\ c.acked = Max({0, a.acked - 1}) /\ c.cwnd = SndBuf
    BY <2>5 DEF Same, Typed, Fields, PcbFields
  <2>7. a.acked \in Int /\ c.acked \in Int /\ (a.acked = 0 => c.acked = 0) /\ c.cwnd \in Int
    <3>1. a.acked \in Int
      BY <2>5 DEF Typed, PcbTyped
    <3>2. SndBuf \in Nat
      BY Constants
    <3> HIDE DEF c
    <3>3. a.acked - 1 \in Int /\ 0 \in Int
      BY <3>1
    <3>4. c.acked = IF 0 >= a.acked - 1 THEN 0 ELSE a.acked - 1
      BY <2>6, <3>3, MaxOf
    <3> QED BY <2>6, <3>1, <3>2, <3>4
  <2> HIDE DEF c
  <2>8. Typed(c)
    <3>1. \A y \in {"acked", "cwnd"} : IsTyped(y, c[y])
      BY <2>7 DEF IsTyped
    <3> QED BY <2>5, <2>6, <3>1, Retyped
  <2>9. c.input = d.input /\ "CLOSED" \notin c.recv_flags /\ c.state = a.state
    BY <2>5, <2>6 DEF Same, Fields, PcbFields, HandlerFields
  <2>10. Going(a) => Going(c)
    <3>1. {"acked", "cwnd"} \cap (SenderFields \cup {"state"}) = {}
      BY DEF SenderFields
    <3>2. (Ordered(a) => Ordered(c)) /\ (Ahead(a) => Ahead(c))
      BY <2>6, <3>1, FramedSame
    <3> QED BY <2>7, <3>2 DEF Going
  <2>11. /\ Typed(p) /\ Same(c, p, {"flags", "state"}) /\ p.state \in {"ESTABLISHED", "CLOSE_WAIT"}
         /\ Going(c) => Going(p)
    BY <2>5, <2>8, <2>9, PassiveCloseWorks
  <2> HIDE DEF p
  <2>12. p.input = d.input /\ "CLOSED" \notin p.recv_flags
    BY <2>9, <2>11 DEF Same, Fields, HandlerFields
  <2> QED BY <1>2, <2>3, <2>5, <2>10, <2>11, <2>12 DEF Processed, Works, AppOk
<1>3. CASE P = e
  BY <1>3, EmitProcessed
<1>4. CASE P = x
  <2>1. Typed(x) /\ Same(d, x, {"unsent", "unacked", "nrtx"})
    BY RexmitKeeps
  <2>2. Ordered(d) => Ordered(x)
    BY RexmitSyn
  <2> HIDE DEF x
  <2>3. x.input = d.input /\ x.app = d.app /\ x.state = d.state /\ x.recv_flags = d.recv_flags
    BY <2>1 DEF Same, Fields, PcbFields, HandlerFields, ConnFields
  <2> QED BY <1>4, <2>1, <2>2, <2>3 DEF Processed, Works, Going, AppOk
<1>5. CASE P = d
  BY <1>5 DEF Processed, Works, Going
<1> QED BY <1>1, <1>2, <1>3, <1>4, <1>5

LEMMA ProcessClosingWorks ==
  ASSUME NEW d, NEW m \in Messages, Typed(d), AppOk(d), d.recv_flags = {},
         d.state \in {"FIN_WAIT_1", "FIN_WAIT_2", "CLOSING", "LAST_ACK"}
  PROVE  Processed(d, ProcessClosing(d, m))
<1> DEFINE r == Receive(d, m)
           now == IF "GOT_FIN" \in r.recv_flags THEN Set(r, {"ACK_NOW"}) ELSE r
           P == ProcessClosing(d, m)
           In(a, state) == [a EXCEPT !.state = state]
           closed == [r EXCEPT !.recv_flags = @ \cup {"CLOSED"}]
<1>1. /\ Typed(r) /\ r.input = d.input /\ r.app = d.app /\ "CLOSED" \notin r.recv_flags
      /\ r.state = d.state /\ (Ordered(d) => Going(r))
  <2>1. d.state # "ESTABLISHED" /\ d.state \notin Syn
    BY DEF Syn
  <2> QED BY <2>1, ReceiveGoes
<1>2. /\ P \in {TimeWait(now), TimeWait(r), In(now, "CLOSING"), In(r, "FIN_WAIT_2"), closed, r}
  <2> HIDE DEF r
  <2> QED BY DEF ProcessClosing, r
<1>3. d.app \notin AppOpen
  BY DEF AppOk
<1> HIDE DEF r
<1>4. Typed(now) /\ Same(r, now, {"flags"})
  <2>1. {"ACK_NOW"} \in SUBSET Flags
    BY DEF Flags
  <2>2. Same(r, r, {"flags"})
    BY <1>1 DEF Same, Typed
  <2> QED BY <1>1, <2>1, <2>2, FlagsKeep
<1> HIDE DEF now
<1>5. /\ now.input = d.input /\ now.app = d.app /\ now.recv_flags = r.recv_flags
      /\ now.state = d.state /\ (Going(r) => Going(now))
  <2>1. {"flags"} \cap (SenderFields \cup {"acked"}) = {}
    BY DEF SenderFields
  <2>2. now.state = r.state
    BY <1>4 DEF Same, Fields, PcbFields
  <2>3. Going(r) => Going(now)
    BY <1>4, <2>1, <2>2, GoingFramed
  <2>4. now.input = r.input /\ now.app = r.app /\ now.recv_flags = r.recv_flags
    BY <1>4 DEF Same, Fields, HandlerFields, ConnFields
  <2> QED BY <1>1, <2>2, <2>3, <2>4
<1>6. ASSUME NEW a, Typed(a), a.input = d.input, a.app = d.app
      PROVE  Processed(d, TimeWait(a))
  <2> DEFINE q == TimeWait(a)
  <2>1. Typed(q) /\ Same(a, q, PurgedFields \cup {"state"}) /\ q.state = "TIME_WAIT"
    BY <1>6, PurgeKeeps
  <2> HIDE DEF q
  <2>2. q.input = d.input /\ q.app = d.app
    BY <1>6, <2>1 DEF Same, PurgedFields, Fields, HandlerFields, ConnFields
  <2>3. q.state \notin Active
    BY <2>1 DEF Active
  <2> QED BY <1>3, <2>1, <2>2, <2>3 DEF Processed, AppOk, Works, q
<1>7. ASSUME NEW a, Typed(a), a.input = d.input, a.app = d.app, Ordered(d) => Going(a),
             a.state = d.state, NEW state \in {"CLOSING", "FIN_WAIT_2"}
      PROVE  Processed(d, In(a, state))
  <2> DEFINE q == In(a, state)
  <2>1. Same(a, q, {"state"}) /\ q.state = state
    BY <1>7 DEF Same, Typed, Fields, PcbFields
  <2> HIDE DEF q
  <2>2. Typed(q)
    <3>1. state \in States
      BY <1>7 DEF States, Active
    <3>2. IsTyped("state", q["state"])
      BY <2>1, <3>1 DEF IsTyped
    <3> QED BY <1>7, <2>1, <3>2, OneFieldTyped
  <2>3. q.input = d.input /\ q.app = d.app
    BY <1>7, <2>1 DEF Same, Fields, HandlerFields, ConnFields
  <2>4. Going(a) => Going(q)
    <3>1. {"state"} \cap (SenderFields \cup {"acked"}) = {}
      BY DEF SenderFields
    <3>2. q.state \notin Opens /\ q.state \notin Syn
      BY <1>7, <2>1 DEF Opens, Syn
    <3> QED BY <2>1, <3>1, <3>2, GoingFramed
  <2> QED BY <1>3, <1>7, <2>2, <2>3, <2>4 DEF Processed, AppOk, Works, q
<1>8. Processed(d, closed)
  <2>1. Same(r, closed, {"recv_flags"}) /\ closed.recv_flags = r.recv_flags \cup {"CLOSED"}
    BY <1>1 DEF Same, Typed, Fields, HandlerFields
  <2>2. r.recv_flags \in SUBSET RecvFlags
    BY <1>1 DEF Typed, HandlerTyped
  <2> HIDE DEF closed
  <2>3. Typed(closed)
    <3>1. IsTyped("recv_flags", closed["recv_flags"])
      BY <2>1, <2>2 DEF IsTyped, RecvFlags
    <3> QED BY <1>1, <2>1, <3>1, OneFieldTyped
  <2>4. closed.input = d.input /\ closed.app = d.app
    BY <1>1, <2>1 DEF Same, Fields, HandlerFields, ConnFields
  <2> QED BY <1>3, <2>1, <2>3, <2>4 DEF Processed, AppOk, Works
<1>9. Processed(d, r)
  BY <1>1, <1>3 DEF Processed, AppOk, Works
<1>10. Processed(d, TimeWait(now)) /\ Processed(d, TimeWait(r))
  BY <1>1, <1>4, <1>5, <1>6
<1>11. Processed(d, In(now, "CLOSING")) /\ Processed(d, In(r, "FIN_WAIT_2"))
  <2> HIDE DEF In
  <2>1. Ordered(d) => Going(now)
    BY <1>1, <1>5
  <2> QED BY <1>1, <1>4, <1>5, <1>7, <2>1
<1> HIDE DEF In, closed, P
<1> QED BY <1>2, <1>8, <1>9, <1>10, <1>11 DEF P

LEMMA ProcessWorks ==
  ASSUME NEW d, NEW m \in Messages, Typed(d), AppOk(d), d.recv_flags = {}, d.state \in Active
  PROVE  Processed(d, Process(d, m))
<1>1. m.rst \in BOOLEAN /\ m.syn \in BOOLEAN
  BY DEF Messages
<1>2. CASE m.rst
  <2>1. Process(d, m) = ProcessReset(d, m)
    BY <1>2 DEF Process
  <2> QED BY <2>1, ProcessResetWorks
<1>3. CASE ~m.rst /\ m.syn /\ d.state \notin {"SYN_SENT", "SYN_RCVD"}
  <2> DEFINE r == Set(d, {"ACK_NOW"})
  <2>1. Typed(r) /\ Same(d, r, {"flags"})
    <3>1. {"ACK_NOW"} \in SUBSET Flags
      BY DEF Flags
    <3> QED BY <3>1, FlagsKeep
  <2>2. Process(d, m) = r
    BY <1>3 DEF Process
  <2> HIDE DEF r
  <2>3. r.state = d.state /\ r.input = d.input /\ r.app = d.app /\ r.recv_flags = d.recv_flags
    BY <2>1 DEF Same, Fields, PcbFields, HandlerFields, ConnFields
  <2>4. Going(d) => Going(r)
    <3>1. {"flags"} \cap (SenderFields \cup {"acked"}) = {}
      BY DEF SenderFields
    <3> QED BY <2>1, <2>3, <3>1, GoingFramed
  <2> QED BY <2>1, <2>2, <2>3, <2>4 DEF Processed, Works, Going, AppOk
<1>4. CASE ~m.rst /\ d.state = "SYN_SENT"
  <2>1. Process(d, m) = ProcessSynSent(d, m)
    BY <1>4 DEF Process
  <2> QED BY <1>4, <2>1, ProcessSynSentWorks
<1>5. CASE ~m.rst /\ d.state = "SYN_RCVD"
  <2>1. Process(d, m) = ProcessSynRcvd(d, m)
    BY <1>5 DEF Process
  <2> QED BY <1>5, <2>1, ProcessSynRcvdWorks
<1>6. CASE ~m.rst /\ ~m.syn /\ d.state \in {"ESTABLISHED", "CLOSE_WAIT"}
  <2>1. d.state # "SYN_SENT" /\ d.state # "SYN_RCVD"
    BY <1>6
  <2>2. Process(d, m) = PassiveClose(Receive(d, m))
    BY <1>6, <2>1 DEF Process
  <2> QED BY <1>6, <2>2, ProcessOpenWorks
<1>7. CASE /\ ~m.rst /\ ~m.syn
           /\ d.state \in {"FIN_WAIT_1", "FIN_WAIT_2", "CLOSING", "LAST_ACK"}
  <2>1. d.state \notin {"SYN_SENT", "SYN_RCVD", "ESTABLISHED", "CLOSE_WAIT"}
    BY <1>7
  <2>2. Process(d, m) = ProcessClosing(d, m)
    BY <1>7, <2>1 DEF Process
  <2> QED BY <1>7, <2>2, ProcessClosingWorks
<1> QED BY <1>1, <1>2, <1>3, <1>4, <1>5, <1>6, <1>7 DEF Active

-----------------------------------------------------------------------------
(* tcp_input after tcp_process.  What a handler leaves at its end: either   *)
(* the queues are in order or a segment that is sent again was overtaken.   *)
Open(d) == d.app \in AppOpen => d.state \in {"ESTABLISHED", "CLOSE_WAIT"}
Sorted(d) == d.state \in Active => Ordered(d)
Kept(d) == d.state \in Active => Ordered(d) \/ Overtaken(d)

LEMMA ToldIsNotOpen == \A app : app \in Apps => ToldApp(app) \notin AppOpen
  BY DEF ToldApp, AppOpen

LEMMA GoneWorks ==
  ASSUME NEW d, NEW how \in Endings, Typed(d), d.app \notin AppOpen
  PROVE  Typed(Gone(d, how)) /\ Open(Gone(d, how)) /\ Kept(Gone(d, how))
<1> DEFINE r == Gone(d, how)
<1>1. Typed(r) /\ Same(d, r, PcbFields \cup {"ended", "held"}) /\ r.state \in {"CLOSED", "LISTEN"}
  BY GoneKeeps, GoneSame
<1> HIDE DEF r
<1>2. r.app = d.app
  BY <1>1 DEF Same, PcbFields, Fields, ConnFields
<1> QED BY <1>1, <1>2 DEF Open, Kept, Active, r

LEMMA AbortWorks ==
  ASSUME NEW d, Typed(d), Open(d)
  PROVE  Typed(Abort(d)) /\ Open(Abort(d)) /\ Kept(Abort(d))
<1> DEFINE r == Abort(d)
<1>1. /\ Typed(r) /\ r.state \in {"CLOSED", "LISTEN"}
      /\ r.app = IF d.state = "TIME_WAIT" THEN d.app ELSE ToldApp(d.app)
  BY AbortKeeps
<1> HIDE DEF r
<1>2. d.app \in Apps
  BY DEF Typed, ConnTyped
<1>3. r.app \notin AppOpen
  BY <1>1, <1>2, ToldIsNotOpen DEF Open
<1> QED BY <1>1, <1>3 DEF Open, Kept, Active, r

LEMMA ErrTcpGone ==
  ASSUME NEW d, NEW how \in Endings, Typed(d)
  PROVE  /\ Typed(Gone(ErrTcp(d), how)) /\ Open(Gone(ErrTcp(d), how)) /\ Kept(Gone(ErrTcp(d), how))
         /\ Typed(ErrTcp(Gone(d, how))) /\ Open(ErrTcp(Gone(d, how))) /\ Kept(ErrTcp(Gone(d, how)))
<1> DEFINE e == ErrTcp(d)
           g == Gone(d, how)
           r == ErrTcp(g)
<1>1. Typed(e) /\ e.app = ToldApp(d.app)
  BY ErrTcpKeeps
<1>2. d.app \in Apps
  BY DEF Typed, ConnTyped
<1>3. e.app \notin AppOpen
  BY <1>1, <1>2, ToldIsNotOpen
<1> HIDE DEF e
<1>4. Typed(Gone(e, how)) /\ Open(Gone(e, how)) /\ Kept(Gone(e, how))
  BY <1>1, <1>3, GoneWorks
<1>5. Typed(g) /\ Same(d, g, PcbFields \cup {"ended", "held"}) /\ g.state \in {"CLOSED", "LISTEN"}
  BY GoneKeeps, GoneSame
<1> HIDE DEF g
<1>6. Typed(r) /\ Same(g, r, {"app", "recvmbox", "took"}) /\ r.app = ToldApp(g.app)
  BY <1>5, ErrTcpKeeps
<1> HIDE DEF r
<1>7. r.state = g.state /\ g.app \in Apps
  BY <1>5, <1>6 DEF Same, Fields, PcbFields, Typed, ConnTyped
<1>8. r.app \notin AppOpen
  BY <1>6, <1>7, ToldIsNotOpen
<1>9. Open(r) /\ Kept(r)
  BY <1>5, <1>7, <1>8 DEF Open, Kept, Active
<1> QED BY <1>4, <1>6, <1>9 DEF e, g, r

LEMMA GiveWorks ==
  ASSUME NEW d, Typed(d), d.input = TRUE
  PROVE  /\ Typed(GiveFin(GiveData(d)))
         /\ Same(d, GiveFin(GiveData(d)), GivenFields \cup {"refused_data", "refused_fin"})
<1> DEFINE S == GivenFields \cup {"refused_data", "refused_fin"}
           a == GiveData(d)
           r == GiveFin(a)
           w == [d EXCEPT !.refused_data = d.recv_data]
           z == [a EXCEPT !.refused_fin = TRUE]
<1>1. d.recv_data \in Seq(Int)
  BY DEF Typed, HandlerTyped
<1>2. Typed(a) /\ Same(d, a, S)
  <2>1. Same(d, d, S)
    BY DEF Same, Typed
  <2>2. Same(d, w, {"refused_data"}) /\ w.refused_data = d.recv_data
    BY DEF Same, Typed, Fields, PcbFields
  <2>3. a = d \/ a = RecvTcp(d, d.recv_data) \/ a = w
    BY DEF GiveData
  <2> HIDE DEF w
  <2>4. Typed(w) /\ Same(d, w, S)
    <3>1. IsTyped("refused_data", w["refused_data"])
      BY <1>1, <2>2 DEF IsTyped
    <3>2. Same(d, w, S)
      BY <2>2 DEF Same
    <3> QED BY <2>2, <3>1, <3>2, OneFieldTyped
  <2>5. Typed(RecvTcp(d, d.recv_data)) /\ Same(d, RecvTcp(d, d.recv_data), S)
    <3>1. /\ Typed(RecvTcp(d, d.recv_data))
          /\ Same(d, RecvTcp(d, d.recv_data), {"recvmbox", "rcv_wnd", "rcv_ann_wnd", "flags"})
      BY <1>1, RecvTcpKeeps
    <3> QED BY <3>1, SameMore DEF GivenFields
  <2> HIDE DEF a, S
  <2> QED BY <2>1, <2>3, <2>4, <2>5
<1> HIDE DEF a
<1>3. a.input = TRUE
  BY <1>2 DEF Same, GivenFields, Fields, HandlerFields
<1>4. Typed(r) /\ Same(a, r, S)
  <2>1. Same(a, a, S)
    BY <1>2 DEF Same, Typed
  <2>2. Same(a, z, {"refused_fin"}) /\ z.refused_fin = TRUE
    BY <1>2 DEF Same, Typed, Fields, PcbFields
  <2>3. r = a \/ r = z \/ r = EndOfStream(a)
    BY DEF GiveFin
  <2> HIDE DEF z
  <2>4. Typed(z) /\ Same(a, z, S)
    <3>1. IsTyped("refused_fin", z["refused_fin"])
      BY <2>2 DEF IsTyped
    <3>2. Same(a, z, S)
      BY <2>2 DEF Same
    <3> QED BY <1>2, <2>2, <3>1, <3>2, OneFieldTyped
  <2>5. Typed(EndOfStream(a)) /\ Same(a, EndOfStream(a), S)
    <3>1. Typed(EndOfStream(a)) /\ Same(a, EndOfStream(a), GivenFields)
      BY <1>2, <1>3, EndOfStreamKeeps
    <3>2. GivenFields \subseteq S
      OBVIOUS
    <3> QED BY <3>1, <3>2, SameMore
  <2> HIDE DEF r, S
  <2> QED BY <1>2, <2>1, <2>3, <2>4, <2>5
<1> HIDE DEF r, S
<1>5. Same(d, r, S)
  BY <1>2, <1>4 DEF Same
<1> QED BY <1>4, <1>5 DEF r, a, S

LEMMA ConcludeWorks ==
  ASSUME NEW d, Typed(d), d.input = TRUE, AppOk(d)
  PROVE  /\ Typed(Conclude(d)) /\ Open(Conclude(d))
         /\ Works(d) => Kept(Conclude(d))
<1> DEFINE s == IF d.acked > 0 THEN Sent(d) ELSE d
           g == GiveFin(GiveData(s))
           i == [g EXCEPT !.input = FALSE]
           how == IF s.state = "LAST_ACK" THEN "closed" ELSE "aborted"
           C == Conclude(d)
<1>1. /\ Typed(s) /\ AppOk(s) /\ s.input = TRUE /\ (Works(d) => Works(s))
  <2>1. CASE d.acked > 0
    <3>1. /\ Typed(Sent(d)) /\ Same(d, Sent(d), SentFields) /\ AppOk(Sent(d))
          /\ Sound(d) => Sound(Sent(d))
      BY SentWorks
    <3>2. Sent(d).input = d.input
      BY <3>1 DEF Same, SentFields, CloseFields, EndedFields, PcbFields, Fields, HandlerFields
    <3>3. Works(d) => Sound(d)
      BY <2>1 DEF Works, Sound, Going
    <3>4. Sound(Sent(d)) => Works(Sent(d))
      BY DEF Works, Sound, Going
    <3> QED BY <2>1, <3>1, <3>2, <3>3, <3>4
  <2>2. CASE ~(d.acked > 0)
    BY <2>2
  <2> QED BY <2>1, <2>2
<1> HIDE DEF s
<1>2. CASE d.state = "FAULT"
  <2>1. C = d
    BY <1>2 DEF Conclude
  <2>2. Open(d) /\ Kept(d)
    BY <1>2 DEF AppOk, Open, Kept, Active
  <2> QED BY <2>1, <2>2
<1>3. CASE d.state # "FAULT" /\ "RESET" \in d.recv_flags
  <2>1. C = Gone(ErrTcp(d), "reset")
    BY <1>3 DEF Conclude
  <2>2. "reset" \in Endings
    BY DEF Endings
  <2> HIDE DEF C
  <2> QED BY <2>1, <2>2, ErrTcpGone DEF C
<1>4. CASE d.state # "FAULT" /\ "RESET" \notin d.recv_flags /\ "CLOSED" \in s.recv_flags
  <2>1. C = Gone(s, how)
    BY <1>4 DEF Conclude, s
  <2>2. s.app \notin AppOpen
    BY <1>1, <1>4 DEF AppOk
  <2>3. how \in Endings
    BY DEF Endings
  <2> HIDE DEF how, C
  <2> QED BY <1>1, <2>1, <2>2, <2>3, GoneWorks DEF C
<1>5. CASE /\ d.state # "FAULT" /\ "RESET" \notin d.recv_flags /\ "CLOSED" \notin s.recv_flags
           /\ s.recv_data # <<>> /\ "RXCLOSED" \in s.flags
  <2>1. C = Abort(s)
    BY <1>5 DEF Conclude, s
  <2>2. Open(s)
    BY <1>1 DEF AppOk, Open
  <2> HIDE DEF C
  <2> QED BY <1>1, <2>1, <2>2, AbortWorks DEF C
<1>6. CASE /\ d.state # "FAULT" /\ "RESET" \notin d.recv_flags /\ "CLOSED" \notin s.recv_flags
           /\ ~(s.recv_data # <<>> /\ "RXCLOSED" \in s.flags)
  <2>1. C = Output(i)
    BY <1>6 DEF Conclude, s
  <2> DEFINE S == GivenFields \cup {"refused_data", "refused_fin"}
  <2>2. Typed(g) /\ Same(s, g, S)
    BY <1>1, GiveWorks
  <2> HIDE DEF g
  <2>3. Same(g, i, {"input"}) /\ i.input = FALSE
    BY <2>2 DEF Same, Typed, Fields, HandlerFields
  <2> HIDE DEF i
  <2>4. Typed(i)
    <3>1. IsTyped("input", i["input"])
      BY <2>3 DEF IsTyped
    <3> QED BY <2>2, <2>3, <3>1, OneFieldTyped
  <2>5. Same(s, i, S \cup {"input"})
    BY <2>2, <2>3 DEF Same
  <2>6. i.state = s.state /\ i.app = s.app /\ i.recv_flags = s.recv_flags
    BY <2>5 DEF Same, GivenFields, Fields, PcbFields, HandlerFields, ConnFields
  <2>7. Going(s) => Going(i)
    <3>1. (S \cup {"input"}) \cap (SenderFields \cup {"acked"}) = {}
      BY DEF GivenFields, SenderFields
    <3> QED BY <2>5, <2>6, <3>1, GoingFramed
  <2> DEFINE o == Output(i)
  <2>8. Typed(o) /\ Same(i, o, OutputFields)
    BY <2>4, OutputKeeps
  <2>9. Going(i) => Ordered(o) \/ Ahead(o)
    BY <2>4, OutputWorks DEF Going
  <2> HIDE DEF o
  <2>10. o.state = s.state /\ o.app = s.app
    BY <2>6, <2>8 DEF Same, OutputFields, Fields, PcbFields, ConnFields
  <2>11. Open(o)
    BY <1>1, <2>10 DEF AppOk, Open
  <2>12. Works(d) => Kept(o)
    BY <1>1, <1>6, <2>7, <2>9, <2>10, AheadOvertakes DEF Works, Kept
  <2> QED BY <2>1, <2>8, <2>11, <2>12 DEF o
<1> QED BY <1>2, <1>3, <1>4, <1>5, <1>6

-----------------------------------------------------------------------------
(* tcp_input.  A host between two steps, and what a step makes of it.      *)
HostOk(d) == Typed(d) /\ Open(d) /\ d.input = FALSE /\ d.recv_flags = {}
Stepped(d, r) == Typed(r) /\ Open(r) /\ (Sorted(d) => Kept(r))

LEMMA StepFramed ==
  ASSUME NEW d, NEW r, Open(d), Typed(r), r.state = d.state, r.app = d.app, Ordered(d) => Ordered(r)
  PROVE  Stepped(d, r)
  BY DEF Stepped, Open, Sorted, Kept

LEMMA EmitStep ==
  ASSUME NEW d, NEW m \in Messages, HostOk(d)
  PROVE  Stepped(d, Emit(d, ResetFor(m)))
<1> DEFINE r == Emit(d, ResetFor(m))
<1>1. Typed(r) /\ Same(d, r, {"out"})
  <2>1. ResetFor(m) \in Messages
    BY ResetType, MessageFacts DEF ResetFor
  <2> QED BY <2>1, EmitKeeps DEF HostOk
<1> HIDE DEF r
<1>2. r.app = d.app
  BY <1>1 DEF Same, Fields, ConnFields
<1>3. (Ordered(d) => Ordered(r)) /\ r.state = d.state
  <2>1. {"out"} \cap (SenderFields \cup {"state"}) = {}
    BY DEF SenderFields
  <2> QED BY <1>1, <2>1, FramedSame
<1>4. Stepped(d, r)
  BY <1>1, <1>2, <1>3, StepFramed DEF HostOk
<1> QED BY <1>4 DEF r

(* A new pcb, whose SYN goes out.                                           *)
Fresh(f) ==
  /\ DOMAIN f = PcbFields /\ PcbTyped(f) /\ f.state \in Syn /\ f.snd_lbb = 1 /\ f.lastack = 1
  /\ f.snd_nxt \in {1, 2} /\ f.unsent = <<>> /\ f.unacked = <<>> /\ f.snd_buf = SndBuf
Begun(d, f) == Output(EnqueueFlags(With(d, f), TRUE, FALSE))

LEMMA WithTyped ==
  ASSUME NEW d, NEW f, Typed(d), DOMAIN f = PcbFields, PcbTyped(f)
  PROVE  /\ Typed(With(d, f)) /\ \A x \in PcbFields : With(d, f)[x] = f[x]
         /\ \A x \in HandlerFields \cup ConnFields : With(d, f)[x] = d[x]
<1> DEFINE w == With(d, f)
<1>1. DOMAIN d = Fields
  BY DEF Typed
<1>2. /\ DOMAIN w = DOMAIN d \cup DOMAIN f
      /\ \A x \in DOMAIN f : w[x] = f[x]
      /\ \A x \in DOMAIN d \ DOMAIN f : w[x] = d[x]
  BY WithFacts
<1> HIDE DEF w
<1>3. DOMAIN w = Fields /\ \A x \in PcbFields : w[x] = f[x]
  BY <1>1, <1>2 DEF Fields
<1>4. \A x \in HandlerFields \cup ConnFields : w[x] = d[x]
  BY <1>1, <1>2, FieldsApart DEF Fields
<1>5. PcbTyped(w)
  BY <1>3 DEF PcbTyped, PcbFields
<1>6. HandlerTyped(w) /\ ConnTyped(w)
  BY <1>4 DEF Typed, HandlerTyped, ConnTyped, HandlerFields, ConnFields
<1> QED BY <1>3, <1>4, <1>5, <1>6 DEF Typed, w

LEMMA BegunWorks ==
  ASSUME NEW d, NEW f, Typed(d), Fresh(f)
  PROVE  /\ Typed(Begun(d, f)) /\ Begun(d, f).app = d.app /\ Begun(d, f).state = f.state
         /\ Ordered(Begun(d, f))
<1> DEFINE w == With(d, f)
           e == EnqueueFlags(w, TRUE, FALSE)
           o == Output(e)
           s == Segment(1, <<>>, TRUE, FALSE)
<1>1. DOMAIN f = PcbFields /\ PcbTyped(f)
  BY DEF Fresh
<1>2. /\ Typed(w) /\ \A x \in PcbFields : w[x] = f[x]
      /\ \A x \in HandlerFields \cup ConnFields : w[x] = d[x]
  BY <1>1, WithTyped
<1> HIDE DEF w
<1>3. /\ w.snd_lbb = 1 /\ w.lastack = 1 /\ w.snd_nxt \in {1, 2} /\ w.unsent = <<>>
      /\ w.unacked = <<>> /\ w.snd_buf = SndBuf /\ w.state = f.state /\ w.state \in Syn
  BY <1>2 DEF Fresh, PcbFields
<1>4. w.app = d.app
  BY <1>2 DEF ConnFields
<1>5. w.snd_buf > 0
  BY <1>3, SizeAssumption DEF SndBuf
<1>6. /\ Typed(e) /\ Same(w, e, {"flags", "unsent", "snd_lbb", "snd_buf"})
      /\ e.unsent = Append(w.unsent, Segment(w.snd_lbb, <<>>, TRUE, FALSE))
      /\ e.snd_lbb = w.snd_lbb + 1
  BY <1>2, <1>5, EnqueueKeeps
<1> HIDE DEF e
<1>7. /\ e.lastack = 1 /\ e.snd_nxt \in {1, 2} /\ e.unacked = <<>> /\ e.state = f.state
      /\ e.app = d.app /\ e.snd_lbb = 2 /\ e.unsent = Append(<<>>, s)
  BY <1>3, <1>4, <1>6 DEF Same, Fields, PcbFields, ConnFields
<1>8. s \in Segs /\ s.seq = 1 /\ TcpLen(s) = 1 /\ SegEnd(s) = 2
  <2>1. 1 \in Int /\ TRUE \in BOOLEAN /\ FALSE \in BOOLEAN /\ 1 + 1 = 2
    OBVIOUS
  <2> QED BY <2>1, FlagSegment
<1> HIDE DEF s
<1>9. Line(e.unsent, 1, 2) /\ e.unsent # <<>> /\ e.unsent[1] = s
  <2>1. Line(<<>>, 1, 1)
    BY LineNone
  <2> DEFINE q == <<>>
             u == 1
  <2>2. Line(Append(q, s), 1, 2) /\ Append(q, s) # <<>>
    <3>1. Line(q, u, u) /\ s \in Segs /\ s.seq = u /\ TcpLen(s) >= 1
      BY <1>8, <2>1
    <3> HIDE DEF q, u
    <3>2. Line(Append(q, s), u, SegEnd(s)) /\ Append(q, s) # <<>>
      BY <3>1, AppendLine
    <3> QED BY <1>8, <3>2 DEF u
  <2>3. Append(<<>>, s)[1] = s
    <3>1. <<>> \in Seq(Segs) /\ Len(<<>>) = 0
      BY EmptySeq
    <3>2. Append(<<>>, s)[Len(<<>>) + 1] = s
      BY <1>8, <3>1, AppendProperties
    <3> QED BY <3>1, <3>2
  <2> QED BY <1>7, <2>2, <2>3
<1>10. Line(e.unacked, 1, 1)
  BY <1>7, LineNone
<1>11. Limits(e, 1, 2)
  BY <1>3, <1>7 DEF Limits
<1>12. Queues(e, 1, 1, 2)
  BY <1>7, <1>8, <1>9, <1>10, <1>11 DEF Queues
<1>13. Ordered(e)
  BY <1>12 DEF Ordered
<1>14. Typed(o) /\ Same(e, o, OutputFields) /\ Ordered(o)
  BY <1>6, <1>13, OutputKeeps, OutputWorks
<1> HIDE DEF o
<1>15. o.app = d.app /\ o.state = f.state
  BY <1>7, <1>14 DEF Same, OutputFields, Fields, PcbFields, ConnFields
<1> QED BY <1>14, <1>15 DEF Begun, o, e, w

LEMMA ListenInputWorks ==
  ASSUME NEW d, NEW m \in Messages, HostOk(d), d.state = "LISTEN"
  PROVE  Stepped(d, ListenInput(d, m))
<1> DEFINE f == [NoPcb EXCEPT !.state = "SYN_RCVD", !.rcv_nxt = m.seq + 1,
                              !.rcv_ann_right_edge = m.seq + 1, !.snd_wl1 = m.seq - 1,
                              !.snd_wnd = m.wnd, !.snd_wl2 = 1, !.snd_nxt = 1,
                              !.lastack = 1, !.snd_lbb = 1]
           r == Begun(d, f)
           L == ListenInput(d, m)
<1>1. L \in {Emit(d, ResetFor(m)), r, d}
  BY DEF ListenInput, Begun
<1>2. Stepped(d, d)
  BY DEF Stepped, HostOk, Sorted, Kept
<1>3. Fresh(f)
  <2>1. m.seq \in Int /\ m.wnd \in Int
    BY MessageFacts
  <2>2. DOMAIN NoPcb = PcbFields /\ PcbTyped(NoPcb)
    BY NoPcbTyped
  <2>3. NoPcb.unsent = <<>> /\ NoPcb.unacked = <<>> /\ NoPcb.snd_buf = SndBuf
    BY DEF NoPcb
  <2> DEFINE F == {"state", "rcv_nxt", "rcv_ann_right_edge", "snd_wl1", "snd_wnd", "snd_wl2",
                   "snd_nxt", "lastack", "snd_lbb"}
             N == NoPcb
  <2>4. f = [N EXCEPT !.state = "SYN_RCVD", !.rcv_nxt = m.seq + 1,
                              !.rcv_ann_right_edge = m.seq + 1, !.snd_wl1 = m.seq - 1,
                              !.snd_wnd = m.wnd, !.snd_wl2 = 1, !.snd_nxt = 1,
                              !.lastack = 1, !.snd_lbb = 1]
    OBVIOUS
  <2> HIDE DEF N, f
  <2>5. DOMAIN f = PcbFields /\ \A x \in PcbFields \ F : f[x] = N[x]
    BY <2>2, <2>4 DEF PcbFields, N
  <2>6. /\ f.state = "SYN_RCVD" /\ f.rcv_nxt = m.seq + 1 /\ f.rcv_ann_right_edge = m.seq + 1
        /\ f.snd_wl1 = m.seq - 1 /\ f.snd_wnd = m.wnd /\ f.snd_wl2 = 1 /\ f.snd_nxt = 1
        /\ f.lastack = 1 /\ f.snd_lbb = 1
    BY <2>2, <2>4 DEF PcbFields, N
  <2>7. PcbTyped(f)
    <3>1. /\ f.state \in States /\ f.rcv_nxt \in Int /\ f.rcv_ann_right_edge \in Int
          /\ f.snd_wl1 \in Int /\ f.snd_wnd \in Int /\ f.snd_wl2 \in Int /\ f.snd_nxt \in Int
          /\ f.lastack \in Int /\ f.snd_lbb \in Int
      BY <2>1, <2>6 DEF States, Active
    <3> QED BY <2>2, <2>5, <3>1 DEF PcbTyped, PcbFields, N
  <2>8. f.unsent = <<>> /\ f.unacked = <<>> /\ f.snd_buf = SndBuf
    BY <2>3, <2>5 DEF PcbFields, N
  <2> QED BY <2>5, <2>6, <2>7, <2>8 DEF Fresh, Syn
<1>4. Stepped(d, r)
  <2> HIDE DEF f
  <2>1. Typed(r) /\ r.app = d.app /\ Ordered(r)
    BY <1>3, BegunWorks DEF HostOk
  <2> HIDE DEF r
  <2>2. Open(r)
    BY <2>1 DEF HostOk, Open
  <2> QED BY <2>1, <2>2 DEF Stepped, Kept
<1> HIDE DEF L, r
<1> QED BY <1>1, <1>2, <1>4, EmitStep DEF L

LEMMA TimeWaitInputWorks ==
  ASSUME NEW d, NEW m \in Messages, HostOk(d), d.state = "TIME_WAIT"
  PROVE  Stepped(d, TimeWaitInput(d, m))
<1> DEFINE s == Set(d, {"ACK_NOW"})
           r == Output(s)
           T == TimeWaitInput(d, m)
<1>1. T \in {Emit(d, ResetFor(m)), r, d}
  BY DEF TimeWaitInput
<1>2. Stepped(d, d)
  BY DEF Stepped, HostOk, Sorted, Kept
<1>3. Typed(s) /\ Same(d, s, {"flags"})
  <2>1. {"ACK_NOW"} \in SUBSET Flags
    BY DEF Flags
  <2> QED BY <2>1, FlagsKeep DEF HostOk
<1> HIDE DEF s
<1>4. Typed(r) /\ Same(s, r, OutputFields)
  BY <1>3, OutputKeeps
<1> HIDE DEF r
<1>5. r.state = d.state /\ r.app = d.app
  BY <1>3, <1>4 DEF Same, OutputFields, Fields, PcbFields, ConnFields
<1>6. Stepped(d, r)
  BY <1>4, <1>5 DEF Stepped, HostOk, Open, Kept, Active
<1> HIDE DEF T
<1> QED BY <1>1, <1>2, <1>6, EmitStep DEF T

LEMMA InputWorks ==
  ASSUME NEW d, NEW m \in Messages, HostOk(d), d.state # "FAULT"
  PROVE  Stepped(d, Input(d, m))
<1> DEFINE r == ProcessRefused(d)
           i == [r EXCEPT !.input = TRUE]
           p == Process(i, m)
           S == RecvedFields \cup {"recvmbox", "refused_data", "refused_fin"}
<1>1. CASE d.state = "CLOSED"
  <2> HIDE DEF r, i, p, S
  <2>1. Input(d, m) = d \/ Input(d, m) = Emit(d, ResetFor(m))
    BY <1>1 DEF Input, Active
  <2>2. Stepped(d, d)
    BY DEF Stepped, HostOk, Sorted, Kept
  <2> QED BY <2>1, <2>2, EmitStep
<1>2. CASE d.state = "LISTEN"
  <2>1. Input(d, m) = ListenInput(d, m)
    BY <1>2 DEF Input, Active
  <2> QED BY <1>2, <2>1, ListenInputWorks
<1>3. CASE d.state = "TIME_WAIT"
  <2>1. Input(d, m) = TimeWaitInput(d, m)
    BY <1>3 DEF Input, Active
  <2> QED BY <1>3, <2>1, TimeWaitInputWorks
<1>4. CASE d.state \in Active
  <2>1. Typed(r) /\ Same(d, r, S) /\ (Ordered(d) => Ordered(r))
    BY ProcessRefusedKeeps, ProcessRefusedOrdered DEF HostOk
  <2>2. Input(d, m) = r \/ Input(d, m) = Conclude(p)
    BY <1>4 DEF Input, Active
  <2> HIDE DEF r
  <2>3. r.state = d.state /\ r.app = d.app /\ r.recv_flags = d.recv_flags
    BY <2>1 DEF Same, RecvedFields, OutputFields, Fields, PcbFields, HandlerFields, ConnFields
  <2>4. Stepped(d, r)
    BY <2>1, <2>3, StepFramed DEF HostOk
  <2>5. Same(r, i, {"input"}) /\ i.input = TRUE
    BY <2>1 DEF Same, Typed, Fields, HandlerFields
  <2> HIDE DEF i
  <2>6. Typed(i)
    <3>1. IsTyped("input", i["input"])
      BY <2>5 DEF IsTyped
    <3> QED BY <2>1, <2>5, <3>1, OneFieldTyped
  <2>7. i.state = d.state /\ i.app = d.app /\ i.recv_flags = {}
    BY <2>3, <2>5 DEF Same, Fields, PcbFields, HandlerFields, ConnFields, HostOk
  <2>8. Ordered(r) => Ordered(i)
    <3>1. {"input"} \cap (SenderFields \cup {"state"}) = {}
      BY DEF SenderFields
    <3> QED BY <2>5, <3>1, FramedSame
  <2>9. AppOk(i)
    BY <2>7 DEF HostOk, Open, AppOk
  <2>10. Processed(i, p)
    BY <1>4, <2>6, <2>7, <2>9, ProcessWorks
  <2> HIDE DEF p
  <2>11. Typed(p) /\ p.input = TRUE /\ AppOk(p) /\ (Ordered(i) => Works(p))
    BY <2>5, <2>10 DEF Processed
  <2>12. Typed(Conclude(p)) /\ Open(Conclude(p)) /\ (Works(p) => Kept(Conclude(p)))
    BY <2>11, ConcludeWorks
  <2>13. Stepped(d, Conclude(p))
    BY <1>4, <2>1, <2>8, <2>11, <2>12 DEF Stepped, Sorted
  <2> QED BY <2>2, <2>4, <2>13
<1>5. d.state \in States
  BY DEF HostOk, Typed, PcbTyped
<1> QED BY <1>1, <1>2, <1>3, <1>4, <1>5 DEF States

-----------------------------------------------------------------------------
(* The other steps: the calls of the application and the timers.           *)
LEMMA OpeningWorks ==
  ASSUME NEW d, HostOk(d)
  PROVE  Stepped(d, Opening(d))
<1> DEFINE a == [d EXCEPT !.app = "connect"]
           N == NoPcb
           f == [N EXCEPT !.state = "SYN_SENT", !.snd_nxt = 2, !.lastack = 1, !.snd_lbb = 1]
           r == Begun(a, f)
<1>1. Opening(d) = r
  BY DEF Opening, Begun
<1>2. Same(d, a, {"app"}) /\ a.app = "connect"
  BY DEF Same, HostOk, Typed, Fields, ConnFields
<1> HIDE DEF a
<1>3. Typed(a)
  <2>1. IsTyped("app", a["app"])
    BY <1>2 DEF IsTyped, Apps
  <2> QED BY <1>2, <2>1, OneFieldTyped DEF HostOk
<1>4. DOMAIN N = PcbFields /\ PcbTyped(N)
  BY NoPcbTyped
<1>5. N.unsent = <<>> /\ N.unacked = <<>> /\ N.snd_buf = SndBuf
  BY DEF NoPcb
<1> HIDE DEF N
<1>6. /\ DOMAIN f = PcbFields
      /\ \A x \in PcbFields \ {"state", "snd_nxt", "lastack", "snd_lbb"} : f[x] = N[x]
      /\ f.state = "SYN_SENT" /\ f.snd_nxt = 2 /\ f.lastack = 1 /\ f.snd_lbb = 1
  BY <1>4 DEF PcbFields
<1> HIDE DEF f
<1>7. PcbTyped(f)
  <2>1. f.state \in States /\ f.snd_nxt \in Int /\ f.lastack \in Int /\ f.snd_lbb \in Int
    BY <1>6 DEF States, Active
  <2> QED BY <1>4, <1>6, <2>1 DEF PcbTyped, PcbFields
<1>8. f.unsent = <<>> /\ f.unacked = <<>> /\ f.snd_buf = SndBuf
  BY <1>5, <1>6 DEF PcbFields
<1>9. Fresh(f)
  BY <1>6, <1>7, <1>8 DEF Fresh, Syn
<1>10. Typed(r) /\ r.app = a.app /\ Ordered(r)
  BY <1>3, <1>9, BegunWorks
<1> HIDE DEF r
<1>11. Open(r)
  BY <1>2, <1>10 DEF Open, AppOpen
<1> QED BY <1>1, <1>10, <1>11 DEF Stepped, Kept

(* A field the queues do not have is assigned before the step.              *)
LEMMA Assigned ==
  ASSUME NEW d, NEW r, NEW x, Typed(d), Same(d, r, {x}), x \notin SenderFields \cup {"state"},
         IsTyped(x, r[x])
  PROVE  /\ Typed(r) /\ r.state = d.state /\ (Ordered(d) => Ordered(r))
<1>1. {x} \cap (SenderFields \cup {"state"}) = {}
  OBVIOUS
<1> QED BY <1>1, FramedSame, OneFieldTyped

LEMMA WritingWorks ==
  ASSUME NEW d, HostOk(d), d.app \in AppOpen
  PROVE  Stepped(d, Writing(d))
<1> DEFINE a == [d EXCEPT !.app = "write"]
           r == WriteMore(a)
<1>1. Writing(d) = r
  BY DEF Writing
<1>2. Same(d, a, {"app"}) /\ a.app = "write"
  BY DEF Same, HostOk, Typed, Fields, ConnFields
<1> HIDE DEF a
<1>3. Typed(a) /\ a.state = d.state /\ (Ordered(d) => Ordered(a))
  <2>1. IsTyped("app", a["app"])
    BY <1>2 DEF IsTyped, Apps
  <2>2. "app" \notin SenderFields \cup {"state"}
    BY DEF SenderFields
  <2> QED BY <1>2, <2>1, <2>2, Assigned DEF HostOk
<1>4. a.state \in {"ESTABLISHED", "CLOSE_WAIT"}
  BY <1>3 DEF HostOk, Open
<1>5. Typed(r) /\ r.state = a.state /\ (Ordered(a) => Ordered(r))
  BY <1>3, <1>4, WriteMoreWorks
<1> HIDE DEF r
<1>6. Open(r) /\ d.state \in Active
  BY <1>3, <1>4, <1>5 DEF Open, Active
<1> QED BY <1>1, <1>3, <1>5, <1>6 DEF Stepped, Sorted, Kept

LEMMA TakingWorks ==
  ASSUME NEW d, HostOk(d), d.app = "took"
  PROVE  Stepped(d, Taking(d))
<1> DEFINE a == Recved(d, d.took)
           r == [a EXCEPT !.took = 0, !.app = IF d.eof THEN "eof" ELSE "open"]
           S == {"took", "app"}
<1>1. Taking(d) = r
  BY DEF Taking
<1>2. d.took \in Nat /\ Typed(d)
  BY DEF HostOk, Typed, ConnTyped
<1>3. Typed(a) /\ Same(d, a, RecvedFields) /\ (Ordered(d) => Ordered(a))
  BY <1>2, RecvedKeeps, RecvedOrdered
<1> HIDE DEF a
<1>4. Same(a, r, S) /\ r.took = 0 /\ r.app \in {"eof", "open"}
  BY <1>3 DEF Same, Typed, Fields, ConnFields
<1> HIDE DEF r
<1>5. Typed(r)
  <2>1. r.took \in Nat /\ r.app \in Apps
    BY <1>4 DEF Apps
  <2>2. \A x \in S : IsTyped(x, r[x])
    BY <2>1 DEF IsTyped
  <2> QED BY <1>3, <1>4, <2>2, Retyped
<1>6. (Ordered(a) => Ordered(r)) /\ r.state = a.state
  <2>1. S \cap (SenderFields \cup {"state"}) = {}
    BY DEF SenderFields
  <2> HIDE DEF S
  <2> QED BY <1>4, <2>1, FramedSame
<1>7. r.state = d.state
  BY <1>3, <1>6 DEF Same, RecvedFields, OutputFields, Fields, PcbFields
<1>8. Open(r)
  BY <1>7 DEF HostOk, Open, AppOpen
<1> QED BY <1>1, <1>3, <1>5, <1>6, <1>7, <1>8 DEF Stepped, Sorted, Kept

LEMMA ShuttingWorks ==
  ASSUME NEW d, HostOk(d), d.app = "eof"
  PROVE  Stepped(d, Shutting(d))
<1> DEFINE a == Drain(d)
           s == Set(a, {"RXCLOSED"})
           r == [s EXCEPT !.refused_data = <<>>, !.refused_fin = FALSE, !.app = "shut"]
           S == {"refused_data", "refused_fin", "app"}
<1>1. Shutting(d) = r
  BY DEF Shutting
<1>2. Typed(a) /\ Same(d, a, RecvedFields \cup {"recvmbox", "rcvopen"}) /\ (Ordered(d) => Ordered(a))
  BY DrainKeeps, DrainOrdered DEF HostOk
<1> HIDE DEF a
<1>3. Typed(s) /\ Same(a, s, {"flags"})
  BY <1>2, MarkedKeeps
<1> HIDE DEF s
<1>4. (Ordered(a) => Ordered(s)) /\ s.state = a.state
  <2>1. {"flags"} \cap (SenderFields \cup {"state"}) = {}
    BY DEF SenderFields
  <2> QED BY <1>3, <2>1, FramedSame
<1>5. Same(s, r, S) /\ r.refused_data = <<>> /\ r.refused_fin = FALSE /\ r.app = "shut"
  BY <1>3 DEF Same, Typed, Fields, PcbFields, ConnFields
<1> HIDE DEF r
<1>6. Typed(r)
  <2>1. r.refused_data \in Seq(Int) /\ r.refused_fin \in BOOLEAN /\ r.app \in Apps
    BY <1>5, EmptySeq DEF Apps
  <2>2. \A x \in S : IsTyped(x, r[x])
    BY <2>1 DEF IsTyped
  <2> QED BY <1>3, <1>5, <2>2, Retyped
<1>7. (Ordered(s) => Ordered(r)) /\ r.state = s.state
  <2>1. S \cap (SenderFields \cup {"state"}) = {}
    BY DEF SenderFields
  <2> HIDE DEF S
  <2> QED BY <1>5, <2>1, FramedSame
<1>8. a.state = d.state
  BY <1>2 DEF Same, RecvedFields, OutputFields, Fields, PcbFields
<1>9. Open(r)
  BY <1>4, <1>7, <1>8 DEF HostOk, Open, AppOpen
<1> QED BY <1>1, <1>2, <1>4, <1>6, <1>7, <1>8, <1>9 DEF Stepped, Sorted, Kept

(* netconn_delete.                                                          *)
LEMMA ClosingNetconn ==
  ASSUME NEW d, Typed(d), d.state \in {"ESTABLISHED", "CLOSE_WAIT"}, d.input = FALSE,
         d.recv_flags = {}
  PROVE  Stepped(d, CloseInternal(d))
<1> DEFINE r == CloseInternal(d)
<1>1. Typed(r) /\ AppOk(r) /\ (Ordered(d) => Sound(r)) /\ r.recv_flags = {}
  BY CloseInternalWorks
<1> HIDE DEF r
<1>2. Stepped(d, r)
  BY <1>1 DEF Stepped, AppOk, Open, Sound, Sorted, Kept, Active
<1> QED BY <1>2 DEF r

LEMMA ClosingWorks ==
  ASSUME NEW d, HostOk(d), d.app \in AppOpen
  PROVE  Stepped(d, Closing(d))
<1> DEFINE a == Drain(d)
<1>1. Closing(d) = CloseInternal(a)
  BY DEF Closing
<1>2. Typed(a) /\ Same(d, a, RecvedFields \cup {"recvmbox", "rcvopen"}) /\ (Ordered(d) => Ordered(a))
  BY DrainKeeps, DrainOrdered DEF HostOk
<1> HIDE DEF a
<1>3. a.state = d.state /\ a.input = d.input /\ a.recv_flags = d.recv_flags
  BY <1>2 DEF Same, RecvedFields, OutputFields, Fields, PcbFields, HandlerFields
<1>4. Stepped(a, CloseInternal(a))
  BY <1>2, <1>3, ClosingNetconn DEF HostOk, Open
<1> QED BY <1>1, <1>2, <1>3, <1>4 DEF Stepped, Sorted

(* tcp_fasttmr and tcp_slowtmr.                                             *)
LEMMA FastTimerWorks ==
  ASSUME NEW d, HostOk(d)
  PROVE  Stepped(d, FastTimer(d))
<1> DEFINE N == {"ACK_NOW"}
           B == {"ACK_DELAY", "ACK_NOW"}
           s == Set(d, N)
           o == Output(s)
           c == Clear(o, B)
           f == IF "ACK_DELAY" \in d.flags THEN c ELSE d
           r == ProcessRefused(f)
<1>1. FastTimer(d) = r
  BY DEF FastTimer
<1>2. N \in SUBSET Flags /\ B \in SUBSET Flags
  BY DEF Flags
<1> HIDE DEF N, B
<1>3. Typed(d)
  BY DEF HostOk
<1>4. Typed(s) /\ Same(d, s, {"flags"})
  BY <1>2, <1>3, FlagsKeep
<1> HIDE DEF s
<1>5. Typed(o) /\ Same(s, o, OutputFields) /\ (Ordered(s) => Ordered(o))
  BY <1>4, OutputKeeps, OutputWorks
<1> HIDE DEF o
<1>6. Typed(c) /\ Same(o, c, {"flags"})
  BY <1>2, <1>5, FlagsKeep
<1> HIDE DEF c
<1>7. (Ordered(d) => Ordered(s)) /\ s.state = d.state /\ s.app = d.app
  <2>1. {"flags"} \cap (SenderFields \cup {"state"}) = {}
    BY DEF SenderFields
  <2>2. s.app = d.app
    BY <1>4 DEF Same, Fields, ConnFields
  <2> QED BY <1>4, <2>1, <2>2, FramedSame
<1>8. (Ordered(o) => Ordered(c)) /\ c.state = o.state /\ c.app = o.app
  <2>1. {"flags"} \cap (SenderFields \cup {"state"}) = {}
    BY DEF SenderFields
  <2>2. c.app = o.app
    BY <1>6 DEF Same, Fields, ConnFields
  <2> QED BY <1>6, <2>1, <2>2, FramedSame
<1>9. o.state = s.state /\ o.app = s.app
  BY <1>5 DEF Same, OutputFields, Fields, PcbFields, ConnFields
<1>10. Typed(f) /\ (Ordered(d) => Ordered(f)) /\ f.state = d.state /\ f.app = d.app
  BY <1>3, <1>5, <1>6, <1>7, <1>8, <1>9
<1> HIDE DEF f
<1> DEFINE S == RecvedFields \cup {"recvmbox", "refused_data", "refused_fin"}
<1>11. Typed(r) /\ Same(f, r, S) /\ (Ordered(f) => Ordered(r))
  BY <1>10, ProcessRefusedKeeps, ProcessRefusedOrdered
<1> HIDE DEF r
<1>12. r.state = f.state /\ r.app = f.app
  BY <1>11 DEF Same, RecvedFields, OutputFields, Fields, PcbFields, ConnFields
<1>13. Stepped(d, r)
  BY <1>10, <1>11, <1>12, StepFramed DEF HostOk
<1> QED BY <1>1, <1>13

LEMMA PollSendsWorks ==
  ASSUME NEW d, HostOk(d), d.state \in Active
  PROVE  Stepped(d, PollSends(d))
<1> DEFINE s == Sent(d)
           o == Output(s)
           r == PollSends(d)
<1>1. r = IF s.state \in Active THEN o ELSE s
  BY DEF PollSends
<1> HIDE DEF r
<1>2. AppOk(d) /\ Typed(d)
  BY DEF HostOk, Open, AppOk
<1>3. Typed(s) /\ AppOk(s) /\ (Sound(d) => Sound(s)) /\ s.recv_flags = {}
  BY <1>2, SentWorks DEF HostOk
<1> HIDE DEF s
<1>4. Typed(o) /\ Same(s, o, OutputFields) /\ (Ordered(s) => Ordered(o))
  BY <1>3, OutputKeeps, OutputWorks
<1> HIDE DEF o
<1>5. o.state = s.state /\ o.app = s.app
  BY <1>4 DEF Same, OutputFields, Fields, PcbFields, ConnFields
<1>6. Sorted(d) => Sound(d)
  BY DEF Sorted, Sound
<1>7. Sound(s) => Sorted(s)
  BY <1>3 DEF Sorted, Sound
<1>8. Typed(r) /\ r.state = s.state /\ r.app = s.app /\ (Sorted(s) => Kept(r))
  BY <1>1, <1>3, <1>4, <1>5 DEF Sorted, Kept
<1>9. Stepped(d, r)
  BY <1>3, <1>6, <1>7, <1>8 DEF Stepped, Open, AppOk
<1> QED BY <1>9 DEF r

LEMMA PollEndsWorks ==
  ASSUME NEW d, HostOk(d), d.app = "close"
  PROVE  Stepped(d, PollEnds(d))
<1> DEFINE c == CloseInternal(d)
<1>1. PollEnds(d) = c \/ PollEnds(d) = Abort(c)
  BY DEF PollEnds
<1>2. Stepped(d, c)
  BY ClosingNetconn DEF HostOk, Open, AppOpen
<1> HIDE DEF c
<1>3. Stepped(d, Abort(c))
  BY <1>2, AbortWorks DEF Stepped
<1> QED BY <1>1, <1>2, <1>3

LEMMA RexmitRtoWorks ==
  ASSUME NEW d, HostOk(d), d.state \in Active, d.unacked # <<>>
  PROVE  Stepped(d, RexmitRto(d))
<1> DEFINE q == Requeued(d)
           o == Output(q)
           S == {"cwnd", "unsent", "unacked", "nrtx"}
<1>1. /\ Typed(q) /\ Same(d, q, S) /\ q.unsent = d.unacked \o d.unsent /\ q.unacked = <<>>
      /\ RexmitRto(d) = o
  BY RequeuedKeeps DEF HostOk
<1> HIDE DEF q
<1>2. /\ q.state = d.state /\ q.app = d.app /\ q.lastack = d.lastack /\ q.snd_nxt = d.snd_nxt
      /\ q.snd_lbb = d.snd_lbb
  BY <1>1 DEF Same, Fields, PcbFields, ConnFields
<1>3. ASSUME Ordered(d) PROVE Ordered(q)
  <2>1. PICK b, m, t : Queues(d, b, m, t)
    BY <1>3 DEF Ordered
  <2>2. Line(d.unacked, b, m) /\ Line(d.unsent, m, t) /\ Limits(d, b, t)
    BY <2>1 DEF Queues
  <2>3. Line(q.unsent, b, t)
    BY <1>1, <2>2, LineJoin
  <2>4. Line(q.unacked, b, b)
    <3>1. b \in Int
      BY <2>2 DEF Line
    <3> QED BY <1>1, <3>1, LineNone
  <2>5. q.unsent # <<>> /\ q.unsent[1] = d.unacked[1]
    <3> DEFINE u == d.unacked
               v == d.unsent
    <3>1. u \in Seq(Segs) /\ v \in Seq(Segs) /\ u # <<>>
      BY DEF HostOk, Typed, PcbTyped
    <3> HIDE DEF u, v
    <3>2. Len(u) \in Nat /\ Len(v) \in Nat /\ Len(u) >= 1
      BY <3>1, LineFacts, LenProperties, EmptySeq
    <3> DEFINE w == u \o v
    <3>3. Len(w) = Len(u) + Len(v) /\ w \in Seq(Segs)
      BY <3>1, ConcatProperties
    <3>4. w[1] = u[1]
      BY <3>1, <3>2, ConcatProperties
    <3> HIDE DEF w
    <3>5. w # <<>>
      BY <3>2, <3>3
    <3> QED BY <1>1, <3>4, <3>5 DEF w, u, v
  <2>6. d.lastack < SegEnd(d.unacked[1])
    BY <2>1 DEF Queues
  <2>7. Limits(q, b, t)
    BY <1>2, <2>2 DEF Limits
  <2>8. Queues(q, b, b, t)
    BY <1>1, <1>2, <2>3, <2>4, <2>5, <2>6, <2>7 DEF Queues
  <2> QED BY <2>8 DEF Ordered
<1>4. Typed(o) /\ Same(q, o, OutputFields) /\ (Ordered(q) => Ordered(o))
  BY <1>1, OutputKeeps, OutputWorks
<1> HIDE DEF o
<1>5. o.state = q.state /\ o.app = q.app
  BY <1>4 DEF Same, OutputFields, Fields, PcbFields, ConnFields
<1>6. Stepped(d, o)
  BY <1>2, <1>3, <1>4, <1>5, StepFramed DEF HostOk
<1> QED BY <1>1, <1>6

LEMMA ProbeWorks ==
  ASSUME NEW d, HostOk(d)
  PROVE  Stepped(d, ZeroWindowProbe(d))
<1> DEFINE r == ZeroWindowProbe(d)
           S == {"out", "rcv_ann_right_edge"}
<1>1. Typed(r) /\ Same(d, r, S)
  BY ProbeKeeps DEF HostOk
<1> HIDE DEF r
<1>2. r.app = d.app
  BY <1>1 DEF Same, Fields, ConnFields
<1>3. (Ordered(d) => Ordered(r)) /\ r.state = d.state
  <2>1. S \cap (SenderFields \cup {"state"}) = {}
    BY DEF SenderFields
  <2> HIDE DEF S
  <2> QED BY <1>1, <2>1, FramedSame
<1>4. Stepped(d, r)
  BY <1>1, <1>2, <1>3, StepFramed DEF HostOk
<1> QED BY <1>4 DEF r

LEMMA RemovingWorks ==
  ASSUME NEW d, HostOk(d)
  PROVE  Stepped(d, Removing(d))
<1> DEFINE p == Purge(d)
           how == "timeout"
<1>1. Typed(p) /\ how \in Endings
  BY PurgeKeeps DEF HostOk, Endings
<1>2. Removing(d) = ErrTcp(Gone(p, how))
  BY DEF Removing
<1> HIDE DEF p, how
<1> QED BY <1>1, <1>2, ErrTcpGone DEF Stepped

LEMMA ExpiringWorks ==
  ASSUME NEW d, HostOk(d), d.state = "TIME_WAIT"
  PROVE  Stepped(d, Expiring(d))
<1> DEFINE how == IF d.ended = "no" THEN "closed" ELSE d.ended
<1>1. how \in Endings
  BY DEF HostOk, Typed, ConnTyped, Endings
<1>2. d.app \notin AppOpen
  BY DEF HostOk, Open
<1>3. Expiring(d) = Gone(d, how)
  BY DEF Expiring
<1> HIDE DEF how
<1> QED BY <1>1, <1>2, <1>3, GoneWorks DEF Stepped, HostOk

-----------------------------------------------------------------------------
(* The inductive invariant: types, and for each host between two steps that *)
(* its netconn is only in use while its connection is open, and its queues  *)
(* are in order unless a segment sent again was overtaken.                  *)
TypeOK ==
  /\ DOMAIN host = Ends /\ \A e \in Ends : Typed(host[e])
  /\ net \in [Ends -> Seq(Messages)] /\ troubles \in Nat /\ overtaken \in SUBSET Ends
InOrderOrOvertaken == \A e \in Ends \ overtaken : Sorted(host[e])
QueueInv == TypeOK /\ (\A e \in Ends : HostOk(host[e])) /\ InOrderOrOvertaken

LEMMA AtEndWorks ==
  ASSUME NEW d, Typed(d), Open(d)
  PROVE  HostOk(AtEnd(d)) /\ (Sorted(d) => Sorted(AtEnd(d)))
<1> DEFINE r == AtEnd(d)
           S == {"input", "recv_data", "recv_flags", "out", "driver"}
<1>1. /\ Same(d, r, S) /\ r.input = FALSE /\ r.recv_data = <<>> /\ r.recv_flags = {}
      /\ r.out = <<>> /\ r.driver = "sends"
  BY DEF AtEnd, Same, Typed, Fields, HandlerFields
<1> HIDE DEF r
<1>2. Typed(r)
  <2>1. /\ r.input \in BOOLEAN /\ r.recv_data \in Seq(Int) /\ r.recv_flags \in SUBSET RecvFlags
        /\ r.out \in Seq(Messages) /\ r.driver \in Drivers
    BY <1>1, EmptySeq DEF Drivers
  <2>2. \A x \in S : IsTyped(x, r[x])
    BY <2>1 DEF IsTyped
  <2> QED BY <1>1, <2>2, Retyped
<1>3. r.app = d.app
  BY <1>1 DEF Same, Fields, ConnFields
<1>4. (Ordered(d) => Ordered(r)) /\ r.state = d.state
  <2>1. S \cap (SenderFields \cup {"state"}) = {}
    BY DEF SenderFields
  <2> HIDE DEF S
  <2> QED BY <1>1, <2>1, FramedSame
<1>5. HostOk(r) /\ (Sorted(d) => Sorted(r))
  BY <1>1, <1>2, <1>3, <1>4 DEF HostOk, Open, Sorted
<1> QED BY <1>5 DEF r

(* What the driver is about to do does not matter before the step.          *)
LEMMA DriverWorks ==
  ASSUME NEW d, NEW driver \in Drivers, HostOk(d)
  PROVE  /\ HostOk([d EXCEPT !.driver = driver])
         /\ Sorted(d) => Sorted([d EXCEPT !.driver = driver])
         /\ [d EXCEPT !.driver = driver].state = d.state
         /\ [d EXCEPT !.driver = driver].app = d.app
         /\ [d EXCEPT !.driver = driver].unacked = d.unacked
<1> DEFINE r == [d EXCEPT !.driver = driver]
<1>1. Same(d, r, {"driver"}) /\ r.driver = driver
  BY DEF HostOk, Same, Typed, Fields, HandlerFields
<1> HIDE DEF r
<1>2. Typed(r) /\ r.state = d.state /\ (Ordered(d) => Ordered(r))
  <2>1. IsTyped("driver", r["driver"])
    BY <1>1 DEF IsTyped
  <2>2. "driver" \notin SenderFields \cup {"state"}
    BY DEF SenderFields
  <2> QED BY <1>1, <2>1, <2>2, Assigned DEF HostOk
<1>3. r.app = d.app /\ r.input = d.input /\ r.recv_flags = d.recv_flags /\ r.unacked = d.unacked
  BY <1>1 DEF Same, Fields, PcbFields, HandlerFields, ConnFields
<1>4. HostOk(r) /\ (Sorted(d) => Sorted(r))
  BY <1>2, <1>3 DEF HostOk, Open, Sorted
<1> QED BY <1>2, <1>3, <1>4 DEF r

LEMMA TakenOff ==
  ASSUME NEW q \in Seq(Messages), NEW m \in Nat, m <= Len(q)
  PROVE  SubSeq(q, m + 1, Len(q)) \in Seq(Messages)
<1>1. m \in 0 .. Len(q)
  BY LenProperties
<1> QED BY <1>1, BehindFacts DEF Behind

(* A step of the tcpip thread of e.                                         *)
Handled(e, driver, d, m) ==
  /\ Stepped([host[e] EXCEPT !.driver = driver], d)
  /\ driver \in Drivers /\ m \in Nat /\ m <= Len(net[e])
  /\ troubles' \in Nat
  /\ host' = [host EXCEPT ![e] = AtEnd(d)]
  /\ net' = [x \in Ends |-> IF x = e THEN SubSeq(net[x], m + 1, Len(net[x])) ELSE net[x] \o d.out]
  /\ overtaken' = overtaken \cup {x \in {e} : Overtaken(d)}

LEMMA HandledKeeps ==
  ASSUME QueueInv, NEW e \in Ends, NEW driver, NEW d, NEW m, Handled(e, driver, d, m)
  PROVE  QueueInv'
<1> DEFINE h == host[e]
           k == [h EXCEPT !.driver = driver]
           a == AtEnd(d)
<1>1. /\ Stepped(k, d) /\ driver \in Drivers /\ m \in Nat /\ m <= Len(net[e]) /\ troubles' \in Nat
      /\ host' = [host EXCEPT ![e] = a] /\ overtaken' = overtaken \cup {x \in {e} : Overtaken(d)}
  BY DEF Handled
<1>2. HostOk(h) /\ (e \notin overtaken => Sorted(h))
  BY DEF QueueInv, InOrderOrOvertaken
<1>3. Sorted(h) => Sorted(k)
  BY <1>1, <1>2, DriverWorks
<1>4. Typed(d) /\ Open(d) /\ (Sorted(k) => Kept(d))
  BY <1>1 DEF Stepped
<1>5. HostOk(a) /\ (Sorted(d) => Sorted(a))
  BY <1>4, AtEndWorks
<1>6. DOMAIN host = Ends
  BY DEF QueueInv, TypeOK
<1>7. host'[e] = a /\ DOMAIN host' = Ends /\ \A x \in Ends \ {e} : host'[x] = host[x]
  BY <1>1, <1>6
<1> HIDE DEF a, k, h
<1>8. \A x \in Ends : HostOk(host[x])'
  BY <1>5, <1>7 DEF QueueInv
<1>9. \A x \in Ends : x \notin overtaken' => Sorted(host'[x])
  <2>1. CASE Overtaken(d)
    BY <1>1, <1>7, <2>1 DEF QueueInv, InOrderOrOvertaken
  <2>2. CASE ~Overtaken(d)
    <3>1. Kept(d) => Sorted(d)
      BY <2>2 DEF Kept, Sorted
    <3>2. e \notin overtaken => Sorted(a)
      BY <1>2, <1>3, <1>4, <1>5, <3>1 DEF h
    <3> QED BY <1>1, <1>7, <3>2 DEF QueueInv, InOrderOrOvertaken
  <2> QED BY <2>1, <2>2
<1>10. net' \in [Ends -> Seq(Messages)]
  <2>1. net \in [Ends -> Seq(Messages)] /\ d.out \in Seq(Messages)
    BY <1>4 DEF QueueInv, TypeOK, Typed, HandlerTyped
  <2>2. SubSeq(net[e], m + 1, Len(net[e])) \in Seq(Messages)
    BY <1>1, <2>1, TakenOff
  <2>3. \A x \in Ends : net[x] \o d.out \in Seq(Messages)
    BY <2>1, ConcatProperties
  <2> QED BY <2>2, <2>3 DEF Handled
<1>11. overtaken' \in SUBSET Ends
  BY <1>1 DEF QueueInv, TypeOK
<1>12. \A x \in Ends : Typed(host[x])'
  BY <1>8 DEF HostOk
<1> QED BY <1>1, <1>7, <1>8, <1>9, <1>10, <1>11, <1>12 DEF QueueInv, TypeOK, InOrderOrOvertaken

(* The host that a handler is given: with what the driver is about to do.   *)
Before(e, driver) == [host[e] EXCEPT !.driver = driver]
LEMMA BeforeWorks ==
  ASSUME QueueInv, NEW e \in Ends, NEW driver \in Drivers
  PROVE  /\ HostOk(Before(e, driver)) /\ Before(e, driver).state = host[e].state
         /\ Before(e, driver).app = host[e].app /\ Before(e, driver).unacked = host[e].unacked
<1>1. HostOk(host[e])
  BY DEF QueueInv
<1> QED BY <1>1, DriverWorks DEF Before

Extra(driver) == IF driver = "sends" THEN 0 ELSE 1
LEMMA RanKeeps ==
  ASSUME QueueInv, NEW e \in Ends, NEW driver \in Drivers, NEW d, NEW m \in {0, 1}, NEW c \in Nat,
         Costs(c + Extra(driver)), Result(e, d, m), Stepped(Before(e, driver), d),
         m = 0 \/ net[e] # <<>>
  PROVE  QueueInv'
<1>1. troubles' \in Nat
  BY DEF Costs, Extra, QueueInv, TypeOK
<1>2. m \in Nat /\ m <= Len(net[e])
  BY LenProperties, EmptySeq DEF QueueInv, TypeOK
<1>3. Handled(e, driver, d, m)
  BY <1>1, <1>2 DEF Before, Handled, Result
<1> QED BY <1>3, HandledKeeps

LEMMA ConnectKeeps ==
  ASSUME QueueInv, NEW e \in Ends, Connect(e)
  PROVE  QueueInv'
<1>1. PICK driver \in Drivers :
         /\ Costs(0 + (IF driver = "sends" THEN 0 ELSE 1))
         /\ \E d \in {Opening(h) : h \in {[host[e] EXCEPT !.driver = driver]}} : Result(e, d, 0)
  BY DEF Connect, Handle, Drivers
<1>2. Costs(0 + Extra(driver)) /\ Result(e, Opening(Before(e, driver)), 0)
  BY <1>1 DEF Before, Extra
<1>3. Stepped(Before(e, driver), Opening(Before(e, driver)))
  BY BeforeWorks, OpeningWorks
<1> QED BY <1>2, <1>3, RanKeeps

LEMMA WriteCallKeeps ==
  ASSUME QueueInv, NEW e \in Ends, WriteCall(e)
  PROVE  QueueInv'
<1>1. PICK driver \in Drivers :
         /\ Costs(0 + (IF driver = "sends" THEN 0 ELSE 1))
         /\ \E d \in {Writing(h) : h \in {[host[e] EXCEPT !.driver = driver]}} : Result(e, d, 0)
  BY DEF WriteCall, Handle, Drivers
<1>2. Costs(0 + Extra(driver)) /\ Result(e, Writing(Before(e, driver)), 0)
  BY <1>1 DEF Before, Extra
<1>3. host[e].app \in AppOpen
  BY DEF WriteCall, MayWrite, AppOpen
<1>4. Stepped(Before(e, driver), Writing(Before(e, driver)))
  BY <1>3, BeforeWorks, WritingWorks
<1> QED BY <1>2, <1>4, RanKeeps

LEMMA TakeCallKeeps ==
  ASSUME QueueInv, NEW e \in Ends, TakeCall(e)
  PROVE  QueueInv'
<1>1. PICK driver \in Drivers :
         /\ Costs(0 + (IF driver = "sends" THEN 0 ELSE 1))
         /\ \E d \in {Taking(h) : h \in {[host[e] EXCEPT !.driver = driver]}} : Result(e, d, 0)
  BY DEF TakeCall, Handle, Drivers
<1>2. Costs(0 + Extra(driver)) /\ Result(e, Taking(Before(e, driver)), 0)
  BY <1>1 DEF Before, Extra
<1>3. host[e].app = "took"
  BY DEF TakeCall
<1>4. Stepped(Before(e, driver), Taking(Before(e, driver)))
  BY <1>3, BeforeWorks, TakingWorks
<1> QED BY <1>2, <1>4, RanKeeps

LEMMA ShutCallKeeps ==
  ASSUME QueueInv, NEW e \in Ends, ShutCall(e)
  PROVE  QueueInv'
<1>1. PICK driver \in Drivers :
         /\ Costs(0 + (IF driver = "sends" THEN 0 ELSE 1))
         /\ \E d \in {Shutting(h) : h \in {[host[e] EXCEPT !.driver = driver]}} : Result(e, d, 0)
  BY DEF ShutCall, Handle, Drivers
<1>2. Costs(0 + Extra(driver)) /\ Result(e, Shutting(Before(e, driver)), 0)
  BY <1>1 DEF Before, Extra
<1>3. host[e].app = "eof"
  BY DEF ShutCall
<1>4. Stepped(Before(e, driver), Shutting(Before(e, driver)))
  BY <1>3, BeforeWorks, ShuttingWorks
<1> QED BY <1>2, <1>4, RanKeeps

LEMMA CloseCallKeeps ==
  ASSUME QueueInv, NEW e \in Ends, CloseCall(e)
  PROVE  QueueInv'
<1> DEFINE cost == IF host[e].app = "written" \/ (MayWrite(e) /\ host[e].left = 0) THEN 0 ELSE 1
<1>1. PICK driver \in Drivers :
         /\ Costs(cost + (IF driver = "sends" THEN 0 ELSE 1))
         /\ \E d \in {Closing(h) : h \in {[host[e] EXCEPT !.driver = driver]}} : Result(e, d, 0)
  BY DEF CloseCall, Handle, Drivers
<1>2. Costs(cost + Extra(driver)) /\ Result(e, Closing(Before(e, driver)), 0)
  BY <1>1 DEF Before, Extra
<1>3. host[e].app \in AppOpen
  BY DEF CloseCall, MayWrite, AppOpen
<1>4. Stepped(Before(e, driver), Closing(Before(e, driver)))
  BY <1>3, BeforeWorks, ClosingWorks
<1>5. cost \in Nat
  BY DEF MayWrite
<1> HIDE DEF cost
<1> QED BY <1>2, <1>4, <1>5, RanKeeps

LEMMA FastTmrKeeps ==
  ASSUME QueueInv, NEW e \in Ends, FastTmr(e)
  PROVE  QueueInv'
<1>1. PICK driver \in Drivers :
         /\ Costs(0 + (IF driver = "sends" THEN 0 ELSE 1))
         /\ \E d \in {FastTimer(h) : h \in {[host[e] EXCEPT !.driver = driver]}} : Result(e, d, 0)
  BY DEF FastTmr, Handle, Drivers
<1>2. Costs(0 + Extra(driver)) /\ Result(e, FastTimer(Before(e, driver)), 0)
  BY <1>1 DEF Before, Extra
<1>3. Stepped(Before(e, driver), FastTimer(Before(e, driver)))
  BY BeforeWorks, FastTimerWorks
<1> QED BY <1>2, <1>3, RanKeeps

LEMMA PollKeeps ==
  ASSUME QueueInv, NEW e \in Ends, Poll(e)
  PROVE  QueueInv'
<1>1. PICK driver \in Drivers :
         /\ Costs(0 + (IF driver = "sends" THEN 0 ELSE 1))
         /\ \E d \in {PollSends(h) : h \in {[host[e] EXCEPT !.driver = driver]}} : Result(e, d, 0)
  BY DEF Poll, Handle, Drivers
<1>2. Costs(0 + Extra(driver)) /\ Result(e, PollSends(Before(e, driver)), 0)
  BY <1>1 DEF Before, Extra
<1>3. host[e].state \in Active
  BY DEF Poll, MayPoll
<1>4. Stepped(Before(e, driver), PollSends(Before(e, driver)))
  BY <1>3, BeforeWorks, PollSendsWorks
<1> QED BY <1>2, <1>4, RanKeeps

LEMMA PollExpiresKeeps ==
  ASSUME QueueInv, NEW e \in Ends, PollExpires(e)
  PROVE  QueueInv'
<1>1. PICK driver \in Drivers :
         /\ Costs(1 + (IF driver = "sends" THEN 0 ELSE 1))
         /\ \E d \in {PollEnds(h) : h \in {[host[e] EXCEPT !.driver = driver]}} : Result(e, d, 0)
  BY DEF PollExpires, Handle, Drivers
<1>2. Costs(1 + Extra(driver)) /\ Result(e, PollEnds(Before(e, driver)), 0)
  BY <1>1 DEF Before, Extra
<1>3. host[e].app = "close"
  BY DEF PollExpires
<1>4. Stepped(Before(e, driver), PollEnds(Before(e, driver)))
  BY <1>3, BeforeWorks, PollEndsWorks
<1> QED BY <1>2, <1>4, RanKeeps

LEMMA RtoKeeps ==
  ASSUME QueueInv, NEW e \in Ends, Rto(e)
  PROVE  QueueInv'
<1> DEFINE cost == Early(e)
<1>1. PICK driver \in Drivers :
         /\ Costs(cost + (IF driver = "sends" THEN 0 ELSE 1))
         /\ \E d \in {RexmitRto(h) : h \in {[host[e] EXCEPT !.driver = driver]}} : Result(e, d, 0)
  BY DEF Rto, Handle, Drivers
<1>2. Costs(cost + Extra(driver)) /\ Result(e, RexmitRto(Before(e, driver)), 0)
  BY <1>1 DEF Before, Extra
<1>3. host[e].state \in Active /\ host[e].unacked # <<>>
  BY DEF Rto, MayRto
<1>4. Stepped(Before(e, driver), RexmitRto(Before(e, driver)))
  BY <1>3, BeforeWorks, RexmitRtoWorks
<1>5. cost \in Nat
  BY DEF Early
<1> HIDE DEF cost
<1> QED BY <1>2, <1>4, <1>5, RanKeeps

LEMMA PersistKeeps ==
  ASSUME QueueInv, NEW e \in Ends, Persist(e)
  PROVE  QueueInv'
<1> DEFINE cost == Early(e)
<1>1. PICK driver \in Drivers :
         /\ Costs(cost + (IF driver = "sends" THEN 0 ELSE 1))
         /\ \E d \in {ZeroWindowProbe(h) : h \in {[host[e] EXCEPT !.driver = driver]}} : Result(e, d, 0)
  BY DEF Persist, Handle, Drivers
<1>2. Costs(cost + Extra(driver)) /\ Result(e, ZeroWindowProbe(Before(e, driver)), 0)
  BY <1>1 DEF Before, Extra
<1>3. Stepped(Before(e, driver), ZeroWindowProbe(Before(e, driver)))
  BY BeforeWorks, ProbeWorks
<1>4. cost \in Nat
  BY DEF Early
<1> HIDE DEF cost
<1> QED BY <1>2, <1>3, <1>4, RanKeeps

LEMMA TimeWaitExpiryKeeps ==
  ASSUME QueueInv, NEW e \in Ends, TimeWaitExpiry(e)
  PROVE  QueueInv'
<1>1. PICK driver \in Drivers :
         /\ Costs(0 + (IF driver = "sends" THEN 0 ELSE 1))
         /\ \E d \in {Expiring(h) : h \in {[host[e] EXCEPT !.driver = driver]}} : Result(e, d, 0)
  BY DEF TimeWaitExpiry, Handle, Drivers
<1>2. Costs(0 + Extra(driver)) /\ Result(e, Expiring(Before(e, driver)), 0)
  BY <1>1 DEF Before, Extra
<1>3. host[e].state = "TIME_WAIT"
  BY DEF TimeWaitExpiry, MayTimeWaitExpire
<1>4. Stepped(Before(e, driver), Expiring(Before(e, driver)))
  BY <1>3, BeforeWorks, ExpiringWorks
<1> QED BY <1>2, <1>4, RanKeeps

LEMMA DeliverKeeps ==
  ASSUME QueueInv, NEW e \in Ends, Deliver(e)
  PROVE  QueueInv'
<1> DEFINE m == Head(net[e])
<1>1. net[e] # <<>> /\ host[e].state # "FAULT"
  BY DEF Deliver
<1>2. PICK driver \in Drivers :
         /\ Costs(0 + (IF driver = "sends" THEN 0 ELSE 1))
         /\ \E d \in {Input(h, m) : h \in {[host[e] EXCEPT !.driver = driver]}} : Result(e, d, 1)
  BY DEF Deliver, Handle, Drivers
<1>3. Costs(0 + Extra(driver)) /\ Result(e, Input(Before(e, driver), m), 1)
  BY <1>2 DEF Before, Extra
<1>4. m \in Messages
  BY <1>1, HeadTailProperties DEF QueueInv, TypeOK
<1> HIDE DEF m
<1>5. Stepped(Before(e, driver), Input(Before(e, driver), m))
  BY <1>1, <1>4, BeforeWorks, InputWorks
<1> QED BY <1>1, <1>3, <1>5, RanKeeps

LEMMA RemovedKeeps ==
  ASSUME QueueInv, NEW e \in Ends, NEW cost \in Nat, Removed(e, cost)
  PROVE  QueueInv'
<1>1. PICK driver \in Drivers :
         /\ Costs(cost + (IF driver = "sends" THEN 0 ELSE 1))
         /\ \E d \in {Removing(h) : h \in {[host[e] EXCEPT !.driver = driver]}} : Result(e, d, 0)
  BY DEF Removed, Handle, Drivers
<1>2. Costs(cost + Extra(driver)) /\ Result(e, Removing(Before(e, driver)), 0)
  BY <1>1 DEF Before, Extra
<1>3. Stepped(Before(e, driver), Removing(Before(e, driver)))
  BY BeforeWorks, RemovingWorks
<1> QED BY <1>2, <1>3, RanKeeps

(* The application takes what is in its mailbox, and the rest that is not a *)
(* handler: the queues are not touched.                                     *)
LEMMA OtherKeeps ==
  ASSUME QueueInv, NEW e \in Ends, NEW r, NEW S, host' = [host EXCEPT ![e] = r],
         Typed(r), Same(host[e], r, S), S \cap (SenderFields \cup {"state", "input", "recv_flags"}) = {},
         Open(r), net' = net, troubles' \in Nat, overtaken' = overtaken
  PROVE  QueueInv'
<1> DEFINE h == host[e]
<1>1. DOMAIN host = Ends /\ HostOk(h) /\ (e \notin overtaken => Sorted(h))
  BY DEF QueueInv, TypeOK, InOrderOrOvertaken
<1>2. host'[e] = r /\ DOMAIN host' = Ends /\ \A x \in Ends \ {e} : host'[x] = host[x]
  BY <1>1
<1> HIDE DEF h
<1>3. Same(h, r, S)
  BY DEF h
<1>4. (Ordered(h) => Ordered(r)) /\ r.state = h.state
  <2>1. S \cap (SenderFields \cup {"state"}) = {}
    OBVIOUS
  <2> QED BY <1>3, <2>1, FramedSame
<1>5. r.input = h.input /\ r.recv_flags = h.recv_flags
  BY <1>3 DEF Same, Fields, HandlerFields
<1>6. HostOk(r) /\ (Sorted(h) => Sorted(r))
  BY <1>1, <1>4, <1>5 DEF HostOk, Sorted
<1>7. \A x \in Ends : HostOk(host[x])'
  BY <1>2, <1>6 DEF QueueInv
<1>8. \A x \in Ends : x \notin overtaken' => Sorted(host'[x])
  BY <1>1, <1>2, <1>6 DEF QueueInv, InOrderOrOvertaken
<1>9. \A x \in Ends : Typed(host[x])'
  BY <1>7 DEF HostOk
<1>10. net' \in [Ends -> Seq(Messages)] /\ overtaken' \in SUBSET Ends
  BY DEF QueueInv, TypeOK
<1> QED BY <1>2, <1>7, <1>8, <1>9, <1>10 DEF QueueInv, TypeOK, InOrderOrOvertaken

LEMMA FetchKeeps ==
  ASSUME QueueInv, NEW e \in Ends, Fetch(e)
  PROVE  QueueInv'
<1> DEFINE h == host[e]
           p == Head(h.recvmbox)
           S == {"recvmbox", "app", "took", "got", "eof"}
           r == [h EXCEPT !.recvmbox = Tail(@), !.app = "took",
                          !.took = IF p = <<>> THEN 1 ELSE Len(p),
                          !.got = @ \o p, !.eof = (p = <<>>)]
<1>1. /\ h.app = "open" /\ h.recvmbox # <<>> /\ net' = net /\ troubles' = troubles
      /\ overtaken' = overtaken
  BY DEF Fetch
<1>2. host' = [host EXCEPT ![e] = r]
  BY DEF Fetch, QueueInv, TypeOK
<1>3. HostOk(h)
  BY DEF QueueInv
<1>4. p \in Seq(Int) /\ Tail(h.recvmbox) \in Seq(Seq(Int)) /\ h.got \in Seq(Int)
  <2>1. h.recvmbox \in Seq(Seq(Int)) /\ h.got \in Seq(Int)
    BY <1>3 DEF HostOk, Typed, ConnTyped
  <2> QED BY <1>1, <2>1, HeadTailProperties
<1> HIDE DEF h, p
<1>5. /\ Same(h, r, S) /\ r.recvmbox = Tail(h.recvmbox) /\ r.app = "took"
      /\ r.took = (IF p = <<>> THEN 1 ELSE Len(p)) /\ r.got = h.got \o p
  BY <1>3 DEF HostOk, Same, Typed, Fields, ConnFields
<1>6. r.eof \in BOOLEAN
  <2> DEFINE b == (p = <<>>)
  <2>1. b \in BOOLEAN
    OBVIOUS
  <2> HIDE DEF b
  <2>2. [h EXCEPT !.recvmbox = Tail(@), !.app = "took",
                          !.took = IF p = <<>> THEN 1 ELSE Len(p),
                          !.got = @ \o p, !.eof = b].eof = b
    BY <1>3, Zenon DEF HostOk, Typed, Fields, ConnFields
  <2> QED BY <2>1, <2>2 DEF b
<1> HIDE DEF r
<1>7. Typed(r)
  <2>1. r.took \in Nat
    BY <1>4, <1>5, LenProperties
  <2>2. r.got \in Seq(Int)
    BY <1>4, <1>5, ConcatProperties
  <2>3. r.recvmbox \in Seq(Seq(Int)) /\ r.app \in Apps
    BY <1>4, <1>5 DEF Apps
  <2>4. \A x \in S : IsTyped(x, r[x])
    BY <1>6, <2>1, <2>2, <2>3 DEF IsTyped
  <2> QED BY <1>3, <1>5, <2>4, Retyped DEF HostOk
<1>8. S \cap (SenderFields \cup {"state", "input", "recv_flags"}) = {}
  BY DEF SenderFields
<1>9. Open(r)
  <2>1. r.state = h.state
    BY <1>5 DEF Same, Fields, PcbFields
  <2> QED BY <1>1, <1>3, <2>1 DEF HostOk, Open, AppOpen
<1>10. troubles' \in Nat
  BY <1>1 DEF QueueInv, TypeOK
<1> HIDE DEF S
<1> QED BY <1>1, <1>2, <1>5, <1>7, <1>8, <1>9, <1>10, OtherKeeps DEF h

LEMMA ReleaseKeeps ==
  ASSUME QueueInv, NEW e \in Ends, Release(e)
  PROVE  QueueInv'
<1> DEFINE h == host[e]
           S == {"held"}
           r == [h EXCEPT !.held = {}]
<1>1. host' = [host EXCEPT ![e] = r] /\ net' = net /\ troubles' = troubles /\ overtaken' = overtaken
  BY DEF Release, QueueInv, TypeOK
<1>2. HostOk(h)
  BY DEF QueueInv
<1> HIDE DEF h
<1>3. Same(h, r, S) /\ r.held = {}
  BY <1>2 DEF HostOk, Same, Typed, Fields, ConnFields
<1> HIDE DEF r
<1>4. Typed(r)
  <2>1. IsTyped("held", r["held"])
    BY <1>3 DEF IsTyped
  <2> QED BY <1>2, <1>3, <2>1, OneFieldTyped DEF HostOk
<1>5. Open(r)
  <2>1. r.state = h.state /\ r.app = h.app
    BY <1>3 DEF Same, Fields, PcbFields, ConnFields
  <2> QED BY <1>2, <2>1 DEF HostOk, Open
<1>6. S \cap (SenderFields \cup {"state", "input", "recv_flags"}) = {}
  BY DEF SenderFields
<1>7. troubles' \in Nat
  BY <1>1 DEF QueueInv, TypeOK
<1> HIDE DEF S
<1> QED BY <1>1, <1>3, <1>4, <1>5, <1>6, <1>7, OtherKeeps DEF h

LEMMA DropOoseqKeeps ==
  ASSUME QueueInv, NEW e \in Ends, DropOoseq(e)
  PROVE  QueueInv'
<1> DEFINE h == host[e]
           S == {"ooseq"}
           r == [h EXCEPT !.ooseq = <<>>]
<1>1. /\ host' = [host EXCEPT ![e] = r] /\ net' = net /\ overtaken' = overtaken
      /\ troubles' = troubles + 1
  BY DEF DropOoseq, Costs, QueueInv, TypeOK
<1>2. HostOk(h)
  BY DEF QueueInv
<1> HIDE DEF h
<1>3. Same(h, r, S) /\ r.ooseq = <<>>
  BY <1>2 DEF HostOk, Same, Typed, Fields, PcbFields
<1> HIDE DEF r
<1>4. Typed(r)
  <2>1. r.ooseq \in Seq(Segs)
    BY <1>3, EmptySeq
  <2>2. IsTyped("ooseq", r["ooseq"])
    BY <2>1 DEF IsTyped
  <2> QED BY <1>2, <1>3, <2>2, OneFieldTyped DEF HostOk
<1>5. Open(r)
  <2>1. r.state = h.state /\ r.app = h.app
    BY <1>3 DEF Same, Fields, PcbFields, ConnFields
  <2> QED BY <1>2, <2>1 DEF HostOk, Open
<1>6. S \cap (SenderFields \cup {"state", "input", "recv_flags"}) = {}
  BY DEF SenderFields
<1>7. troubles' \in Nat
  BY <1>1 DEF QueueInv, TypeOK
<1> HIDE DEF S
<1> QED BY <1>1, <1>3, <1>4, <1>5, <1>6, <1>7, OtherKeeps DEF h

LEMMA NetworkKeeps ==
  ASSUME QueueInv, NEW e \in Ends, Network(e)
  PROVE  QueueInv'
<1> DEFINE q == net[e]
<1>1. q \in Seq(Messages) /\ net \in [Ends -> Seq(Messages)]
  BY DEF QueueInv, TypeOK
<1>2. /\ q # <<>>
      /\ \/ net' = [net EXCEPT ![e] = Tail(q)]
         \/ net' = [net EXCEPT ![e] = Append(q, Head(q))]
         \/ Len(q) > 1 /\ net' = [net EXCEPT ![e] = <<q[2], q[1]>> \o SubSeq(q, 3, Len(q))]
      /\ host' = host /\ overtaken' = overtaken /\ troubles' = troubles + 1
  BY <1>1, EmptySeq DEF Network, Lose, Duplicate, Reorder, Costs
<1> HIDE DEF q
<1>3. Head(q) \in Messages /\ Tail(q) \in Seq(Messages)
  BY <1>1, <1>2, HeadTailProperties
<1>4. Append(q, Head(q)) \in Seq(Messages)
  BY <1>1, <1>3, AppendProperties
<1>5. ASSUME Len(q) > 1 PROVE <<q[2], q[1]>> \o SubSeq(q, 3, Len(q)) \in Seq(Messages)
  <2>1. 2 \in Nat /\ 2 <= Len(q) /\ 2 + 1 = 3
    BY <1>1, <1>5, LenProperties
  <2>2. SubSeq(q, 2 + 1, Len(q)) \in Seq(Messages)
    BY <1>1, <2>1, TakenOff
  <2>3. q[1] \in Messages /\ q[2] \in Messages
    <3>1. 1 \in 1 .. Len(q) /\ 2 \in 1 .. Len(q)
      BY <1>1, <1>5, LenProperties
    <3> QED BY <1>1, <3>1, ElementOfSeq
  <2>4. <<q[2], q[1]>> \in Seq(Messages)
    BY <2>3
  <2> QED BY <2>1, <2>2, <2>4, ConcatProperties
<1>6. net' \in [Ends -> Seq(Messages)]
  BY <1>1, <1>2, <1>3, <1>4, <1>5
<1>7. troubles' \in Nat
  BY <1>2 DEF QueueInv, TypeOK
<1> QED BY <1>2, <1>6, <1>7 DEF QueueInv, TypeOK, InOrderOrOvertaken

LEMMA InitWorks == Init => QueueInv
<1> SUFFICES ASSUME Init PROVE QueueInv
  OBVIOUS
<1> DEFINE N == NoPcb
           f(e) == [N EXCEPT !.state = IF e = "server" THEN "LISTEN" ELSE "CLOSED"]
           c(e) == With(NewConn(e), Handler)
           h(e) == With(c(e), f(e))
<1>1. /\ host = [e \in Ends |-> h(e)] /\ net = [e \in Ends |-> <<>>]
      /\ troubles = 0 /\ overtaken = {}
  BY DEF Init
<1>2. DOMAIN N = PcbFields /\ PcbTyped(N)
  BY NoPcbTyped
<1> HIDE DEF N
<1>3. ASSUME NEW e \in Ends PROVE HostOk(h(e)) /\ h(e).state \in {"LISTEN", "CLOSED"}
  <2> DEFINE n == NewConn(e)
             k == Handler
             w == c(e)
             p == f(e)
             r == h(e)
  <2>1. /\ DOMAIN n = ConnFields /\ n.app \in {"start", "accept"} /\ n.left = ToWrite[e]
        /\ n.recvmbox = <<>> /\ n.rcvopen = TRUE /\ n.took = 0 /\ n.got = <<>> /\ n.eof = FALSE
        /\ n.ended = "no" /\ n.held = {}
    BY DEF NewConn, ConnFields
  <2>2. /\ DOMAIN k = HandlerFields /\ k.input = FALSE /\ k.recv_data = <<>> /\ k.recv_flags = {}
        /\ k.out = <<>> /\ k.driver = "sends"
    BY DEF Handler, HandlerFields
  <2>3. /\ DOMAIN w = DOMAIN n \cup DOMAIN k /\ \A x \in DOMAIN k : w[x] = k[x]
        /\ \A x \in DOMAIN n \ DOMAIN k : w[x] = n[x]
    BY WithFacts
  <2> HIDE DEF n, k, w
  <2>4. /\ DOMAIN w = ConnFields \cup HandlerFields /\ \A x \in HandlerFields : w[x] = k[x]
        /\ \A x \in ConnFields : w[x] = n[x]
    <3>1. HandlerFields \cap ConnFields = {}
      BY DEF HandlerFields, ConnFields
    <3> QED BY <2>1, <2>2, <2>3, <3>1
  <2>5. /\ DOMAIN p = PcbFields /\ \A x \in PcbFields \ {"state"} : p[x] = N[x]
        /\ p.state \in {"LISTEN", "CLOSED"}
    BY <1>2 DEF PcbFields
  <2> HIDE DEF p
  <2>6. PcbTyped(p)
    <3>1. p.state \in States
      BY <2>5 DEF States
    <3> QED BY <1>2, <2>5, <3>1 DEF PcbTyped, PcbFields
  <2>7. /\ DOMAIN r = DOMAIN w \cup DOMAIN p /\ \A x \in DOMAIN p : r[x] = p[x]
        /\ \A x \in DOMAIN w \ DOMAIN p : r[x] = w[x]
    <3>1. r = With(w, p)
      BY DEF w, p
    <3>2. /\ DOMAIN With(w, p) = DOMAIN w \cup DOMAIN p /\ \A x \in DOMAIN p : With(w, p)[x] = p[x]
          /\ \A x \in DOMAIN w \ DOMAIN p : With(w, p)[x] = w[x]
      BY WithFacts
    <3> HIDE DEF r
    <3> QED BY <3>1, <3>2, Zenon
  <2> HIDE DEF r
  <2>8. /\ DOMAIN r = Fields /\ \A x \in PcbFields : r[x] = p[x]
        /\ \A x \in HandlerFields : r[x] = k[x]
        /\ \A x \in ConnFields : r[x] = n[x]
    <3>1. PcbFields \cap (ConnFields \cup HandlerFields) = {}
      BY DEF PcbFields, HandlerFields, ConnFields
    <3> QED BY <2>4, <2>5, <2>7, <3>1 DEF Fields
  <2>9. r.state \in {"LISTEN", "CLOSED"}
    BY <2>5, <2>8 DEF PcbFields
  <2>14. PcbTyped(r)
    <3>1. \A x \in PcbFields : r[x] = p[x]
      BY <2>8
    <3> QED BY <2>6, <3>1 DEF PcbTyped, PcbFields
  <2>10. HandlerTyped(r) /\ r.input = FALSE /\ r.recv_flags = {}
    <3>1. /\ r.input = k.input /\ r.recv_data = k.recv_data /\ r.recv_flags = k.recv_flags
          /\ r.out = k.out /\ r.driver = k.driver
      BY <2>8 DEF HandlerFields
    <3>2. r.input \in BOOLEAN /\ r.input = FALSE
      BY <2>2, <3>1, Zenon
    <3>3. r.recv_data \in Seq(Int) /\ r.out \in Seq(Messages)
      BY <2>2, <3>1, EmptySeq
    <3>4. r.recv_flags = {} /\ r.driver \in Drivers
      BY <2>2, <3>1 DEF Drivers
    <3> QED BY <3>2, <3>3, <3>4 DEF HandlerTyped
  <2>11. ConnTyped(r) /\ r.app \in {"start", "accept"}
    <3>1. ToWrite[e] \in Nat
      BY DataAssumption
    <3>2. /\ r.app = n.app /\ r.left = n.left /\ r.recvmbox = n.recvmbox /\ r.rcvopen = n.rcvopen
          /\ r.took = n.took /\ r.got = n.got /\ r.eof = n.eof /\ r.ended = n.ended
          /\ r.held = n.held
      BY <2>8 DEF ConnFields
    <3>3. r.recvmbox \in Seq(Seq(Int)) /\ r.got \in Seq(Int)
      BY <2>1, <3>2, EmptySeq
    <3>4. r.rcvopen \in BOOLEAN /\ r.eof \in BOOLEAN
      BY <2>1, <3>2, Zenon
    <3>5. /\ r.app \in {"start", "accept"} /\ r.left \in Nat /\ r.took \in Nat
          /\ r.ended \in Endings /\ r.held \in SUBSET Int
      BY <2>1, <3>1, <3>2 DEF Endings
    <3> QED BY <3>3, <3>4, <3>5 DEF ConnTyped, Apps
  <2>12. Typed(r) /\ Open(r)
    BY <2>8, <2>9, <2>10, <2>11, <2>14 DEF Typed, Open, AppOpen
  <2>13. HostOk(r)
    BY <2>10, <2>12 DEF HostOk
  <2> QED BY <2>9, <2>13 DEF r
<1> HIDE DEF h
<1>4. \A e \in Ends : HostOk(host[e]) /\ host[e].state \in {"LISTEN", "CLOSED"}
  BY <1>1, <1>3
<1>5. \A e \in Ends : Typed(host[e]) /\ Sorted(host[e])
  BY <1>4 DEF HostOk, Sorted, Active
<1>6. net \in [Ends -> Seq(Messages)] /\ DOMAIN host = Ends
  BY <1>1, EmptySeq
<1> QED BY <1>1, <1>4, <1>5, <1>6 DEF QueueInv, TypeOK, InOrderOrOvertaken

LEMMA NextKeeps == QueueInv /\ [Next]_vars => QueueInv'
<1> SUFFICES ASSUME QueueInv, [Next]_vars PROVE QueueInv'
  OBVIOUS
<1>1. CASE UNCHANGED vars
  BY <1>1 DEF vars, QueueInv, TypeOK, InOrderOrOvertaken
<1>2. CASE Next
  <2>1. PICK e \in Ends :
          \/ Calls(e) \/ CloseCall(e) \/ Deliver(e) \/ Release(e)
          \/ Timers(e) \/ Network(e) \/ TimeOuts(e)
    BY <1>2 DEF Next
  <2>2. CASE Calls(e)
    BY <2>2, ConnectKeeps, WriteCallKeeps, FetchKeeps, TakeCallKeeps, ShutCallKeeps DEF Calls
  <2>3. CASE CloseCall(e)
    BY <2>3, CloseCallKeeps
  <2>4. CASE Deliver(e)
    BY <2>4, DeliverKeeps
  <2>5. CASE Release(e)
    BY <2>5, ReleaseKeeps
  <2>6. CASE Timers(e)
    <3>1. CASE GiveUp(e)
      <4>1. PICK cost \in {0, 1} : Removed(e, cost)
        BY <3>1 DEF GiveUp, Early
      <4> QED BY <4>1, RemovedKeeps
    <3> QED BY <2>6, <3>1, FastTmrKeeps, PollKeeps, RtoKeeps, PersistKeeps, TimeWaitExpiryKeeps
            DEF Timers
  <2>7. CASE Network(e)
    BY <2>7, NetworkKeeps
  <2>8. CASE TimeOuts(e)
    <3>1. CASE PollExpires(e)
      BY <3>1, PollExpiresKeeps
    <3>2. CASE DropOoseq(e)
      BY <3>2, DropOoseqKeeps
    <3>3. CASE SynRcvdTimeout(e) \/ LastAckTimeout(e) \/ FinWait2Timeout(e)
      <4>1. PICK cost \in {0, 1} : Removed(e, cost)
        BY <3>3 DEF SynRcvdTimeout, LastAckTimeout, FinWait2Timeout
      <4> QED BY <4>1, RemovedKeeps
    <3> QED BY <2>8, <3>1, <3>2, <3>3 DEF TimeOuts
  <2> QED BY <2>1, <2>2, <2>3, <2>4, <2>5, <2>6, <2>7, <2>8
<1> QED BY <1>1, <1>2

(* What a queue in order means for the invariant of the run.                *)
LEMMA OrderedCovers ==
  ASSUME NEW d, Typed(d), Ordered(d), NEW queued, queued = d.unacked \o d.unsent
  PROVE  /\ queued = <<>> => d.lastack >= d.snd_lbb
         /\ queued # <<>> =>
                /\ Head(queued).seq <= d.lastack /\ d.lastack < SegEnd(Head(queued))
                /\ Between(SegEnd(Last(queued)), d.snd_lbb, d.snd_lbb + 1)
         /\ \A i \in 1 .. Len(queued) - 1 : SegEnd(queued[i]) = queued[i + 1].seq
<1>0. d.snd_lbb \in Int /\ d.lastack \in Int
  BY DEF Typed, PcbTyped
<1>1. PICK b, m, t : Queues(d, b, m, t)
  BY DEF Ordered
<1>2. Line(d.unacked, b, m) /\ Line(d.unsent, m, t) /\ Limits(d, b, t)
  BY <1>1 DEF Queues
<1>3. Line(queued, b, t)
  BY <1>2, LineJoin
<1>4. d.unacked \in Seq(Segs) /\ d.unsent \in Seq(Segs)
  BY <1>2 DEF Line
<1>5. CASE queued = <<>>
  <2>1. d.unacked = <<>> /\ d.unsent = <<>>
    <3> DEFINE u == d.unacked
               v == d.unsent
    <3>1. u \in Seq(Segs) /\ v \in Seq(Segs) /\ u \o v = <<>>
      BY <1>4, <1>5
    <3> HIDE DEF u, v
    <3>2. u = <<>> /\ v = <<>>
      BY <3>1, ConcatEqualIffEmpty
    <3> QED BY <3>2 DEF u, v
  <2>2. d.lastack = t /\ t \in {d.snd_lbb, d.snd_lbb + 1} /\ t \in Int
    BY <1>1, <1>2, <2>1 DEF Queues, Limits, Line
  <2>3. Len(queued) = 0
    BY <1>3, <1>5, LineFacts
  <2>4. d.lastack >= d.snd_lbb
    BY <1>0, <2>2
  <2> QED BY <1>5, <2>3, <2>4
<1>6. CASE queued # <<>>
  <2>1. /\ Head(queued) = queued[1] /\ Head(queued).seq = b
    BY <1>3, <1>6, LineFirst
  <2>2. SegEnd(Last(queued)) = t
    BY <1>3, <1>6, LineLast
  <2>3. d.lastack < SegEnd(queued[1])
    <3>1. CASE d.unacked = <<>>
      <4>1. queued = d.unsent
        BY <1>4, <3>1, ConcatEmptySeq
      <4> QED BY <1>1, <1>6, <3>1, <4>1 DEF Queues
    <3>2. CASE d.unacked # <<>>
      <4> DEFINE u == d.unacked
                 v == d.unsent
      <4>1. Len(u) \in Nat /\ Len(v) \in Nat /\ Len(u) >= 1
        BY <1>2, <3>2, LineFacts
      <4>2. u \in Seq(Segs) /\ v \in Seq(Segs) /\ queued = u \o v
        BY <1>4
      <4> HIDE DEF u, v
      <4>3. queued[1] = u[1]
        BY <4>1, <4>2, ConcatProperties
      <4> QED BY <1>1, <3>2, <4>3 DEF Queues, u
    <3> QED BY <3>1, <3>2
  <2>4. b <= d.lastack /\ t \in {d.snd_lbb, d.snd_lbb + 1} /\ t \in Int
    BY <1>2 DEF Limits, Line
  <2>5. Between(t, d.snd_lbb, d.snd_lbb + 1)
    <3>1. t = d.snd_lbb \/ t = d.snd_lbb + 1
      BY <2>4
    <3> QED BY <1>0, <3>1 DEF Between
  <2> QED BY <1>3, <1>6, <2>1, <2>2, <2>3, <2>4, <2>5 DEF Line
<1> QED BY <1>5, <1>6

(* The variables keep their types: in every reachable state each field of   *)
(* each host has the values that its handlers expect, and what is under way *)
(* are segments of at most TCP_MSS.                                         *)
THEOREM TypeCorrect == Spec => []TypeOK
<1>1. QueueInv => TypeOK
  BY DEF QueueInv
<1> QED BY <1>1, InitWorks, NextKeeps, PTL DEF Spec

(* As long as an application has a netconn that it may read, write or       *)
(* close, the pcb below it is ESTABLISHED or CLOSE_WAIT: whatever ends the  *)
(* connection (a reset, a time-out, tcp_abort) tells the netconn first.     *)
THEOREM NetconnOpen == Spec => [](\A e \in Ends : Open(host[e]))
<1>1. QueueInv => \A e \in Ends : Open(host[e])
  BY DEF QueueInv, HostOk
<1> QED BY <1>1, InitWorks, NextKeeps, PTL DEF Spec

(* tcp_write, tcp_output, the retransmissions and tcp_receive lose nothing: *)
(* what is not acknowledged is on unacked and then on unsent, in order and  *)
(* without a gap, up to all that was written.                               *)
THEOREM QueuesCovered == Spec => []QueuesCover
<1>1. ASSUME QueueInv PROVE QueuesCover
  <2> SUFFICES ASSUME NEW e \in Ends \ overtaken, host[e].state \in Active
               PROVE  LET d == host[e]
                          queued == d.unacked \o d.unsent
                      IN  /\ queued = <<>> => d.lastack >= d.snd_lbb
                          /\ queued # <<>> =>
                                 /\ Head(queued).seq <= d.lastack /\ d.lastack < SegEnd(Head(queued))
                                 /\ Between(SegEnd(Last(queued)), d.snd_lbb, d.snd_lbb + 1)
                          /\ \A i \in 1 .. Len(queued) - 1 : SegEnd(queued[i]) = queued[i + 1].seq
    BY DEF QueuesCover
  <2>1. Ordered(host[e]) /\ Typed(host[e])
    BY <1>1 DEF QueueInv, InOrderOrOvertaken, Sorted, TypeOK
  <2> DEFINE d == host[e]
             queued == d.unacked \o d.unsent
  <2>2. Typed(d) /\ Ordered(d) /\ queued = d.unacked \o d.unsent
    BY <2>1
  <2> HIDE DEF d, queued
  <2>3. /\ queued = <<>> => d.lastack >= d.snd_lbb
        /\ queued # <<>> =>
               /\ Head(queued).seq <= d.lastack /\ d.lastack < SegEnd(Head(queued))
               /\ Between(SegEnd(Last(queued)), d.snd_lbb, d.snd_lbb + 1)
        /\ \A i \in 1 .. Len(queued) - 1 : SegEnd(queued[i]) = queued[i + 1].seq
    BY <2>2, OrderedCovers
  <2> QED BY <2>3 DEF d, queued
<1> QED BY <1>1, InitWorks, NextKeeps, PTL DEF Spec
===============================================================================

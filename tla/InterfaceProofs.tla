---------------------------- MODULE InterfaceProofs ----------------------------
(***************************************************************************)
(* Proofs about the interface.                                             *)
(*                                                                         *)
(* The first part is about Dhcp: its types, the timer that only an offer   *)
(* without server identifier stops, the addresses bound after they were    *)
(* asked for, and the lease that is never outlived in the states that hold *)
(* one.                                                                    *)
(*                                                                         *)
(* The second part is about LinkMonitor, for every set of modes, mailbox   *)
(* size and number of cable changes: there is one SNTP task per handle,    *)
(* and, unless memory runs out, the stack follows the reported link.       *)
(***************************************************************************)
EXTENDS Dhcp, LinkMonitor, SequenceTheorems, TLAPS

\* What a function that only sends leaves alone: the address and its lease.
Keeps(d, e) ==
    /\ e.ip = d.ip /\ e.t0 = d.t0 /\ e.t1 = d.t1 /\ e.t2 = d.t2
    /\ e.used = d.used

\* The client waits in state s with its timer running.
Waits(d, e, s) == e \in Client /\ Keeps(d, e) /\ e.state = s /\ e.timer

Holding == {"BOUND", "RENEWING", "REBINDING"}
Waiting == {"SELECTING", "REQUESTING", "CHECKING", "BACKING_OFF", "REBOOTING"}
Requests == {"DISCOVER", "REQUEST", "DECLINE", "RELEASE"}

-------------------------------------------------------------------------------
(* The functions. *)

\* The bound on tries is a number.
LEMMA MaxTriesNat == MaxTries \in Nat \ {0, 1}
BY TriesAssumption DEF MaxTries

\* dhcp_set_state changes state, tries and timer.
LEMMA SetStateLemma ==
    ASSUME NEW d \in Client, NEW s \in States
    PROVE  LET e == SetState(d, s) IN
             /\ e \in Client /\ Keeps(d, e) /\ e.state = s
             /\ e.offered = d.offered /\ e.xid = d.xid /\ e.out = d.out /\ e.offT0 = d.offT0
             /\ d.state = s => e = d
<1>1. CASE d.state = s
  BY <1>1 DEF SetState, Keeps
<1>2. CASE d.state # s
  <2> DEFINE e == [d EXCEPT !.state = s, !.tries = 0, !.timer = FALSE]
  <2>1. 0 \in 0..MaxTries
    BY MaxTriesNat
  <2>2. FALSE \in BOOLEAN
    OBVIOUS
  <2>3. e \in Client
    BY <2>1, <2>2, Zenon DEF Client
  <2>4. /\ Keeps(d, e) /\ e.state = s
        /\ e.offered = d.offered /\ e.xid = d.xid /\ e.out = d.out /\ e.offT0 = d.offT0
    BY DEF Client, Keeps
  <2>5. SetState(d, s) = e
    BY <1>2 DEF SetState
  <2> QED
    BY <1>2, <2>3, <2>4, <2>5, Zenon
<1> QED
  BY <1>1, <1>2

\* Sending changes the identifier and what is under way.
LEMMA SendLemma ==
    ASSUME NEW d \in Client, NEW m, m.type \in Requests, m.addr \in AnyAddress, NEW mem,
           m = [type |-> m.type, addr |-> m.addr]
    PROVE  LET e == Send(d, m, mem) IN
             /\ e \in Client /\ Keeps(d, e)
             /\ e.state = d.state /\ e.offered = d.offered /\ e.timer = d.timer
             /\ m.type = "REQUEST" => e.xid = d.xid
<1>1. CASE m.type \notin mem
  BY <1>1 DEF Send, Keeps
<1>2. CASE m.type \in mem
  <2> DEFINE x == IF m.type # "REQUEST" /\ d.tries = 0 THEN (d.xid + 1) % 3 ELSE d.xid
             o == IF m.type \in {"DISCOVER", "REQUEST"} THEN m ELSE NoMsg
             e == [d EXCEPT !.xid = x, !.out = o]
  <2>1. x \in 0..2
    BY DEF Client
  <2>2. o \in [type : {"none", "DISCOVER", "REQUEST"}, addr : AnyAddress]
    <3>1. CASE m.type \in {"DISCOVER", "REQUEST"}
      BY <3>1, Zenon
    <3>2. CASE m.type \notin {"DISCOVER", "REQUEST"}
      BY <3>2 DEF NoMsg, AnyAddress
    <3> QED
      BY <3>1, <3>2
  <2>3. Send(d, m, mem) = e
    BY <1>2 DEF Send
  <2>4. m.type = "REQUEST" => x = d.xid
    OBVIOUS
  <2> HIDE DEF x, o
  <2>5. e \in Client
    BY <2>1, <2>2, Zenon DEF Client
  <2>6. Keeps(d, e) /\ e.state = d.state /\ e.offered = d.offered /\ e.timer = d.timer /\ e.xid = x
    BY Zenon DEF Client, Keeps
  <2> QED
    BY <2>3, <2>4, <2>5, <2>6, Zenon
<1> QED
  BY <1>1, <1>2

\* The timer is set.
LEMMA RetryLemma ==
    ASSUME NEW d \in Client
    PROVE  LET e == Retry(d) IN
             /\ Waits(d, e, d.state) /\ e.offered = d.offered /\ e.xid = d.xid
<1> DEFINE n == IF d.tries < MaxTries THEN d.tries + 1 ELSE d.tries
           e == [d EXCEPT !.tries = n, !.timer = TRUE]
<1>1. n \in 0..MaxTries
  BY MaxTriesNat DEF Client
<1>2. Retry(d) = e
  BY DEF Retry
<1>3. TRUE \in BOOLEAN
  OBVIOUS
<1> HIDE DEF n
<1>4. e \in Client
  BY <1>1, <1>3, Zenon DEF Client
<1>5. Keeps(d, e) /\ e.state = d.state /\ e.timer /\ e.offered = d.offered /\ e.xid = d.xid
  BY Zenon DEF Client, Keeps
<1> QED
  BY <1>2, <1>4, <1>5, Zenon DEF Waits

\* Every function that sends ends in its state with the timer running.
LEMMA RequestLemma ==
    ASSUME NEW d \in Client, NEW s \in States, NEW a \in AnyAddress, NEW mem
    PROVE  Waits(d, Retry(Send(SetState(d, s), Request(a), mem)), s)
<1>1. SetState(d, s) \in Client /\ Keeps(d, SetState(d, s)) /\ SetState(d, s).state = s
  BY SetStateLemma
<1>2. Request(a).type = "REQUEST" /\ Request(a).addr = a
      /\ Request(a) = [type |-> Request(a).type, addr |-> Request(a).addr]
  BY DEF Request
<1> DEFINE e == Send(SetState(d, s), Request(a), mem)
<1>3. e \in Client /\ Keeps(SetState(d, s), e) /\ e.state = s
  BY <1>1, <1>2, SendLemma DEF Requests
<1>4. Waits(e, Retry(e), e.state)
  BY <1>3, RetryLemma
<1> QED
  BY <1>1, <1>3, <1>4 DEF Waits, Keeps

LEMMA SelectLemma ==
    ASSUME NEW d \in Client, NEW mem
    PROVE  Waits(d, Select(d, mem), "REQUESTING")
<1>1. SetState(d, "REQUESTING").offered \in AnyAddress
  BY SetStateLemma DEF States, Client
<1> QED
  BY <1>1, RequestLemma DEF Select, States

LEMMA RebootLemma ==
    ASSUME NEW d \in Client, NEW mem
    PROVE  Waits(d, Reboot(d, mem), "REBOOTING")
<1>1. SetState(d, "REBOOTING").offered \in AnyAddress
  BY SetStateLemma DEF States, Client
<1> QED
  BY <1>1, RequestLemma DEF Reboot, States

LEMMA RenewLemma ==
    ASSUME NEW d \in Client, NEW mem
    PROVE  Waits(d, Renew(d, mem), "RENEWING")
<1>1. SetState(d, "RENEWING").ip \in AnyAddress
  BY SetStateLemma DEF States, Client
<1> QED
  BY <1>1, RequestLemma DEF Renew, States

LEMMA RebindLemma ==
    ASSUME NEW d \in Client, NEW mem
    PROVE  Waits(d, Rebind(d, mem), "REBINDING")
<1>1. SetState(d, "REBINDING").ip \in AnyAddress
  BY SetStateLemma DEF States, Client
<1> QED
  BY <1>1, RequestLemma DEF Rebind, States

LEMMA DiscoverSendLemma ==
    ASSUME NEW d \in Client, NEW mem
    PROVE  LET e == DiscoverSend(d, mem) IN
             e \in Client /\ Keeps(d, e) /\ e.state = "SELECTING"
<1> DEFINE f == [d EXCEPT !.offered = None]
           m == [type |-> "DISCOVER", addr |-> None]
<1>1. f \in Client /\ Keeps(d, f)
  BY DEF Client, AnyAddress, Keeps
<1>2. SetState(f, "SELECTING") \in Client /\ Keeps(f, SetState(f, "SELECTING"))
      /\ SetState(f, "SELECTING").state = "SELECTING"
  BY <1>1, SetStateLemma DEF States
<1>3. m.type \in Requests /\ m.addr \in AnyAddress /\ m = [type |-> m.type, addr |-> m.addr]
  BY DEF Requests, AnyAddress
<1>4. LET e == Send(SetState(f, "SELECTING"), m, mem) IN
        e \in Client /\ Keeps(SetState(f, "SELECTING"), e) /\ e.state = "SELECTING"
  BY <1>2, <1>3, SendLemma
<1> QED
  BY <1>1, <1>2, <1>4 DEF DiscoverSend, Keeps

LEMMA DiscoverLemma ==
    ASSUME NEW d \in Client, NEW mem
    PROVE  Waits(d, Discover(d, mem), "SELECTING")
<1>1. LET e == DiscoverSend(d, mem) IN
        e \in Client /\ Keeps(d, e) /\ e.state = "SELECTING"
  BY DiscoverSendLemma
<1>2. LET e == DiscoverSend(d, mem) IN Waits(e, Retry(e), e.state)
  BY <1>1, RetryLemma
<1> QED
  BY <1>1, <1>2 DEF Discover, Waits, Keeps

LEMMA DeclineLemma ==
    ASSUME NEW d \in Client, NEW mem
    PROVE  Waits(d, Decline(d, mem), "BACKING_OFF")
<1> DEFINE e == SetState(d, "BACKING_OFF")
           m == [type |-> "DECLINE", addr |-> d.offered]
<1>1. e \in Client /\ Keeps(d, e) /\ e.state = "BACKING_OFF"
  BY SetStateLemma DEF States
<1>2. m.type \in Requests /\ m.addr \in AnyAddress /\ m = [type |-> m.type, addr |-> m.addr]
  BY DEF Requests, Client
<1>3. Send(e, m, mem) \in Client /\ Keeps(e, Send(e, m, mem)) /\ Send(e, m, mem).state = e.state
  BY <1>1, <1>2, SendLemma
<1>4. LET f == Send(e, m, mem) IN Waits(f, Retry(f), f.state)
  BY <1>3, RetryLemma
<1> QED
  BY <1>1, <1>3, <1>4 DEF Decline, Waits, Keeps

\* The probe of the address offered.
LEMMA CheckLemma ==
    ASSUME NEW d \in Client
    PROVE  Waits(d, Check(d), "CHECKING") /\ Check(d).offered = d.offered /\ Check(d).xid = d.xid
<1>1. LET e == SetState(d, "CHECKING") IN
        e \in Client /\ Keeps(d, e) /\ e.state = "CHECKING" /\ e.offered = d.offered /\ e.xid = d.xid
  BY SetStateLemma DEF States
<1>2. LET e == SetState(d, "CHECKING") IN
        Waits(e, Retry(e), e.state) /\ Retry(e).offered = e.offered /\ Retry(e).xid = e.xid
  BY <1>1, RetryLemma
<1> QED
  BY <1>1, <1>2 DEF Check, Waits, Keeps

\* The lease in minutes is at least one, and rounded by half a minute at most.
LEMMA TicksLemma ==
    ASSUME NEW l \in Nat
    PROVE  Ticks(l) \in Nat \ {0} /\ (Ticks(l) = 1 \/ Ticks(l) * 60 <= l + 30)
BY DEF Ticks, CoarseSecs

\* dhcp_bind starts the lease.
LEMMA BindLemma ==
    ASSUME NEW d \in Client, d.state # "BOUND"
    PROVE  LET e == Bind(d) IN
             /\ e \in Client /\ e.state = "BOUND" /\ e.ip = d.offered /\ e.offT0 = d.offT0
             /\ e.t0 = Ticks(d.offT0) /\ e.t0 \in Nat \ {0} /\ e.used = 0 /\ e.xid = d.xid
<1> DEFINE f == [d EXCEPT !.used = 0, !.t0 = Ticks(d.offT0),
                          !.t1 = Ticks(d.offT1), !.t2 = Ticks(d.offT2),
                          !.t2timeout = Ticks(d.offT2), !.ip = d.offered]
<1>1. Ticks(d.offT0) \in Nat \ {0} /\ Ticks(d.offT1) \in Nat /\ Ticks(d.offT2) \in Nat
  BY TicksLemma DEF Client
<1>2. f \in Client /\ f.ip = d.offered /\ f.t0 = Ticks(d.offT0) /\ f.used = 0
      /\ f.offT0 = d.offT0 /\ f.xid = d.xid
  BY <1>1 DEF Client
<1>3. SetState(f, "BOUND") \in Client /\ SetState(f, "BOUND").state = "BOUND"
      /\ Keeps(f, SetState(f, "BOUND")) /\ SetState(f, "BOUND").xid = f.xid
      /\ SetState(f, "BOUND").offT0 = f.offT0
  BY <1>2, SetStateLemma DEF States
<1> QED
  BY <1>1, <1>2, <1>3 DEF Bind, Keeps

\* dhcp_release ends the lease, and takes the address away or leaves it.
LEMMA ReleaseLemma ==
    ASSUME NEW d \in Client, NEW mem
    PROVE  LET e == Release(d, mem) IN
             /\ e \in Client /\ e.ip \in {None, d.ip}
             /\ e.t0 = 0 /\ e.t1 = 0 /\ e.t2 = 0 /\ e.used = 0
<1> DEFINE g == SetState(d, "OFF")
           e == [g EXCEPT !.offered = None, !.offT0 = 0, !.offT1 = 0, !.offT2 = 0,
                          !.t0 = 0, !.t1 = 0, !.t2 = 0, !.used = 0]
           m == [type |-> "RELEASE", addr |-> d.ip]
<1>1. g \in Client /\ Keeps(d, g)
  BY SetStateLemma DEF States
<1>2. e \in Client /\ e.ip = d.ip /\ e.t0 = 0 /\ e.t1 = 0 /\ e.t2 = 0 /\ e.used = 0
  BY <1>1 DEF Client, Keeps, AnyAddress
<1>3. m.type \in Requests /\ m.addr \in AnyAddress /\ m = [type |-> m.type, addr |-> m.addr]
  BY DEF Requests, Client
<1>4. Send(e, m, mem) \in Client /\ Keeps(e, Send(e, m, mem))
  BY <1>2, <1>3, SendLemma
<1>5. LET f == [Send(e, m, mem) EXCEPT !.ip = None] IN
        f \in Client /\ f.ip = None /\ f.t0 = 0 /\ f.t1 = 0 /\ f.t2 = 0 /\ f.used = 0
  BY <1>2, <1>4 DEF Client, Keeps, AnyAddress
<1> HIDE DEF e
<1>6. Release(d, mem) = IF Supplied(d) THEN [Send(e, m, mem) EXCEPT !.ip = None] ELSE e
  BY DEF Release, e
<1> QED
  BY <1>2, <1>5, <1>6

-------------------------------------------------------------------------------
(* The inductive invariant. *)

\* The lease of a client: its timers stop with it, and while an address has one
\* its minutes used are no fewer than the half minutes gone by.
Leased(d, l, a, h) ==
    /\ d.t0 = 0 => d.t1 = 0 /\ d.t2 = 0
    /\ d.t0 # 0 => d.used < d.t0
    /\ d.state = "OFF" => d.t0 = 0
    /\ d.ip # None /\ d.t0 # 0 => d.t0 = Ticks(l) /\ a <= 2 * d.used + (IF h THEN 1 ELSE 0)
    /\ d.ip # None /\ d.state \in Holding => d.t0 # 0

\* What is asked for, acknowledged or being probed was asked for in this exchange.
AskedInv ==
    /\ c.out.type = "REQUEST" => c.out.addr \in asked
    /\ \A r \in replies : r.type = "ACK" /\ r.xid = c.xid => r.addr \in asked
    /\ c.state = "CHECKING" => c.offered \in asked

DhcpInv == TypeOK /\ TimerRuns /\ AskedInv /\ Leased(c, lease, age, half)

\* What dhcp_recv and dhcp_timeout make of the client; n tells whether a nameless
\* offer may have stopped its timer.
Good(e, n) ==
    /\ e \in Client
    /\ e.state \in Waiting /\ starting # "sent" => e.timer \/ (n /\ e.state = "SELECTING")
    /\ e.state = "CHECKING" => e.xid = c.xid /\ e.offered \in asked
    /\ e.ip \in {None, c.ip} \cup asked
    /\ IF Bound(e) THEN e.t0 = Ticks(e.offT0) /\ e.t0 # 0 /\ e.used = 0
                   ELSE Leased(e, lease, age, half)

\* A client that waits keeps its lease.
LEMMA WaitsLeased ==
    ASSUME NEW d, NEW e, NEW s, NEW l, NEW a, NEW h,
           Leased(d, l, a, h), Waits(d, e, s), s # "OFF",
           s \in Holding /\ d.ip # None => d.t0 # 0
    PROVE  Leased(e, l, a, h)
BY DEF Leased, Waits, Keeps

\* A client that waits, other than to probe an address, is good.
LEMMA WaitsGood ==
    ASSUME NEW d, NEW e, NEW s, NEW n, Leased(d, lease, age, half), Waits(d, e, s),
           s \notin {"OFF", "CHECKING", "BOUND"}, s \in Holding /\ d.ip # None => d.t0 # 0,
           d.ip \in {None, c.ip}
    PROVE  Good(e, n)
<1>1. Leased(e, lease, age, half)
  BY WaitsLeased
<1> QED
  BY <1>1 DEF Good, Waits, Keeps, Bound

\* A client that discovers without an address is good.
LEMMA BackOffGood ==
    ASSUME NEW mem, NEW n, DhcpInv
    PROVE  Good(HandleNak(c, mem), n)
<1> DEFINE d == [c EXCEPT !.ip = None]
           f == SetState(d, "BACKING_OFF")
<1>1. d \in Client
  BY DEF DhcpInv, TypeOK, Client, AnyAddress
<1>2. Leased(d, lease, age, half) /\ d.ip = None
  BY DEF DhcpInv, TypeOK, Client, Leased
<1>3. f \in Client /\ Keeps(d, f) /\ f.state = "BACKING_OFF"
  BY <1>1, SetStateLemma DEF States
<1>4. Leased(f, lease, age, half) /\ f.ip = None
  BY <1>2, <1>3 DEF Leased, Keeps, Holding
<1>5. Waits(f, Discover(f, mem), "SELECTING")
  BY <1>3, DiscoverLemma
<1> HIDE DEF f
<1>6. Good(Discover(f, mem), n)
  BY <1>4, <1>5, WaitsGood, Zenon DEF Holding
<1> QED
  BY <1>6 DEF HandleNak, f

\* dhcp_handle_ack remembers what was acknowledged.
LEMMA HandleAckLemma ==
    ASSUME NEW d \in Client, NEW r \in Replies
    PROVE  LET e == HandleAck(d, r) IN
             /\ e \in Client /\ Keeps(d, e) /\ e.state = d.state /\ e.xid = d.xid
             /\ e.offered = r.addr
<1>1. r.addr \in AnyAddress /\ r.lease \in Nat /\ r.lease \div 2 \in Nat
      /\ (r.lease * 7) \div 8 \in Nat
  BY DEF Replies
<1> DEFINE e == [d EXCEPT !.offered = r.addr, !.offT0 = r.lease,
                          !.offT1 = r.lease \div 2, !.offT2 = (r.lease * 7) \div 8]
<1>2. e \in Client
  BY <1>1, Zenon DEF Client
<1>3. Keeps(d, e) /\ e.state = d.state /\ e.xid = d.xid /\ e.offered = r.addr
  BY Zenon DEF Client, Keeps
<1> QED
  BY <1>2, <1>3 DEF HandleAck

\* An address bound that was asked for makes a good client.
LEMMA BindGood ==
    ASSUME NEW d \in Client, NEW n, d.state # "BOUND", c.state # "BOUND", d.offered \in asked
    PROVE  Good(Bind(d), n)
<1>1. LET e == Bind(d) IN
        /\ e \in Client /\ e.state = "BOUND" /\ e.ip = d.offered /\ e.offT0 = d.offT0
        /\ e.t0 = Ticks(d.offT0) /\ e.t0 \in Nat \ {0} /\ e.used = 0
  BY BindLemma
<1> QED
  BY <1>1 DEF Good, Bound, Waiting

\* A probe of an address that was asked for makes a good client.
LEMMA CheckGood ==
    ASSUME NEW d \in Client, NEW n, Leased(d, lease, age, half), d.ip = c.ip, d.xid = c.xid,
           d.offered \in asked
    PROVE  Good(Check(d), n)
<1>1. Waits(d, Check(d), "CHECKING") /\ Check(d).offered = d.offered /\ Check(d).xid = d.xid
  BY CheckLemma
<1>2. Leased(Check(d), lease, age, half)
  BY <1>1, WaitsLeased DEF Holding
<1> QED
  BY <1>1, <1>2 DEF Good, Waits, Keeps, Bound

\* An expired or refused client discovers anew.
LEMMA ReleaseGood ==
    ASSUME NEW d \in Client, NEW mem, d.ip \in {None, c.ip}
    PROVE  LET e == Discover(Release(d, mem), mem) IN
             /\ Waits(Release(d, mem), e, "SELECTING") /\ e.ip \in {None, c.ip}
             /\ e.t0 = 0 /\ e.t1 = 0 /\ e.t2 = 0
<1>1. LET f == Release(d, mem) IN
        f \in Client /\ f.ip \in {None, d.ip} /\ f.t0 = 0 /\ f.t1 = 0 /\ f.t2 = 0
  BY ReleaseLemma
<1>2. Waits(Release(d, mem), Discover(Release(d, mem), mem), "SELECTING")
  BY <1>1, DiscoverLemma
<1> QED
  BY <1>1, <1>2 DEF Waits, Keeps

-------------------------------------------------------------------------------
(* What is received, and what times out. *)

LEMMA ReceiveGood ==
    ASSUME DhcpInv, NEW r \in replies, NEW mem
    PROVE  Good(Receive(c, r, mem), nameless \/ Nameless(c, r))
<1> DEFINE d == HandleAck(c, r)
           n == nameless \/ Nameless(c, r)
<1>1. c \in Client /\ r \in Replies /\ Leased(c, lease, age, half)
  BY DEF DhcpInv, TypeOK
<1>2. /\ d \in Client /\ Keeps(c, d) /\ d.state = c.state /\ d.xid = c.xid
      /\ d.offered = r.addr
  BY <1>1, HandleAckLemma
<1>3. Leased(d, lease, age, half)
  BY <1>1, <1>2 DEF Leased, Keeps
<1>3a. nameless => n
  OBVIOUS
<1> HIDE DEF d, n
<1>4. CASE Receive(c, r, mem) = c
  <2>1. Good(c, n)
    BY <1>1, <1>3a DEF DhcpInv, TimerRuns, AskedInv, Good, Bound, Waiting
  <2> QED
    BY <1>4, <2>1 DEF n
<1>5. CASE Receive(c, r, mem) = HandleNak(c, mem)
  <2>1. Good(HandleNak(c, mem), n)
    BY BackOffGood
  <2> QED
    BY <1>5, <2>1 DEF n
<1>6. CASE Ours(c, r) /\ r.type = "ACK" /\ c.state = "REQUESTING"
  <2>1. r.addr \in asked
    BY <1>6 DEF Ours, DhcpInv, AskedInv
  <2>2. Receive(c, r, mem) = Check(d)
    BY <1>6 DEF Receive, d
  <2>3. Good(Check(d), n)
    BY <1>2, <1>3, <2>1, CheckGood DEF Keeps
  <2> QED
    BY <2>2, <2>3 DEF n
<1>7. CASE Ours(c, r) /\ r.type = "ACK" /\ c.state \in {"REBOOTING", "REBINDING", "RENEWING"}
  <2>1. r.addr \in asked
    BY <1>7 DEF Ours, DhcpInv, AskedInv
  <2>2. Receive(c, r, mem) = Bind(d)
    BY <1>7 DEF Receive, d
  <2>3. Good(Bind(d), n)
    BY <1>2, <1>7, <2>1, BindGood
  <2> QED
    BY <2>2, <2>3 DEF n
<1>8. CASE Ours(c, r) /\ r.type = "OFFER" /\ c.state = "SELECTING"
  <2> DEFINE e == [c EXCEPT !.timer = FALSE]
             f == [e EXCEPT !.offered = r.addr]
  <2>1. FALSE \in BOOLEAN /\ r.addr \in AnyAddress
    BY <1>1 DEF Replies
  <2>2. e \in Client /\ f \in Client
    BY <1>1, <2>1, Zenon DEF Client
  <2>3. Keeps(c, e) /\ e.state = c.state /\ Keeps(c, f) /\ f.state = c.state
    BY <1>1, Zenon DEF Client, Keeps
  <2>4. /\ Leased(e, lease, age, half) /\ e.ip \in {None, c.ip}
        /\ Leased(f, lease, age, half) /\ f.ip \in {None, c.ip}
    BY <1>1, <2>3 DEF Leased, Keeps
  <2>5. Waits(f, Select(f, mem), "REQUESTING")
    BY <2>2, SelectLemma
  <2>6. Receive(c, r, mem) = IF r.named THEN Select(f, mem) ELSE e
    BY <1>8, Zenon DEF Receive, HandleOffer
  <2>7. ~r.named => n
    BY <1>8 DEF n, Nameless
  <2> HIDE DEF e, f
  <2>8. Good(Select(f, mem), n)
    BY <2>4, <2>5, WaitsGood, Zenon DEF Holding
  <2>9. ASSUME n PROVE Good(e, n)
    BY <1>8, <2>2, <2>3, <2>4, <2>9 DEF Good, Bound, Keeps
  <2> QED
    BY <2>6, <2>7, <2>8, <2>9 DEF n
<1> QED
  BY <1>4, <1>5, <1>6, <1>7, <1>8, Zenon DEF Receive

LEMMA TimeoutGood ==
    ASSUME DhcpInv, NEW mem, starting # "sent" => c.timer
    PROVE  Good(Timeout([c EXCEPT !.timer = FALSE], mem), nameless)
<1> DEFINE d == [c EXCEPT !.timer = FALSE]
<1>1. c \in Client /\ Leased(c, lease, age, half)
  BY DEF DhcpInv, TypeOK
<1>2. FALSE \in BOOLEAN
  OBVIOUS
<1>3. d \in Client
  BY <1>1, <1>2, Zenon DEF Client
<1>4. Keeps(c, d) /\ d.state = c.state /\ d.offered = c.offered /\ d.xid = c.xid
  BY <1>1, Zenon DEF Client, Keeps
<1>5. Leased(d, lease, age, half) /\ d.ip \in {None, c.ip} /\ d.ip = c.ip
  BY <1>1, <1>4 DEF Leased, Keeps
<1> HIDE DEF d
<1>6. CASE d.state \in {"BACKING_OFF", "SELECTING"}
  <2>1. Timeout(d, mem) = Discover(d, mem)
    BY <1>6 DEF Timeout
  <2>2. Waits(d, Discover(d, mem), "SELECTING")
    BY <1>3, DiscoverLemma
  <2>3. Good(Discover(d, mem), nameless)
    BY <1>5, <2>2, WaitsGood, Zenon DEF Holding
  <2> QED
    BY <2>1, <2>3 DEF d
<1>7. CASE d.state = "REQUESTING"
  <2>1. Timeout(d, mem) = IF d.tries <= RequestTries THEN Select(d, mem)
                                                     ELSE Discover(Release(d, mem), mem)
    BY <1>7 DEF Timeout
  <2>2. Waits(d, Select(d, mem), "REQUESTING")
    BY <1>3, SelectLemma
  <2>3. Good(Select(d, mem), nameless)
    BY <1>5, <2>2, WaitsGood, Zenon DEF Holding
  <2>4. Good(Discover(Release(d, mem), mem), nameless)
    BY <1>3, <1>5, ReleaseGood DEF Good, Waits, Bound, Leased, Holding
  <2> QED
    BY <2>1, <2>3, <2>4 DEF d
<1>8. CASE d.state = "CHECKING"
  <2>1. Timeout(d, mem) = IF d.tries <= 1 THEN Check(d) ELSE Bind(d)
    BY <1>8 DEF Timeout
  <2>2. d.offered \in asked
    BY <1>4, <1>8 DEF DhcpInv, AskedInv
  <2>3. Good(Check(d), nameless)
    BY <1>3, <1>4, <1>5, <2>2, CheckGood
  <2>4. Good(Bind(d), nameless)
    BY <1>3, <1>4, <1>8, <2>2, BindGood
  <2> QED
    BY <2>1, <2>3, <2>4 DEF d
<1>9. CASE d.state = "REBOOTING"
  <2>1. Timeout(d, mem) = IF d.tries < RebootTries THEN Reboot(d, mem) ELSE Discover(d, mem)
    BY <1>9 DEF Timeout
  <2>2. Waits(d, Reboot(d, mem), "REBOOTING") /\ Waits(d, Discover(d, mem), "SELECTING")
    BY <1>3, RebootLemma, DiscoverLemma
  <2>3. Good(Reboot(d, mem), nameless) /\ Good(Discover(d, mem), nameless)
    BY <1>5, <2>2, WaitsGood, Zenon DEF Holding
  <2> QED
    BY <2>1, <2>3 DEF d
<1>10. CASE d.state \notin {"BACKING_OFF", "SELECTING", "REQUESTING", "CHECKING", "REBOOTING"}
  <2>1. Timeout(d, mem) = d
    BY <1>10 DEF Timeout
  <2>2. Good(d, nameless)
    BY <1>3, <1>4, <1>5, <1>10 DEF Good, Bound, Waiting
  <2> QED
    BY <2>1, <2>2 DEF d
<1> QED
  BY <1>6, <1>7, <1>8, <1>9, <1>10

\* dhcp_coarse_tmr: of a half minute that passes and the minute it may end.
LEMMA CoarseGood ==
    ASSUME DhcpInv, half, NEW mem, NEW d \in Client, Keeps(c, d), d.state = c.state,
           d.timer = c.timer, d.offered = c.offered, d.xid = c.xid, starting # "sent"
    PROVE  LET e == CoarseTmr(d, mem) IN
             /\ e \in Client
             /\ e.state \in Waiting => e.timer \/ (e.state = "SELECTING" /\ nameless)
             /\ e.state = "CHECKING" => e.xid = c.xid /\ e.offered \in asked
             /\ e.ip \in {None, c.ip}
             /\ \A a \in Nat : (e.ip # None => a <= age + 1) => Leased(e, lease, a, FALSE)
<1> DEFINE x == IF d.t0 # 0 THEN d.used + 1 ELSE d.used
           e == IF d.t0 # 0 THEN [d EXCEPT !.used = @ + 1] ELSE d
           f == [e EXCEPT !.t2 = Down(@)]
           g == [f EXCEPT !.t1 = Down(@)]
           R(k) == /\ k \in Client
                   /\ k.state \in Waiting => k.timer \/ (k.state = "SELECTING" /\ nameless)
                   /\ k.state = "CHECKING" => k.xid = c.xid /\ k.offered \in asked
                   /\ k.ip \in {None, c.ip}
                   /\ \A a \in Nat : (k.ip # None => a <= age + 1) => Leased(k, lease, a, FALSE)
<1>1. c \in Client /\ Leased(c, lease, age, half) /\ age \in Nat
  BY DEF DhcpInv, TypeOK
<1>2. d.state \in Waiting => d.timer \/ (d.state = "SELECTING" /\ nameless)
  BY DEF DhcpInv, TimerRuns, Waiting
<1>3. d.state = "CHECKING" => d.offered \in asked
  BY DEF DhcpInv, AskedInv
<1>4. /\ e \in Client /\ e.used = x
      /\ e.ip = d.ip /\ e.t0 = d.t0 /\ e.t1 = d.t1 /\ e.t2 = d.t2
      /\ e.state = d.state /\ e.timer = d.timer /\ e.offered = d.offered /\ e.xid = d.xid
  <2>1. x \in Nat
    BY DEF Client
  <2>2. e = [d EXCEPT !.used = x]
    BY DEF Client
  <2> HIDE DEF x, e
  <2> QED
    BY <2>1, <2>2, Zenon DEF Client
<1>5. /\ f \in Client /\ f.used = x /\ f.ip = d.ip /\ f.t0 = d.t0 /\ f.t1 = d.t1 /\ f.t2 = Down(d.t2)
      /\ f.state = d.state /\ f.timer = d.timer /\ f.offered = d.offered /\ f.xid = d.xid
  <2>1. Down(e.t2) \in Nat
    BY <1>4 DEF Down, Client
  <2> HIDE DEF e, x
  <2> QED
    BY <1>4, <2>1, Zenon DEF Client
<1>6. /\ g \in Client /\ g.used = x /\ g.ip = d.ip /\ g.t0 = d.t0 /\ g.t1 = Down(d.t1) /\ g.t2 = Down(d.t2)
      /\ g.state = d.state /\ g.timer = d.timer /\ g.offered = d.offered /\ g.xid = d.xid
  <2>1. Down(f.t1) \in Nat
    BY <1>5 DEF Down, Client
  <2> HIDE DEF f, x
  <2> QED
    BY <1>5, <2>1, Zenon DEF Client
<1> HIDE DEF e, f, g
<1>7. ASSUME ~Expired(d), NEW a \in Nat, d.ip # None => a <= age + 1,
             NEW k, k.used = x, k.ip = d.ip, k.t0 = d.t0, k.state = d.state,
             d.t1 = 0 => k.t1 = 0, d.t2 = 0 => k.t2 = 0
      PROVE  Leased(k, lease, a, FALSE)
  BY <1>1, <1>7 DEF Leased, Keeps, Expired, Client
<1>8. CASE d.state = "OFF"
  <2>1. CoarseTmr(d, mem) = d
    BY <1>8 DEF CoarseTmr
  <2>2. R(d)
    BY <1>1, <1>2, <1>3, <1>8 DEF Leased, Keeps, Holding
  <2> QED
    BY <2>1, <2>2
<1>9. CASE d.state # "OFF" /\ Expired(d)
  <2>1. CoarseTmr(d, mem) = Discover(Release(e, mem), mem)
    BY <1>9 DEF CoarseTmr, e
  <2>2. e.ip \in {None, c.ip}
    BY <1>4 DEF Keeps
  <2>3. LET k == Discover(Release(e, mem), mem) IN
          /\ Waits(Release(e, mem), k, "SELECTING") /\ k.ip \in {None, c.ip}
          /\ k.t0 = 0 /\ k.t1 = 0 /\ k.t2 = 0
    BY <1>4, <2>2, ReleaseGood
  <2>4. R(Discover(Release(e, mem), mem))
    BY <2>3 DEF Waits, Leased, Holding
  <2> QED
    BY <2>1, <2>4
<1>10. ASSUME d.state # "OFF", ~Expired(d), NEW k \in {f, g}, NEW b, NEW s \in Holding,
              Waits(k, b, s), d.ip # None => d.t0 # 0, NEW t \in Nat,
              NEW j, j = [b EXCEPT !.t1 = t] \/ j = [b EXCEPT !.t2 = t], t # 0 => d.t0 # 0
       PROVE  R(j)
  <2>1. /\ j \in Client /\ j.used = x /\ j.ip = d.ip /\ j.t0 = d.t0 /\ j.state = s
    BY <1>5, <1>6, <1>10 DEF Waits, Keeps, Client
  <2>2. d.t0 = 0 => j.t1 = 0 /\ j.t2 = 0
    BY <1>1, <1>5, <1>6, <1>10 DEF Waits, Keeps, Client, Leased, Down
  <2>3. ASSUME NEW a \in Nat, j.ip # None => a <= age + 1
        PROVE  Leased(j, lease, a, FALSE)
    BY <1>1, <1>10, <2>1, <2>2, <2>3 DEF Leased, Keeps, Expired, Client, Holding
  <2> QED
    BY <1>10, <2>1, <2>3 DEF Keeps, Holding, Waiting
<1>11. ASSUME NEW k \in Client, NEW n \in Nat
       PROVE  Left(n, k) \in Nat
  BY <1>11 DEF Left, Client
<1>12. CASE d.state # "OFF" /\ ~Expired(d) /\ d.t2 = 1
  <2>1. CoarseTmr(d, mem) = T2Timeout(f, mem)
    BY <1>12, Zenon DEF CoarseTmr, f, e
  <2>2. d.t0 # 0
    BY <1>1, <1>12 DEF Leased, Keeps
  <2>3. R(f)
    <3>1. (d.t1 = 0 => f.t1 = 0) /\ (d.t2 = 0 => f.t2 = 0)
      BY <1>5 DEF Down
    <3>2. ASSUME NEW a \in Nat, f.ip # None => a <= age + 1
          PROVE  Leased(f, lease, a, FALSE)
      BY <1>7, <1>5, <1>12, <3>1, <3>2
    <3> QED
      BY <1>2, <1>3, <1>5, <3>2 DEF Keeps
  <2>4. f.t0 \in Nat
    BY <1>5 DEF Client
  <2>5. Waits(f, Rebind(f, mem), "REBINDING")
    BY <1>5, RebindLemma
  <2>6. R([Rebind(f, mem) EXCEPT !.t2 = Left(f.t0, f)])
    BY <1>5, <1>10, <1>11, <1>12, <2>2, <2>4, <2>5 DEF Holding
  <2> QED
    BY <2>1, <2>3, <2>6 DEF T2Timeout
<1>13. CASE d.state # "OFF" /\ ~Expired(d) /\ d.t2 # 1
  <2>1. CoarseTmr(d, mem) = IF d.t1 = 1 THEN T1Timeout(g, mem) ELSE g
    BY <1>13, Zenon DEF CoarseTmr, g, f, e
  <2>2. R(g)
    <3>1. (d.t1 = 0 => g.t1 = 0) /\ (d.t2 = 0 => g.t2 = 0)
      BY <1>6 DEF Down
    <3>2. ASSUME NEW a \in Nat, g.ip # None => a <= age + 1
          PROVE  Leased(g, lease, a, FALSE)
      BY <1>7, <1>6, <1>13, <3>1, <3>2
    <3> QED
      BY <1>2, <1>3, <1>6, <3>2 DEF Keeps
  <2>3. ASSUME d.t1 = 1 PROVE R(T1Timeout(g, mem))
    <3>1. d.t0 # 0
      BY <1>1, <2>3 DEF Leased, Keeps
    <3>2. g.t2timeout \in Nat
      BY <1>6 DEF Client
    <3>3. Waits(g, Renew(g, mem), "RENEWING")
      BY <1>6, RenewLemma
    <3>4. R([Renew(g, mem) EXCEPT !.t1 = Left(g.t2timeout, g)])
      BY <1>6, <1>10, <1>11, <1>13, <3>1, <3>2, <3>3 DEF Holding
    <3> QED
      BY <2>2, <3>4 DEF T1Timeout
  <2> QED
    BY <2>1, <2>2, <2>3
<1> QED
  BY <1>8, <1>9, <1>12, <1>13

\* A link that comes up sends the client back, with its lease.
LEMMA NetworkChangedGood ==
    ASSUME DhcpInv, NEW mem
    PROVE  Good(NetworkChanged(c, mem), nameless) /\ ~Bound(NetworkChanged(c, mem))
<1> DEFINE d == [c EXCEPT !.tries = 0]
<1>1. c \in Client /\ Leased(c, lease, age, half)
  BY DEF DhcpInv, TypeOK
<1>2. 0 \in 0..MaxTries
  BY MaxTriesNat
<1>3. d \in Client
  BY <1>1, <1>2, Zenon DEF Client
<1>4. Keeps(c, d) /\ d.state = c.state
  BY <1>1, Zenon DEF Client, Keeps
<1>5. Leased(d, lease, age, half) /\ d.ip \in {None, c.ip}
  BY <1>1, <1>4 DEF Leased, Keeps
<1> HIDE DEF d
<1>6. Waits(d, Reboot(d, mem), "REBOOTING") /\ Waits(d, Discover(d, mem), "SELECTING")
  BY <1>3, RebootLemma, DiscoverLemma
<1>7. Good(Reboot(d, mem), nameless) /\ Good(Discover(d, mem), nameless)
  BY <1>5, <1>6, WaitsGood, Zenon DEF Holding
<1>8. ~Bound(Reboot(d, mem)) /\ ~Bound(Discover(d, mem))
  BY <1>6 DEF Bound, Waits
<1>9. CASE c.state = "OFF"
  <2>1. NetworkChanged(c, mem) = c
    BY <1>9 DEF NetworkChanged
  <2>2. Good(c, nameless) /\ ~Bound(c)
    BY <1>1, <1>9 DEF Good, Bound, Waiting
  <2> QED
    BY <2>1, <2>2
<1> QED
  BY <1>7, <1>8, <1>9, Zenon DEF NetworkChanged, d

-------------------------------------------------------------------------------
(* The steps. *)

\* A client that has become good keeps the invariant.
LEMMA BecomeTyped ==
    ASSUME TypeOK, NEW e \in Client, Become(e)
    PROVE  c' \in Client /\ replies' \subseteq Replies /\ asked' \subseteq AnyAddress
<1>1. e.out.type = "REQUEST" => e.out.addr \in AnyAddress
  BY DEF Client
<1> QED
  BY <1>1 DEF Become, TypeOK, Asked

LEMMA BecomeAsked ==
    ASSUME AskedInv, NEW e, Become(e),
           e.state = "CHECKING" => e.xid = c.xid /\ e.offered \in asked
    PROVE  AskedInv'
BY DEF AskedInv, Become, Asked

LEMMA BecomeInv ==
    ASSUME DhcpInv, NEW e, NEW n, Good(e, n), Become(e), Lives(e), Sits(e, n), troubles' \in Nat,
           UNCHANGED <<starting, half>>
    PROVE  DhcpInv' /\ c'.ip \in {None, c.ip} \cup asked
<1>1. e \in Client /\ c' = e
  BY DEF Good, Become
<1>2. c' \in Client /\ replies' \subseteq Replies /\ asked' \subseteq AnyAddress
  BY <1>1, BecomeTyped DEF DhcpInv
<1>3. AskedInv'
  BY BecomeAsked DEF DhcpInv, Good
<1>4. TimerRuns' /\ nameless' \in BOOLEAN
  BY <1>1 DEF Good, TimerRuns, Waiting, Sits, Client
<1>5. lease' \in Nat /\ age' \in Nat /\ Leased(e, lease', age', half)
  <2>1. CASE Bound(e)
    <3>1. e.offT0 \in Nat /\ e.used = 0 /\ e.t0 \in Nat /\ e.t0 # 0 /\ e.t0 = Ticks(e.offT0)
      BY <1>1, <2>1 DEF Good, Client
    <3>2. lease' = e.offT0 /\ age' = 0 /\ e.state = "BOUND"
      BY <2>1 DEF Lives, Bound
    <3> QED
      BY <3>1, <3>2 DEF Leased
  <2>2. CASE ~Bound(e)
    BY <2>2 DEF Good, Lives, DhcpInv, TypeOK
  <2> QED
    BY <2>1, <2>2
<1>6. starting' \in {"called", "sent", "done", "failed"} /\ half' \in BOOLEAN /\ half' = half
  BY DEF DhcpInv, TypeOK
<1>7. TypeOK'
  BY <1>2, <1>4, <1>5, <1>6 DEF TypeOK
<1>8. Leased(c, lease, age, half)'
  BY <1>1, <1>5, <1>6 DEF Leased
<1>9. c'.ip \in {None, c.ip} \cup asked
  BY <1>1 DEF Good
<1> QED
  BY <1>3, <1>4, <1>7, <1>8, <1>9 DEF DhcpInv

\* A failed allocation is counted.
LEMMA MemoryLemma ==
    ASSUME TypeOK, NEW mem, Memory(mem)
    PROVE  troubles' \in Nat
BY DEF Memory, TypeOK

LEMMA InitInv == Init => DhcpInv
<1> SUFFICES ASSUME Init PROVE DhcpInv
  OBVIOUS
<1>1. 0 \in 0..MaxTries
  BY MaxTriesNat
<1>2. Cleared \in Client
  BY <1>1 DEF Cleared, Client, States, AnyAddress, NoMsg
<1>3. Leased(c, lease, age, half)
  BY DEF Init, Cleared, Leased
<1> QED
  BY <1>2, <1>3 DEF Init, DhcpInv, TypeOK, TimerRuns, AskedInv, Cleared, NoMsg

\* Every step keeps the invariant and binds only what was asked for.
LEMMA StepInv ==
    ASSUME DhcpInv, [Next]_vars
    PROVE  DhcpInv' /\ c'.ip \in {None, c.ip} \cup asked
<1>0. TypeOK /\ c \in Client /\ AskedInv /\ Leased(c, lease, age, half)
  BY DEF DhcpInv, TypeOK
<1>1. CASE StartSend
  <2> DEFINE e == DiscoverSend(c, MsgTypes)
  <2>1. e \in Client /\ Keeps(c, e) /\ e.state = "SELECTING"
    BY <1>0, DiscoverSendLemma
  <2> HIDE DEF e
  <2>2. /\ Become(e) /\ c' = e /\ starting' = "sent" /\ UNCHANGED <<half, troubles, lease, age>>
        /\ nameless' \in BOOLEAN
    BY <1>1 DEF StartSend, e, Become, Sits
  <2>3. AskedInv' /\ c' \in Client /\ replies' \subseteq Replies /\ asked' \subseteq AnyAddress
    BY <1>0, <2>1, <2>2, BecomeAsked, BecomeTyped
  <2>4. TypeOK' /\ TimerRuns'
    BY <1>0, <2>2, <2>3 DEF TypeOK, TimerRuns
  <2>5. Leased(c, lease, age, half)'
    BY <1>0, <2>1, <2>2 DEF Leased, Keeps, Holding
  <2> QED
    BY <2>1, <2>2, <2>3, <2>4, <2>5 DEF DhcpInv, Keeps
<1>2. CASE StartEnd
  <2> DEFINE e == Retry(c)
  <2>1. Waits(c, e, c.state) /\ e.offered = c.offered /\ e.xid = c.xid
    BY <1>0, RetryLemma
  <2> HIDE DEF e
  <2>2. /\ Become(e) /\ c' = e /\ starting' = "done" /\ UNCHANGED <<half, troubles, lease, age>>
        /\ nameless' \in BOOLEAN
    BY <1>2 DEF StartEnd, e, Become, Sits
  <2>3. e.state = "CHECKING" => e.offered \in asked
    BY <1>0, <2>1 DEF AskedInv, Waits
  <2>4. AskedInv' /\ c' \in Client /\ replies' \subseteq Replies /\ asked' \subseteq AnyAddress
    BY <1>0, <2>1, <2>2, <2>3, BecomeAsked, BecomeTyped DEF Waits
  <2>5. TypeOK' /\ TimerRuns'
    BY <1>0, <2>1, <2>2, <2>4 DEF TypeOK, TimerRuns, Waits
  <2>6. Leased(c, lease, age, half)'
    BY <1>0, <2>1, <2>2 DEF Leased, Waits, Keeps
  <2> QED
    BY <2>1, <2>2, <2>4, <2>5, <2>6 DEF DhcpInv, Waits, Keeps
<1>3. CASE StartFails
  BY <1>0, <1>3 DEF StartFails, DhcpInv, TypeOK, TimerRuns, AskedInv, Leased
<1>4. ASSUME NEW mem, NEW r \in replies, RecvReply(r, mem)
      PROVE  DhcpInv' /\ c'.ip \in {None, c.ip} \cup asked
  <2>1. Good(Receive(c, r, mem), nameless \/ Nameless(c, r))
    BY ReceiveGood
  <2>2. /\ Become(Receive(c, r, mem)) /\ Lives(Receive(c, r, mem)) /\ UNCHANGED <<starting, half>>
        /\ troubles' \in Nat /\ Sits(Receive(c, r, mem), nameless \/ Nameless(c, r))
    BY <1>0, <1>4, MemoryLemma DEF RecvReply
  <2> QED
    BY <2>1, <2>2, BecomeInv
<1>5. ASSUME NEW mem, FineTmr(mem)
      PROVE  DhcpInv' /\ c'.ip \in {None, c.ip} \cup asked
  <2> DEFINE e == Timeout([c EXCEPT !.timer = FALSE], mem)
  <2>1. Good(e, nameless)
    BY <1>5, TimeoutGood DEF FineTmr
  <2>2. Become(e) /\ Lives(e) /\ Sits(e, nameless) /\ UNCHANGED <<starting, half>> /\ troubles' \in Nat
    BY <1>0, <1>5, MemoryLemma DEF FineTmr
  <2> HIDE DEF e
  <2> QED
    BY <2>1, <2>2, BecomeInv
<1>6. ASSUME NEW mem, Pass(mem)
      PROVE  DhcpInv' /\ c'.ip \in {None, c.ip} \cup asked
  <2> DEFINE d == [c EXCEPT !.out = NoMsg]
             e == IF half THEN CoarseTmr(d, mem) ELSE d
  <2>1. NoMsg \in [type : {"none", "DISCOVER", "REQUEST"}, addr : AnyAddress]
    BY DEF NoMsg, AnyAddress
  <2>2. d \in Client
    BY <1>0, <2>1, Zenon DEF Client
  <2>3. /\ Keeps(c, d) /\ d.state = c.state /\ d.timer = c.timer
        /\ d.offered = c.offered /\ d.xid = c.xid
    BY <1>0, Zenon DEF Client, Keeps
  <2>4. /\ starting # "sent" /\ half' = ~half /\ c' = e /\ asked' = Asked(e) /\ replies' = {}
        /\ UNCHANGED <<starting, lease>> /\ Sits(e, nameless)
        /\ age' = IF c.ip # None /\ age < MaxAge THEN age + 1 ELSE age
    BY <1>6 DEF Pass
  <2>5. troubles' \in Nat
    BY <1>0, <1>6, MemoryLemma DEF Pass, TypeOK
  <2>6. age' \in Nat /\ age' <= age + 1
    BY <1>0, <2>4 DEF TypeOK
  <2>7. /\ e \in Client
        /\ e.state \in Waiting => e.timer \/ (e.state = "SELECTING" /\ nameless)
        /\ e.state = "CHECKING" => e.xid = c.xid /\ e.offered \in asked
        /\ e.ip \in {None, c.ip}
        /\ Leased(e, lease, age', half')
    <3>1. CASE half
      <4>1. e = CoarseTmr(d, mem)
        BY <3>1
      <4>2. half' = FALSE
        BY <2>4, <3>1
      <4> HIDE DEF d, e
      <4>3. LET k == CoarseTmr(d, mem) IN
              /\ k \in Client
              /\ k.state \in Waiting => k.timer \/ (k.state = "SELECTING" /\ nameless)
              /\ k.state = "CHECKING" => k.xid = c.xid /\ k.offered \in asked
              /\ k.ip \in {None, c.ip}
              /\ \A a \in Nat : (k.ip # None => a <= age + 1) => Leased(k, lease, a, FALSE)
        BY <2>2, <2>3, <2>4, <3>1, CoarseGood
      <4> QED
        BY <2>6, <4>1, <4>2, <4>3
    <3>2. CASE ~half
      <4>1. e = d
        BY <3>2
      <4>2. half' = TRUE
        BY <2>4, <3>2
      <4> HIDE DEF d, e
      <4>3. d.state \in Waiting => d.timer \/ (d.state = "SELECTING" /\ nameless)
        BY <2>3, <2>4 DEF DhcpInv, TimerRuns, Waiting
      <4>4. d.state = "CHECKING" => d.offered \in asked
        BY <1>0, <2>3 DEF AskedInv
      <4>5. Leased(d, lease, age', TRUE)
        BY <1>0, <2>3, <2>6, <3>2 DEF Leased, Keeps, Client, TypeOK
      <4> QED
        BY <2>2, <2>3, <4>1, <4>2, <4>3, <4>4, <4>5 DEF Keeps
    <3> QED
      BY <3>1, <3>2 DEF DhcpInv, TypeOK
  <2> HIDE DEF d, e
  <2>8. e.out.type = "REQUEST" => e.out.addr \in AnyAddress
    BY <2>7 DEF Client
  <2>9. TypeOK'
    BY <1>0, <2>4, <2>5, <2>6, <2>7, <2>8 DEF TypeOK, Asked, Sits
  <2>10. TimerRuns'
    BY <2>4, <2>7 DEF TimerRuns, Waiting, Sits, Client
  <2>11. AskedInv'
    BY <2>4, <2>7 DEF AskedInv, Asked
  <2>12. Leased(c, lease, age, half)'
    BY <2>4, <2>7 DEF Leased
  <2> QED
    BY <2>4, <2>7, <2>9, <2>10, <2>11, <2>12 DEF DhcpInv
<1>7. ASSUME NEW mem, LinkUp(mem)
      PROVE  DhcpInv' /\ c'.ip \in {None, c.ip} \cup asked
  <2> DEFINE e == NetworkChanged(c, mem)
  <2>1. Good(e, nameless) /\ ~Bound(e)
    BY NetworkChangedGood
  <2> HIDE DEF e
  <2>2. Become(e) /\ Sits(e, nameless) /\ UNCHANGED <<starting, half, lease, age>> /\ troubles' \in Nat
    BY <1>0, <1>7 DEF LinkUp, e, TypeOK
  <2> QED
    BY <2>1, <2>2, BecomeInv DEF Lives
<1>8. ASSUME NEW mem, ArpReply(mem)
      PROVE  DhcpInv' /\ c'.ip \in {None, c.ip} \cup asked
  <2> DEFINE e == Decline(c, mem)
  <2>1. Waits(c, e, "BACKING_OFF")
    BY <1>0, DeclineLemma
  <2> HIDE DEF e
  <2>2. Good(e, nameless) /\ ~Bound(e)
    <3>1. Good(e, nameless)
      BY <1>0, <2>1, WaitsGood DEF Holding
    <3> QED
      BY <2>1, <3>1 DEF Bound, Waits
  <2>3. Become(e) /\ Sits(e, nameless) /\ UNCHANGED <<starting, half, lease, age>> /\ troubles' \in Nat
    BY <1>0, <1>8 DEF ArpReply, e, TypeOK
  <2> QED
    BY <2>2, <2>3, BecomeInv DEF Lives
<1>9. ASSUME NEW r \in Replies, r.type = "ACK" => c.out.type = "REQUEST" /\ r.addr = c.out.addr,
             UnderWay(r), troubles' \in Nat,
             UNCHANGED <<c, starting, half, lease, age, asked, nameless>>
      PROVE  DhcpInv' /\ c'.ip \in {None, c.ip} \cup asked
  <2>1. replies' \subseteq replies \cup {r}
    BY <1>9 DEF UnderWay
  <2>2. TypeOK'
    BY <1>0, <1>9, <2>1 DEF TypeOK
  <2>3. AskedInv'
    BY <1>0, <1>9, <2>1 DEF AskedInv
  <2>4. TimerRuns' /\ Leased(c, lease, age, half)'
    BY <1>0, <1>9 DEF TimerRuns, Leased, DhcpInv
  <2> QED
    BY <1>9, <2>2, <2>3, <2>4 DEF DhcpInv
<1>10. CASE Answer
  <2>1. PICK r \in Answers(c.out) : UnderWay(r)
    BY <1>10 DEF Answer
  <2>2. r \in Replies /\ (r.type = "ACK" => c.out.type = "REQUEST" /\ r.addr = c.out.addr)
    <3>1. c.xid \in 0..2 /\ c.out.addr \in AnyAddress
      BY <1>0 DEF Client
    <3>2. CASE c.out.type = "DISCOVER"
      <4>1. r \in [type : {"OFFER"}, addr : Addresses, lease : {0}, xid : {c.xid}, named : {TRUE}]
        BY <2>1, <3>2 DEF Answers
      <4>2. Addresses \subseteq AnyAddress /\ {0} \subseteq Nat /\ "OFFER" # "ACK"
        BY DEF AnyAddress
      <4> QED
        BY <3>1, <4>1, <4>2, Zenon DEF Replies
    <3>3. CASE c.out.type = "REQUEST" /\ c.out.addr # None
      <4>1. r \in [type : {"ACK"}, addr : {c.out.addr}, lease : Leases, xid : {c.xid}, named : {TRUE}]
        BY <2>1, <3>3 DEF Answers
      <4> QED
        BY <3>1, <3>3, <4>1, LeaseAssumption, Zenon DEF Replies
    <3> QED
      BY <2>1, <3>2, <3>3 DEF Answers
  <2> QED
    BY <1>0, <1>9, <1>10, <2>1, <2>2 DEF Answer, TypeOK
<1>11. CASE Refuse
  <2> DEFINE r == [type |-> "NAK", addr |-> None, lease |-> 0, xid |-> c.xid,
                   named |-> TRUE]
  <2>1. r \in Replies /\ r.type # "ACK"
    BY <1>0 DEF Replies, AnyAddress, Client
  <2>2. UnderWay(r) /\ troubles' \in Nat /\ UNCHANGED <<c, starting, half, lease, age, asked, nameless>>
    BY <1>0, <1>11 DEF Refuse, TypeOK
  <2> HIDE DEF r
  <2> QED
    BY <1>9, <2>1, <2>2
<1>12. CASE OfferNameless
  <2>1. PICK a \in Addresses :
          UnderWay([type |-> "OFFER", addr |-> a, lease |-> 0, xid |-> c.xid, named |-> FALSE])
    BY <1>12 DEF OfferNameless
  <2> DEFINE r == [type |-> "OFFER", addr |-> a, lease |-> 0, xid |-> c.xid, named |-> FALSE]
  <2>2. r \in Replies /\ r.type # "ACK"
    <3>1. a \in AnyAddress /\ c.xid \in 0..2 /\ FALSE \in BOOLEAN
      BY <1>0 DEF AnyAddress, Client
    <3> QED
      BY <3>1 DEF Replies
  <2>3. UnderWay(r) /\ troubles' \in Nat /\ UNCHANGED <<c, starting, half, lease, age, asked, nameless>>
    BY <1>0, <1>12, <2>1 DEF OfferNameless, TypeOK
  <2> HIDE DEF r
  <2> QED
    BY <1>9, <2>2, <2>3
<1>13. CASE UNCHANGED vars
  BY <1>0, <1>13 DEF vars, DhcpInv, TypeOK, TimerRuns, AskedInv, Leased
<1> QED
  BY <1>1, <1>2, <1>3, <1>4, <1>5, <1>6, <1>7, <1>8, <1>10, <1>11, <1>12, <1>13 DEF Next, Start

-------------------------------------------------------------------------------
\* DhcpInv always holds.
THEOREM InvTheorem == Spec => []DhcpInv
<1>1. DhcpInv /\ [Next]_vars => DhcpInv'
  BY StepInv
<1> QED
  BY <1>1, InitInv, PTL DEF Spec

\* The variables stay in their types.
THEOREM TypeCorrect == Spec => []TypeOK
<1>1. DhcpInv => TypeOK
  BY DEF DhcpInv
<1> QED
  BY <1>1, InvTheorem, PTL

\* A client that waits has its timer running (dhcp_set_state clears it, every
\* function that sends sets it again), even when the tcpip thread gets into
\* dhcp_start; unless it sits in SELECTING because an offer without server
\* identifier has stopped the timer.
THEOREM TimerTheorem == Spec => []TimerRuns
<1>1. DhcpInv => TimerRuns
  BY DEF DhcpInv
<1> QED
  BY <1>1, InvTheorem, PTL

\* A client that holds a lease holds one that has not run out, for leases of any
\* length: dhcp_bind rounds to minutes, dhcp_coarse_tmr counts them.
THEOREM LeaseTheorem == Spec => []InLease
<1>1. DhcpInv => InLease
  <2> SUFFICES ASSUME DhcpInv, c.ip # None, c.state \in {"BOUND", "RENEWING", "REBINDING"}
               PROVE  WithinLease
    BY DEF InLease
  <2>1. /\ c.t0 # 0 /\ c.used < c.t0 /\ c.t0 = Ticks(lease)
        /\ age <= 2 * c.used + 1
    BY DEF DhcpInv, TypeOK, Client, Leased, Holding
  <2>2. lease \in Nat /\ age \in Nat /\ c.t0 \in Nat /\ c.used \in Nat
    BY DEF DhcpInv, TypeOK, Client
  <2>3. c.t0 = 1 \/ c.t0 * 60 <= lease + 30
    BY <2>1, <2>2, TicksLemma
  <2> QED
    BY <2>1, <2>2, <2>3 DEF WithinLease
<1> QED
  BY <1>1, InvTheorem, PTL

\* The interface gets only addresses that were asked for in the exchange that the
\* acknowledgement belongs to: dhcp_recv compares the identifiers.
THEOREM AsksTheorem == Spec => AsksFirst
<1>1. DhcpInv /\ [Next]_vars => [c'.ip \in {None, c.ip} \cup asked]_vars
  BY StepInv
<1> QED
  BY <1>1, InvTheorem, PTL DEF Spec, AsksFirst

-------------------------------------------------------------------------------
(* LinkMonitor.                                                            *)

USE ModesAssumption, LinkBoundsAssumption, LinkFaultsAssumption

\* The status is marked as changed only between the call that found the change
\* and the next one, and then it is the status that was reported.
ChangeInv ==
    /\ phyustate # 0 => ~physts.changed
    /\ monPc = "changed" => physts.link = olddphysts.link

StackInv == ~NoMemory => StackFollows

LinkInv == LinkTypeOK /\ OneSntpTask /\ ChangeInv /\ StackInv

\* The initial states satisfy LinkInv.
LEMMA LinkInitInv == LinkInit => LinkInv
  <1> SUFFICES ASSUME LinkInit PROVE LinkInv
    OBVIOUS
  <1>1. /\ physts \in [link : BOOLEAN, mode : Modes, changed : BOOLEAN]
        /\ olddphysts \in [link : BOOLEAN, mode : Modes]
    BY DEF LinkInit
  <1>2. mbox \in Seq({"up", "down"}) /\ Len(mbox) <= MboxSize
    BY DEF LinkInit
  <1>3. LinkTypeOK
    <2>1. cable \in Modes \cup {NoCable} /\ temp \in Modes /\ mac \in Modes /\ changes \in 0 .. MaxChanges
      BY DEF LinkInit
    <2>2. tasks \in 0 .. 1 /\ phyustate \in 0 .. 2
      BY DEF LinkInit
    <2> QED
      BY <1>1, <1>2, <2>1, <2>2 DEF LinkInit, LinkTypeOK
  <1>4. OneSntpTask /\ ChangeInv /\ StackInv
    BY DEF LinkInit, OneSntpTask, ChangeInv, StackInv, StackFollows
  <1> QED
    BY <1>3, <1>4 DEF LinkInv

\* A call of lpcPHYStsPoll.
LEMMA PollStep == ASSUME LinkInv, PollLink \/ PollMode \/ PollUpdate PROVE LinkInv'
  <1> USE DEF LinkInv
  <1>1. /\ monPc = "poll" /\ monPc' \in {"changed", "ip"}
        /\ UNCHANGED <<cable, changes, prtIp, hldsntp, mac, mbox, linkUp, ip, ack, tasks, sntpPc,
                       sntphandle, alarm>>
    BY DEF PollLink, PollMode, PollUpdate, AfterPoll, phyVars, netVars, sntpVars
  <1>2. /\ latch' \in BOOLEAN /\ phyustate' \in 0 .. 2 /\ sts' \in BOOLEAN /\ temp' \in Modes
        /\ physts' \in [link : BOOLEAN, mode : Modes, changed : BOOLEAN]
        /\ olddphysts' \in [link : BOOLEAN, mode : Modes]
    <2>1. CASE PollLink
      <3>1. latch' \in BOOLEAN /\ sts' \in BOOLEAN
        <4>1. CASE sts' = (cable # NoCable /\ ~latch) /\ latch' = FALSE
          BY <4>1
        <4>2. CASE sts' = TRUE /\ UNCHANGED latch
          BY <4>2 DEF LinkTypeOK
        <4> QED
          BY <2>1, <4>1, <4>2 DEF PollLink
      <3>2. physts' \in [link : BOOLEAN, mode : Modes, changed : BOOLEAN]
        BY <2>1 DEF PollLink, LinkTypeOK
      <3>3. phyustate' = 1 /\ temp' = temp /\ olddphysts' = olddphysts
        BY <2>1 DEF PollLink
      <3> QED
        BY <3>1, <3>2, <3>3 DEF LinkTypeOK
    <2>2. CASE PollMode
      BY <2>2 DEF PollMode, LinkTypeOK, phyVars
    <2>3. CASE PollUpdate
      <3>1. Differs \in BOOLEAN
        BY DEF Differs
      <3> QED
        BY <2>3, <3>1 DEF PollUpdate, LinkTypeOK, phyVars
    <2> QED
      BY <2>1, <2>2, <2>3
  <1>3. LinkTypeOK'
    BY <1>1, <1>2 DEF LinkTypeOK
  <1>4. OneSntpTask'
    BY <1>1 DEF OneSntpTask
  <1>5. ChangeInv' /\ (monPc' # "changed" => olddphysts'.link = olddphysts.link)
    <2>1. CASE PollLink
      BY <2>1, <1>1 DEF PollLink, AfterPoll, LinkTypeOK, ChangeInv
    <2>2. CASE PollMode
      BY <2>2, <1>1 DEF PollMode, AfterPoll, LinkTypeOK, ChangeInv
    <2>3. CASE PollUpdate
      <3>1. ~physts.changed /\ phyustate' = 0 /\ monPc' = IF physts'.changed THEN "changed" ELSE "ip"
        BY <2>3 DEF PollUpdate, AfterPoll, ChangeInv
      <3>2. CASE Differs
        <4>1. physts'.link = sts /\ olddphysts'.link = sts /\ physts'.changed
          BY <2>3, <3>2 DEF PollUpdate
        <4> QED
          BY <3>1, <4>1 DEF ChangeInv
      <3>3. CASE ~Differs
        <4>1. physts'.changed = FALSE
          BY <2>3, <3>1, <3>3, Zenon DEF PollUpdate
        <4>2. olddphysts' = olddphysts
          BY <2>3, <3>3 DEF PollUpdate
        <4> QED
          BY <3>1, <4>1, <4>2 DEF ChangeInv
      <3> QED
        BY <3>2, <3>3
    <2> QED
      BY <2>1, <2>2, <2>3
  <1>6. StackInv'
    BY <1>1, <1>5 DEF StackInv, StackFollows
  <1> QED
    BY <1>3, <1>4, <1>5, <1>6

\* A posted callback is the last in the queue.
LEMMA PostStep == ASSUME LinkTypeOK, NEW x \in {"up", "down"}, Post(x)
                  PROVE /\ mbox' \in Seq({"up", "down"}) /\ Len(mbox') <= MboxSize
                        /\ ~NoMemory => mbox' # <<>> /\ mbox'[Len(mbox')] = x
  <1>1. CASE Len(mbox) < MboxSize /\ mbox' = Append(mbox, x)
    BY <1>1 DEF LinkTypeOK
  <1>2. CASE NoMemory /\ UNCHANGED mbox
    BY <1>2 DEF LinkTypeOK
  <1> QED
    BY <1>1, <1>2 DEF Post

\* The monitor handles a change.
LEMMA ChangeStep == ASSUME LinkInv, LinkGoesUp \/ LinkGoesDown PROVE LinkInv'
  <1> USE DEF LinkInv
  <1>1. PICK x \in {"up", "down"} : Post(x) /\ physts.link = (x = "up")
    BY DEF LinkGoesUp, LinkGoesDown, LinkTypeOK
  <1>2. /\ mbox' \in Seq({"up", "down"}) /\ Len(mbox') <= MboxSize
        /\ ~NoMemory => mbox' # <<>> /\ mbox'[Len(mbox')] = x
    BY <1>1, PostStep
  <1>3. /\ monPc = "changed" /\ monPc' \in {"ip", "kill"} /\ prtIp' \in BOOLEAN /\ mac' \in Modes
        /\ UNCHANGED <<cable, latch, changes, phyustate, sts, temp, physts, olddphysts, hldsntp,
                       linkUp, ip, ack, tasks, sntpPc, sntphandle, alarm>>
    BY DEF LinkGoesUp, LinkGoesDown, LinkTypeOK, phyVars, pollVars, netVars, sntpVars
  <1>4. LinkTypeOK'
    BY <1>2, <1>3 DEF LinkTypeOK
  <1>5. OneSntpTask' /\ ChangeInv'
    BY <1>3 DEF OneSntpTask, ChangeInv
  <1>6. StackInv'
    BY <1>1, <1>2, <1>3 DEF StackInv, StackFollows, ChangeInv
  <1> QED
    BY <1>4, <1>5, <1>6

\* The monitor deletes or starts the SNTP task, or leaves it alone.
LEMMA SntpOwnerStep == ASSUME LinkInv, KillSntp \/ NewAddress \/ NoNewAddress PROVE LinkInv'
  <1> USE DEF LinkInv
  <1>1. /\ monPc \in {"kill", "ip"} /\ monPc' \in {"ip", "poll"} /\ prtIp' \in BOOLEAN
        /\ UNCHANGED <<cable, latch, changes, phyustate, sts, temp, physts, olddphysts, mac, mbox,
                       linkUp, ip, ack, alarm>>
    BY DEF KillSntp, NewAddress, NoNewAddress, LinkTypeOK, phyVars, pollVars, netVars, sntpVars
  <1>2. OneSntpTask' /\ sntphandle' \in {"NULL", "live", "deleted"}
        /\ sntpPc' \in {"none", "new", sntpPc} /\ hldsntp' \in BOOLEAN
    <2>1. CASE KillSntp
      <3>1. CASE hldsntp
        <4>1. /\ hldsntp' = FALSE /\ tasks' = tasks - 1 /\ sntpPc' = "none" /\ sntphandle' = "deleted"
          BY <2>1, <3>1 DEF KillSntp
        <4>2. tasks = 1
          BY <3>1 DEF OneSntpTask
        <4>3. tasks' = 0
          BY <4>1, <4>2
        <4>4. OneSntpTask'
          BY <4>1, <4>3 DEF OneSntpTask
        <4> QED
          BY <4>1, <4>4
      <3>2. CASE ~hldsntp
        BY <2>1, <3>2 DEF KillSntp, OneSntpTask, LinkTypeOK
      <3> QED
        BY <3>1, <3>2
    <2>2. CASE NewAddress
      <3>1. CASE /\ ~hldsntp /\ tasks' = tasks + 1
                 /\ hldsntp' = TRUE /\ sntphandle' = "live" /\ sntpPc' = "new"
        BY <3>1 DEF OneSntpTask
      <3>2. CASE /\ ~hldsntp /\ sntphandle' = "NULL"
                 /\ UNCHANGED <<tasks, hldsntp, sntpPc>>
        BY <3>2 DEF OneSntpTask, LinkTypeOK
      <3>3. CASE hldsntp /\ UNCHANGED <<tasks, hldsntp, sntphandle, sntpPc>>
        BY <3>3 DEF OneSntpTask, LinkTypeOK
      <3> QED
        BY <2>2, <3>1, <3>2, <3>3 DEF NewAddress
    <2>3. CASE NoNewAddress
      BY <2>3 DEF NoNewAddress, OneSntpTask, LinkTypeOK, sntpVars
    <2> QED
      BY <2>1, <2>2, <2>3
  <1>3. LinkTypeOK'
    BY <1>1, <1>2 DEF LinkTypeOK, OneSntpTask
  <1>4. ChangeInv' /\ StackInv'
    BY <1>1 DEF ChangeInv, StackInv, StackFollows
  <1> QED
    BY <1>2, <1>3, <1>4

\* Taking the head off a queue of two or more leaves its end alone.
LEMMA LastOfTail ==
    ASSUME NEW q \in Seq({"up", "down"}), q # <<>>, Len(q) # 1
    PROVE  Tail(q) # <<>> /\ Tail(q)[Len(Tail(q))] = q[Len(q)]
  <1>1. Len(q) \in Nat /\ Len(q) > 1
    <2>1. Len(q) \in Nat \ {0}
      BY EmptySeq
    <2>2. \A n \in Nat \ {0} : n # 1 => n \in Nat /\ n > 1
      OBVIOUS
    <2> QED
      BY <2>1, <2>2, Zenon
  <1>2. Len(Tail(q)) = Len(q) - 1
    BY <1>1
  <1>3. \A i \in 1 .. Len(q) - 1 : Tail(q)[i] = q[i + 1]
    BY <1>1
  <1>4. Tail(q)[Len(q) - 1] = q[Len(q)]
    BY <1>1, <1>3
  <1>5. Tail(q) # <<>>
    <2>1. \A n \in Nat : n > 1 => n - 1 # 0
      OBVIOUS
    <2>2. Len(Tail(q)) # 0
      BY <1>1, <1>2, <2>1, Zenon
    <2>3. Len(<<>>) = 0
      BY EmptySeq, Zenon
    <2> QED
      BY <2>2, <2>3, Zenon
  <1> QED
    BY <1>2, <1>4, <1>5

\* The TCP/IP thread runs a callback: the end of the queue is unaffected.
LEMMA CallbackStep == ASSUME LinkInv, TcpipCallback PROVE LinkInv'
  <1> USE DEF LinkInv
  <1>1. /\ mbox # <<>> /\ mbox' = Tail(mbox) /\ linkUp' = (mbox[1] = "up")
        /\ UNCHANGED <<cable, latch, changes, phyustate, sts, temp, physts, olddphysts, monPc, prtIp,
                       hldsntp, mac, ip, ack, tasks, sntpPc, sntphandle, alarm>>
    BY DEF TcpipCallback, phyVars, pollVars, monVars, sntpVars
  <1>2. mbox \in Seq({"up", "down"}) /\ Len(mbox) \in Nat /\ Len(mbox) >= 1
    BY <1>1 DEF LinkTypeOK
  <1>3. mbox' \in Seq({"up", "down"}) /\ Len(mbox') = Len(mbox) - 1
    BY <1>1, <1>2
  <1>4. LinkTypeOK'
    BY <1>1, <1>2, <1>3 DEF LinkTypeOK
  <1>5. OneSntpTask' /\ ChangeInv'
    BY <1>1 DEF OneSntpTask, ChangeInv
  <1>6. StackInv'
    <2>1. CASE Len(mbox) = 1
      <3>1. mbox' = <<>> /\ linkUp' = (mbox[Len(mbox)] = "up")
        BY <1>1, <1>3, <2>1
      <3> QED
        BY <1>1, <3>1 DEF StackInv, StackFollows
    <2>2. CASE Len(mbox) # 1
      <3>1. mbox' # <<>> /\ mbox'[Len(mbox')] = mbox[Len(mbox)]
        BY <1>1, <1>2, <2>2, LastOfTail
      <3> QED
        BY <1>1, <3>1 DEF StackInv, StackFollows
    <2> QED
      BY <2>1, <2>2
  <1> QED
    BY <1>4, <1>5, <1>6

\* The steps of the cable, DHCP, the SNTP task and its alarm.
LEMMA OtherStep ==
    ASSUME LinkInv, (\E mode \in Modes \cup {NoCable} : CableChanges(mode)) \/ Dhcp \/ Sntp \/ RTC_IRQHandler
    PROVE  LinkInv'
  <1> USE DEF LinkInv
  <1> DEFINE Elsewhere ==
        /\ UNCHANGED <<phyustate, sts, temp, physts, olddphysts, monPc, prtIp, hldsntp, mac, mbox,
                       linkUp, tasks, sntphandle>>
        /\ cable' \in Modes \cup {NoCable} /\ latch' \in BOOLEAN /\ changes' \in 0 .. MaxChanges
        /\ ip' \in BOOLEAN /\ ack' \in BOOLEAN /\ alarm' \in BOOLEAN
        /\ sntpPc' \in {"none", "new", "receive", "synced", "failed", "suspend", "suspended"}
        /\ sntpPc = "none" <=> sntpPc' = "none"
  <1>1. Elsewhere
    <2>1. ASSUME NEW x \in Modes \cup {NoCable}, CableChanges(x) PROVE Elsewhere
      BY <2>1 DEF CableChanges, LinkTypeOK, pollVars, monVars, netVars, sntpVars
    <2>2. CASE Dhcp
      BY <2>2 DEF Dhcp, DhcpAnswers, DhcpBinds, DhcpLoses, LinkTypeOK, phyVars, pollVars, monVars, sntpVars
    <2>3. CASE Sntp
      BY <2>3 DEF Sntp, SntpAsk, SntpReceive, SntpSetAlarm, SntpSuspend, SntpGoes, LinkTypeOK, phyVars,
                  pollVars, monVars, netVars
    <2>4. CASE RTC_IRQHandler
      BY <2>4 DEF RTC_IRQHandler, LinkTypeOK, phyVars, pollVars, monVars, netVars
    <2> QED
      BY <2>1, <2>2, <2>3, <2>4
  <1>2. LinkTypeOK'
    BY <1>1 DEF LinkTypeOK
  <1>3. OneSntpTask' /\ ChangeInv' /\ StackInv'
    BY <1>1 DEF OneSntpTask, ChangeInv, StackInv, StackFollows
  <1> QED
    BY <1>2, <1>3

\* Every step preserves LinkInv.
LEMMA LinkStep == LinkInv /\ [LinkNext]_linkVars => LinkInv'
  <1> SUFFICES ASSUME LinkInv, [LinkNext]_linkVars PROVE LinkInv'
    OBVIOUS
  <1>1. CASE UNCHANGED linkVars
    BY <1>1 DEF LinkInv, LinkTypeOK, OneSntpTask, ChangeInv, StackInv, StackFollows, linkVars, phyVars, pollVars,
                monVars, netVars, sntpVars
  <1> QED
    BY <1>1, PollStep, ChangeStep, SntpOwnerStep, CallbackStep, OtherStep DEF LinkNext, Monitor

\* However the link, the address and failing allocations alternate, the handle
\* of vEthernetTask stands for exactly one SNTP task.
THEOREM OneTask == LinkSpec => [](LinkTypeOK /\ OneSntpTask)
  <1>1. LinkInv => LinkTypeOK /\ OneSntpTask
    BY DEF LinkInv
  <1> QED
    BY <1>1, LinkInitInv, LinkStep, PTL DEF LinkSpec

\* Unless memory for a callback runs out, the stack's link flag becomes the one
\* the monitor reported last, once the mailbox is drained.
THEOREM LinkFollowed == LinkSpec => [](~NoMemory => StackFollows)
  <1>1. LinkInv => (~NoMemory => StackFollows)
    BY DEF LinkInv, StackInv
  <1> QED
    BY <1>1, LinkInitInv, LinkStep, PTL DEF LinkSpec
===============================================================================

--------------------------------- MODULE Dhcp ---------------------------------
(***************************************************************************)
(* The DHCP client, dhcp.c, from its start by vEthernetTask to the end of  *)
(* its lease.  All of it runs in the tcpip thread, which handles one       *)
(* message, one timer or one change of the link at a time, except          *)
(* dhcp_start, which vEthernetTask calls itself and which the thread may   *)
(* interrupt.                                                              *)
(*                                                                         *)
(* A transaction identifier is random and never returns; an identifier is  *)
(* a number modulo three here, and replies to one that returns are         *)
(* dropped.  Of the messages under way to the servers the last one is      *)
(* kept.  Servers send no renewal times of their own and lease for a       *)
(* finite time; one that leaves its identifier out of an offer counts as   *)
(* trouble.  The fine timer, which counts half seconds, may go off         *)
(* whenever it is on.                                                      *)
(*                                                                         *)
(* dhcp_start is two steps here, the message sent and its timer set.  The  *)
(* thread may also run while vEthernetTask clears the structure (740) or   *)
(* builds the message; those steps are taken as one with the sending.      *)
(***************************************************************************)
EXTENDS Naturals, FiniteSets

CONSTANTS
    Addresses,     \* the addresses the servers have
    None,          \* 0.0.0.0
    Leases,        \* the lease times servers give, in seconds
    RequestTries,  \* how often a REQUEST is repeated (5)
    RebootTries,   \* REBOOT_TRIES
    MaxReplies,    \* bound: replies under way
    MaxTroubles    \* bound: refusals, conflicts, link changes and failed allocations

ASSUME NoneAssumption == None \notin Addresses
ASSUME LeaseAssumption == Leases \subseteq Nat \ {0}
ASSUME TriesAssumption == RequestTries \in Nat /\ RebootTries \in Nat \ {0}

VARIABLES
    c,         \* struct dhcp, with the address of the interface
    starting,  \* where vEthernetTask is in dhcp_start
    replies,   \* replies under way
    half,      \* half a period of the coarse timer has passed
    troubles,  \* how much has gone wrong
    \* history
    lease,     \* the lease of the address on the interface, in seconds
    age,       \* for how many times 30 seconds it has been there
    asked,     \* the addresses requested in this exchange
    nameless   \* the client took an offer without server identifier, and waits

vars == <<c, starting, replies, half, troubles, lease, age, asked, nameless>>

CoarseSecs == 60   \* DHCP_COARSE_TIMER_SECS
MaxTries == IF RequestTries < 2 THEN 2 ELSE RequestTries + 1

MsgTypes == {"DISCOVER", "REQUEST", "DECLINE", "RELEASE"}
NoMsg == [type |-> "none", addr |-> None]

-------------------------------------------------------------------------------
(* The functions of dhcp.c, from the client before a call to the client      *)
(* after it; mem is the set of messages there is memory for.                 *)

\* dhcp_set_state.
SetState(d, s) ==
    IF d.state = s THEN d ELSE [d EXCEPT !.state = s, !.tries = 0, !.timer = FALSE]

\* dhcp_create_msg and udp_sendto: all but a REQUEST take a new identifier on
\* the first try.
Send(d, m, mem) ==
    IF m.type \notin mem THEN d
    ELSE [d EXCEPT !.xid = IF m.type # "REQUEST" /\ d.tries = 0 THEN (@ + 1) % 3 ELSE @,
                   !.out = IF m.type \in {"DISCOVER", "REQUEST"} THEN m ELSE NoMsg]

Retry_NoTimer(d) == [d EXCEPT !.tries = IF @ < MaxTries THEN @ + 1 ELSE @]
\* The end of each of them: one try more, and the timer of the request.
Retry(d) == [d EXCEPT !.tries = IF @ < MaxTries THEN @ + 1 ELSE @, !.timer = TRUE]

Request(addr) == [type |-> "REQUEST", addr |-> addr]

DiscoverSend(d, mem) ==
    Send(SetState([d EXCEPT !.offered = None], "SELECTING"), [type |-> "DISCOVER", addr |-> None], mem)
Discover(d, mem) == Retry(DiscoverSend(d, mem))
Select(d, mem)   == LET e == SetState(d, "REQUESTING") IN Retry(Send(e, Request(e.offered), mem))
Reboot(d, mem)   == LET e == SetState(d, "REBOOTING")  IN Retry(Send(e, Request(e.offered), mem))
Renew(d, mem)    == LET e == SetState(d, "RENEWING")   IN Retry(Send(e, Request(e.ip), mem))
Rebind(d, mem)   == LET e == SetState(d, "REBINDING")  IN Retry(Send(e, Request(e.ip), mem))
Check_Anew(d) == [Retry(SetState(d, "CHECKING")) EXCEPT !.tries = 1]
Check(d) == Retry(SetState(d, "CHECKING"))
Decline(d, mem)  == Retry(Send(SetState(d, "BACKING_OFF"), [type |-> "DECLINE", addr |-> d.offered], mem))

\* dhcp_bind: the lease times in periods of the coarse timer, rounded.
Ticks(secs) ==
    LET t == (secs + CoarseSecs \div 2) \div CoarseSecs IN IF t = 0 THEN 1 ELSE t
Bind(d) ==
    SetState([d EXCEPT !.used = 0, !.t0 = Ticks(d.offT0),
                       !.t1 = Ticks(d.offT1), !.t2 = Ticks(d.offT2),
                       !.t2timeout = Ticks(d.offT2), !.ip = d.offered], "BOUND")

\* dhcp_release; dhcp_supplied_address tells whether the address is DHCP's.
Supplied(d) == d.state \in {"BOUND", "RENEWING"}
Release(d, mem) ==
    LET e == [SetState(d, "OFF") EXCEPT !.offered = None, !.offT0 = 0, !.offT1 = 0, !.offT2 = 0,
                                        !.t0 = 0, !.t1 = 0, !.t2 = 0, !.used = 0]
    IN  IF Supplied(d)
        THEN [Send(e, [type |-> "RELEASE", addr |-> d.ip], mem) EXCEPT !.ip = None]
        ELSE e

\* dhcp_handle_ack, dhcp_handle_nak, dhcp_handle_offer.
HandleAck(d, r) ==
    [d EXCEPT !.offered = r.addr, !.offT0 = r.lease,
              !.offT1 = r.lease \div 2, !.offT2 = (r.lease * 7) \div 8]
HandleNak(d, mem) == Discover(SetState([d EXCEPT !.ip = None], "BACKING_OFF"), mem)
HandleOffer(d, r, mem) ==
    LET e == [d EXCEPT !.timer = FALSE]
    IN  IF r.named THEN Select([e EXCEPT !.offered = r.addr], mem) ELSE e

\* dhcp_recv: what a reply leads to.
Ours_NoXid(d, r) == TRUE
Ours(d, r) == r.xid = d.xid
Receive(d, r, mem) ==
    IF ~Ours(d, r) THEN d
    ELSE IF r.type = "ACK" /\ d.state = "REQUESTING" THEN Check(HandleAck(d, r))
    ELSE IF r.type = "ACK" /\ d.state \in {"REBOOTING", "REBINDING", "RENEWING"}
    THEN Bind(HandleAck(d, r))
    ELSE IF r.type = "NAK" /\ d.state \in {"REBOOTING", "REQUESTING", "REBINDING", "RENEWING"}
    THEN HandleNak(d, mem)
    ELSE IF r.type = "OFFER" /\ d.state = "SELECTING" THEN HandleOffer(d, r, mem)
    ELSE d

\* dhcp_timeout.
Timeout(d, mem) ==
    CASE d.state \in {"BACKING_OFF", "SELECTING"} -> Discover(d, mem)
      [] d.state = "REQUESTING" ->
           IF d.tries <= RequestTries THEN Select(d, mem) ELSE Discover(Release(d, mem), mem)
      [] d.state = "CHECKING"  -> IF d.tries <= 1 THEN Check(d) ELSE Bind(d)
      [] d.state = "REBOOTING" -> IF d.tries < RebootTries THEN Reboot(d, mem) ELSE Discover(d, mem)
      [] OTHER -> d

\* dhcp_t1_timeout and dhcp_t2_timeout: half of what is left is the next try.
Left(until, d) == IF until > d.used THEN (until - d.used) \div 2 ELSE 0
T1Timeout(d, mem) ==
    IF d.state \in {"REQUESTING", "BOUND", "RENEWING"}
    THEN [Renew(d, mem) EXCEPT !.t1 = Left(d.t2timeout, d)] ELSE d
T2Timeout(d, mem) ==
    IF d.state \in {"REQUESTING", "BOUND", "RENEWING", "REBINDING"}
    THEN [Rebind(d, mem) EXCEPT !.t2 = Left(d.t0, d)] ELSE d

\* dhcp_coarse_tmr.
Expired_Never(d) == FALSE
Expired(d) == d.t0 # 0 /\ d.used + 1 = d.t0
Down(n) == IF n > 0 THEN n - 1 ELSE 0
CoarseTmr(d, mem) ==
    LET e == IF d.t0 # 0 THEN [d EXCEPT !.used = @ + 1] ELSE d
        f == [e EXCEPT !.t2 = Down(@)]
        g == [f EXCEPT !.t1 = Down(@)]
    IN  IF d.state = "OFF" THEN d
        ELSE IF Expired(d) THEN Discover(Release(e, mem), mem)
        ELSE IF d.t2 = 1 THEN T2Timeout(f, mem)
        ELSE IF d.t1 = 1 THEN T1Timeout(g, mem)
        ELSE g

\* dhcp_network_changed.
NetworkChanged(d, mem) ==
    IF d.state \in {"REBINDING", "RENEWING", "BOUND", "REBOOTING"}
    THEN Reboot([d EXCEPT !.tries = 0], mem)
    ELSE IF d.state = "OFF" THEN d
    ELSE Discover([d EXCEPT !.tries = 0], mem)

-------------------------------------------------------------------------------
States == {"OFF", "SELECTING", "REQUESTING", "CHECKING", "BOUND", "RENEWING", "REBINDING",
           "REBOOTING", "BACKING_OFF"}
AnyAddress == Addresses \cup {None}
Client == [state : States, tries : 0..MaxTries, timer : BOOLEAN, xid : 0..2,
           ip : AnyAddress, offered : AnyAddress,
           offT0 : Nat, offT1 : Nat, offT2 : Nat,
           t0 : Nat, t1 : Nat, t2 : Nat, t2timeout : Nat, used : Nat,
           out : [type : {"none", "DISCOVER", "REQUEST"}, addr : AnyAddress]]
Replies == [type : {"OFFER", "ACK", "NAK"}, addr : AnyAddress, lease : Nat, xid : 0..2,
            named : BOOLEAN]    \* whether it has the server's identifier

Cleared == [state |-> "OFF", tries |-> 0, timer |-> FALSE, xid |-> 0, ip |-> None,
            offered |-> None, offT0 |-> 0, offT1 |-> 0, offT2 |-> 0,
            t0 |-> 0, t1 |-> 0, t2 |-> 0, t2timeout |-> 0, used |-> 0, out |-> NoMsg]

Init ==
    /\ c = Cleared
    /\ starting = "called"
    /\ replies = {} /\ half = FALSE /\ troubles = 0
    /\ lease = 0 /\ age = 0 /\ asked = {} /\ nameless = FALSE

Asked(d) == (IF d.xid = c.xid THEN asked ELSE {})
              \cup (IF d.out.type = "REQUEST" THEN {d.out.addr} ELSE {})

\* The client becomes d; a reply to an identifier that returns is dropped, and
\* the history follows.
Become(d) ==
    /\ c' = d
    /\ replies' = {r \in replies : d.xid = c.xid \/ r.xid # d.xid}
    /\ asked' = Asked(d)

\* What an allocation may do: everything succeeds, or one kind of message fails.
Memory(mem) ==
    \/ mem = MsgTypes /\ UNCHANGED troubles
    \/ \E t \in MsgTypes :
         /\ mem = MsgTypes \ {t}
         /\ troubles < MaxTroubles /\ troubles' = troubles + 1
Memories == {MsgTypes} \cup {MsgTypes \ {t} : t \in MsgTypes}

\* The history of the lease: an address bound starts a new one.
Bound(d) == d.state = "BOUND" /\ c.state # "BOUND"
Lives(d) ==
    IF Bound(d) THEN lease' = d.offT0 /\ age' = 0 ELSE UNCHANGED <<lease, age>>

\* The history of offers without server identifier: n tells whether the last
\* thing that happened to the request's timer is that such an offer stopped it.
Sits(d, n) == nameless' = (n /\ d.state = "SELECTING" /\ ~d.timer)
Nameless(d, r) == Ours(d, r) /\ r.type = "OFFER" /\ d.state = "SELECTING" /\ ~r.named

-------------------------------------------------------------------------------
(* dhcp_start in vEthernetTask: the request is sent, and then its timer set;  *)
(* the tcpip thread may get in between.                                       *)

StartSend ==
    /\ starting = "called"
    /\ starting' = "sent"
    /\ LET d == DiscoverSend(c, MsgTypes) IN Become(d) /\ Sits(d, nameless)
    /\ UNCHANGED <<half, troubles, lease, age>>

StartEnd ==
    /\ starting = "sent"
    /\ starting' = "done"
    /\ LET d == Retry(c) IN Become(d) /\ Sits(d, nameless)
    /\ UNCHANGED <<half, troubles, lease, age>>

\* Without memory for the first message the client is stopped (dhcp_stop), and
\* the result is not looked at.
StartFails ==
    /\ starting = "called"
    /\ starting' = "failed"
    /\ UNCHANGED <<c, replies, half, troubles, lease, age, asked, nameless>>

-------------------------------------------------------------------------------
(* The tcpip thread. *)

\* dhcp_recv; the reply may come again.
RecvReply(r, mem) ==
    /\ r \in replies
    /\ Memory(mem)
    /\ LET d == Receive(c, r, mem)
       IN  Become(d) /\ Lives(d) /\ Sits(d, nameless \/ Nameless(c, r))
    /\ UNCHANGED <<starting, half>>

\* dhcp_fine_tmr, when it brings request_timeout to 0.
FineTmr(mem) ==
    /\ c.timer
    /\ Memory(mem)
    /\ LET d == Timeout([c EXCEPT !.timer = FALSE], mem)
       IN  Become(d) /\ Lives(d) /\ Sits(d, nameless)
    /\ UNCHANGED <<starting, half>>

\* 30 seconds pass: what is under way is lost, and dhcp_coarse_tmr is due every
\* second time.  age stops where it tells nothing more.
MaxAge == 2 + CHOOSE n \in {l \div 30 : l \in Leases} : \A l \in Leases : l \div 30 <= n
Pass(mem) ==
    /\ starting # "sent"
    /\ IF half THEN Memory(mem) ELSE mem = MsgTypes /\ UNCHANGED troubles
    /\ half' = ~half
    /\ LET lost == [c EXCEPT !.out = NoMsg]
           d == IF half THEN CoarseTmr(lost, mem) ELSE lost
       IN  c' = d /\ asked' = Asked(d) /\ Sits(d, nameless)
    /\ replies' = {}
    /\ age' = IF c.ip # None /\ age < MaxAge THEN age + 1 ELSE age
    /\ UNCHANGED <<starting, lease>>

\* netif_set_link_up: the first time, or after the cable was pulled.
LinkUp(mem) ==
    /\ troubles < MaxTroubles /\ troubles' = troubles + 1
    /\ mem = MsgTypes
    /\ LET d == NetworkChanged(c, mem) IN Become(d) /\ Sits(d, nameless)
    /\ UNCHANGED <<starting, half, lease, age>>

\* dhcp_arp_reply: another host has the offered address.
ArpReply(mem) ==
    /\ c.state = "CHECKING"
    /\ troubles < MaxTroubles /\ troubles' = troubles + 1
    /\ mem \in Memories
    /\ LET d == Decline(c, mem) IN Become(d) /\ Sits(d, nameless)
    /\ UNCHANGED <<starting, half, lease, age>>

-------------------------------------------------------------------------------
(* The servers. *)

\* A request for no address is not answered.
Answers(m) ==
    CASE m.type = "DISCOVER" ->
           [type : {"OFFER"}, addr : Addresses, lease : {0}, xid : {c.xid}, named : {TRUE}]
      [] m.type = "REQUEST" /\ m.addr # None ->
           [type : {"ACK"}, addr : {m.addr}, lease : Leases, xid : {c.xid}, named : {TRUE}]
      [] OTHER -> {}

\* A reply more is under way; where there are too many, others are lost.
UnderWay(r) == \E kept \in SUBSET replies :
    Cardinality(kept) < MaxReplies /\ replies' = kept \cup {r}

Answer ==
    /\ \E r \in Answers(c.out) : UnderWay(r)
    /\ UNCHANGED <<c, starting, half, troubles, lease, age, asked, nameless>>

Refuse ==
    /\ c.out.type = "REQUEST"
    /\ troubles < MaxTroubles /\ troubles' = troubles + 1
    /\ UnderWay([type |-> "NAK", addr |-> None, lease |-> 0, xid |-> c.xid, named |-> TRUE])
    /\ UNCHANGED <<c, starting, half, lease, age, asked, nameless>>

\* An offer without the server's identifier.
OfferNameless ==
    /\ c.out.type = "DISCOVER"
    /\ troubles < MaxTroubles /\ troubles' = troubles + 1
    /\ \E a \in Addresses :
         UnderWay([type |-> "OFFER", addr |-> a, lease |-> 0, xid |-> c.xid, named |-> FALSE])
    /\ UNCHANGED <<c, starting, half, lease, age, asked, nameless>>

-------------------------------------------------------------------------------
Start == StartSend \/ StartEnd \/ StartFails
Next ==
    \/ Start
    \/ \E mem \in Memories : (\E r \in replies : RecvReply(r, mem)) \/ FineTmr(mem) \/ Pass(mem)
                             \/ LinkUp(mem) \/ ArpReply(mem)
    \/ Answer \/ Refuse \/ OfferNameless

Spec == Init /\ [][Next]_vars

\* The tcpip thread's timers go off, vEthernetTask gets on, and of the messages
\* sent again and again some arrive: the servers answer and the client takes it.
Accepted(type, states) ==
    \E r \in replies : /\ r.type = type /\ r.xid = c.xid /\ c.state \in states
                       /\ \E mem \in Memories : RecvReply(r, mem)
Fairness ==
    /\ WF_vars(StartEnd)
    /\ WF_vars(FineTmr(MsgTypes)) /\ WF_vars(Pass(MsgTypes))
    /\ SF_vars(c.out.type = "DISCOVER" /\ Answer) /\ SF_vars(c.out.type = "REQUEST" /\ Answer)
    /\ SF_vars(Accepted("OFFER", {"SELECTING"}))
    /\ SF_vars(Accepted("ACK", {"REQUESTING", "REBOOTING", "REBINDING", "RENEWING"}))

FairSpec == Spec /\ Fairness

-------------------------------------------------------------------------------
(* Properties. *)

\* Every variable stays in its type.
TypeOK ==
    /\ c \in Client
    /\ starting \in {"called", "sent", "done", "failed"}
    /\ replies \subseteq Replies
    /\ half \in BOOLEAN /\ troubles \in Nat
    /\ lease \in Nat /\ age \in Nat /\ asked \subseteq AnyAddress /\ nameless \in BOOLEAN

\* A client that waits for an answer has the timer of the request running, so
\* that a lost message never stops it, whatever gets in between vEthernetTask
\* sending the first message and setting the timer.  There is one way to stop
\* it: an offer without server identifier, for which dhcp_recv clears the timer
\* (1736) and dhcp_handle_offer does nothing (322).
TimerRuns ==
    c.state \in {"SELECTING", "REQUESTING", "CHECKING", "BACKING_OFF", "REBOOTING"}
    /\ starting # "sent" => c.timer \/ (nameless /\ c.state = "SELECTING")

\* While the client says that it has a lease, and tries to renew it, the lease
\* has not run out, to the half minute: the times are rounded to minutes, and
\* the coarse timer has started its minute before the lease.
WithinLease == age * 30 <= IF lease < 30 THEN 30 ELSE lease
InLease ==
    c.ip # None /\ c.state \in {"BOUND", "RENEWING", "REBINDING"} => WithinLease

\* An address is put on the interface only after it was asked for in the same
\* exchange: replies to earlier ones, late or doubled, have no effect.
AsksFirst == [][c'.ip \in {None, c.ip} \cup asked]_vars

\* Unless dhcp_start has failed, the client gets an address in the end, whatever
\* was lost, refused or found in use before; or it sits in SELECTING for ever,
\* with its timer stopped by an offer without server identifier.
GetsBound == (c.state # "OFF" ~> c.state = "BOUND") \/ <>[]nameless
===============================================================================

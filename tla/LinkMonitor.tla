----------------------------- MODULE LinkMonitor -----------------------------
(***************************************************************************)
(* The main loop of the application, vEthernetTask of lwipserver.c, with   *)
(* everything it watches and starts:                                       *)
(*                                                                         *)
(*   - lpcPHYStsPoll (phy_smsc87x0.c) reads the PHY in three calls and     *)
(*     reports a change of link, speed or duplex in one of them;           *)
(*   - a change is posted to the TCP/IP thread, which sets the link flag   *)
(*     of the interface and gets an address by DHCP;                       *)
(*   - the SNTP task (sntp.c) is started with the first address and        *)
(*     deleted with the link; between two requests it is suspended until   *)
(*     the alarm of the real-time clock resumes it.                        *)
(*                                                                         *)
(* A mode stands for a speed and a duplex setting.                         *)
(***************************************************************************)
EXTENDS Naturals, Sequences

CONSTANTS
    Modes,          \* the speed and duplex settings in use
    NoCable,        \* no link
    MboxSize,       \* TCPIP_MBOX_SIZE
    MaxChanges,     \* bound: how often the cable or the partner changes
    MdioTimeouts,   \* whether a PHY read may time out
    NoMemory        \* whether sys_thread_new and memp_malloc may fail

ASSUME ModesAssumption == {"100F", "10F", "10H"} \subseteq Modes /\ NoCable \notin Modes
ASSUME LinkBoundsAssumption == MboxSize \in Nat \ {0} /\ MaxChanges \in Nat
ASSUME LinkFaultsAssumption == MdioTimeouts \in BOOLEAN /\ NoMemory \in BOOLEAN

VARIABLES
    \* the PHY
    cable,      \* NoCable, or the mode it has negotiated
    latch,      \* the link was lost since BMSR was read: it reads as down once
    changes,
    \* phy_smsc87x0.c
    phyustate,  \* which of the three calls is next
    sts, temp,  \* the link bit and the mode that were read
    physts,     \* link, mode, and PHY_LINK_CHANGED
    olddphysts, \* link and mode of the last reported change
    \* vEthernetTask
    monPc,      \* where it is
    prtIp,      \* prt_ip
    hldsntp,    \* hldsntp # NULL
    \* the MAC and the TCP/IP thread
    mac,        \* the mode of the MAC
    mbox,       \* the link callbacks posted to the TCP/IP thread
    linkUp,     \* NETIF_FLAG_LINK_UP
    ip, ack,    \* the interface has an address; a DHCP answer is on its way
    \* sntp.c and the real-time clock
    tasks,      \* how many SNTP tasks there are
    sntpPc,     \* where the last one created is
    sntphandle, \* NULL, or whether the task it names still exists
    alarm       \* the alarm time has been set

phyVars  == <<cable, latch, changes>>
pollVars == <<phyustate, sts, temp, physts, olddphysts>>
monVars  == <<monPc, prtIp, hldsntp, mac>>
netVars  == <<linkUp, ip, ack>>
sntpVars == <<tasks, sntpPc, sntphandle, alarm>>
linkVars == <<phyVars, pollVars, monVars, mbox, netVars, sntpVars>>

\* lpc_phy_init has cleared the status, which reads as 10 Mbit half duplex;
\* low_level_init has set the MAC for 100 Mbit full duplex.  dhcp_start has run.
LinkInit ==
    /\ cable \in Modes \cup {NoCable} /\ latch = FALSE /\ changes = 0
    /\ phyustate = 0 /\ sts = FALSE /\ temp = "100F"
    /\ physts = [link |-> FALSE, mode |-> "10H", changed |-> FALSE]
    /\ olddphysts = [link |-> FALSE, mode |-> "10H"]
    /\ mac = "100F"
    /\ monPc = "poll" /\ prtIp = FALSE /\ hldsntp = FALSE
    /\ mbox = <<>> /\ linkUp = FALSE /\ ip = FALSE /\ ack = FALSE
    /\ tasks = 0 /\ sntpPc = "none" /\ sntphandle = "NULL" /\ alarm = FALSE

-------------------------------------------------------------------------------
(* The PHY. *)

\* The cable is pulled or plugged, or the partner negotiates another mode.
CableChanges(c) ==
    /\ changes < MaxChanges /\ c # cable
    /\ cable' = c
    /\ latch' = (latch \/ cable # NoCable)
    /\ changes' = changes + 1
    /\ UNCHANGED <<pollVars, monVars, mbox, netVars, sntpVars>>

-------------------------------------------------------------------------------
(* vEthernetTask. *)

\* Where the loop goes with the status lpcPHYStsPoll returns.
AfterPoll(s) == monPc' = IF s.changed THEN "changed" ELSE "ip"

\* First call: read the link bit.  The result of readphy is compared with
\* ERR_MEM only after it is narrowed to 16 bits: a time-out reads as all ones.
PollLink ==
    /\ monPc = "poll" /\ phyustate = 0
    /\ \/ sts' = (cable # NoCable /\ ~latch) /\ latch' = FALSE
       \/ MdioTimeouts /\ sts' = TRUE /\ UNCHANGED latch
    /\ physts' = [physts EXCEPT !.changed = FALSE]
    /\ phyustate' = 1
    /\ AfterPoll(physts')
    /\ UNCHANGED <<cable, changes, temp, olddphysts, prtIp, hldsntp, mac, mbox, netVars, sntpVars>>

\* Second call: read speed and duplex, anything while there is no link.  In a
\* time-out the masked bits read as 10 Mbit full duplex.
PollMode ==
    /\ monPc = "poll" /\ phyustate = 1
    /\ temp' \in IF cable = NoCable THEN Modes ELSE {cable} \cup IF MdioTimeouts THEN {"10F"} ELSE {}
    /\ phyustate' = 2
    /\ AfterPoll(physts)
    /\ UNCHANGED <<phyVars, sts, physts, olddphysts, prtIp, hldsntp, mac, mbox, netVars, sntpVars>>

\* Third call: smsc_update_phy_sts.
Differs_ModeOnly == temp # olddphysts.mode
Differs == sts # olddphysts.link \/ temp # olddphysts.mode
PollUpdate ==
    /\ monPc = "poll" /\ phyustate = 2
    /\ physts' = [link |-> sts, mode |-> temp, changed |-> physts.changed \/ Differs]
    /\ olddphysts' = IF Differs THEN [link |-> sts, mode |-> temp] ELSE olddphysts
    /\ phyustate' = 0
    /\ AfterPoll(physts')
    /\ UNCHANGED <<phyVars, sts, temp, prtIp, hldsntp, mac, mbox, netVars, sntpVars>>

\* tcpip_callback_with_block: wait for room in the mailbox of the thread.  When
\* there is no memory for the message it returns ERR_MEM, which nobody reads.
Post_Trypost(c) == mbox' = IF Len(mbox) < MboxSize THEN Append(mbox, c) ELSE mbox
Post(c) == \/ Len(mbox) < MboxSize /\ mbox' = Append(mbox, c)
           \/ NoMemory /\ UNCHANGED mbox

\* The link is up, maybe with another mode: set the MAC and tell the stack.
LinkGoesUp ==
    /\ monPc = "changed" /\ physts.link
    /\ prtIp' = FALSE
    /\ mac' = physts.mode
    /\ Post("up")
    /\ monPc' = "ip"
    /\ UNCHANGED <<phyVars, pollVars, hldsntp, netVars, sntpVars>>

\* The link is down: tell the stack.
LinkGoesDown ==
    /\ monPc = "changed" /\ ~physts.link
    /\ Post("down")
    /\ monPc' = "kill"
    /\ UNCHANGED <<phyVars, pollVars, prtIp, hldsntp, mac, netVars, sntpVars>>

\* ... and delete the SNTP task, wherever it is.  The static handle of sntp.c
\* is not told.
KillSntp_KeepHandle ==
    /\ monPc = "kill"
    /\ hldsntp' = hldsntp
    /\ IF hldsntp
       THEN /\ tasks' = IF tasks = 0 THEN 2 ELSE tasks - 1
            /\ sntpPc' = "none" /\ sntphandle' = "deleted"
       ELSE UNCHANGED <<tasks, sntpPc, sntphandle>>
    /\ monPc' = "ip"
    /\ UNCHANGED <<phyVars, pollVars, prtIp, mac, mbox, netVars, alarm>>
KillSntp ==
    /\ monPc = "kill"
    /\ hldsntp' = FALSE
    /\ IF hldsntp
       THEN /\ tasks' = tasks - 1
            /\ sntpPc' = "none" /\ sntphandle' = "deleted"
       ELSE UNCHANGED <<tasks, sntpPc, sntphandle>>
    /\ monPc' = "ip"
    /\ UNCHANGED <<phyVars, pollVars, prtIp, mac, mbox, netVars, alarm>>

\* The first address since the link came up: start the SNTP task.
NewAddress ==
    /\ monPc = "ip" /\ ~prtIp /\ ip
    /\ prtIp' = TRUE
    /\ \/ /\ ~hldsntp
          /\ tasks' = tasks + 1
          /\ hldsntp' = TRUE /\ sntphandle' = "live" /\ sntpPc' = "new"
       \/ /\ ~hldsntp /\ NoMemory
          /\ sntphandle' = "NULL"
          /\ UNCHANGED <<tasks, hldsntp, sntpPc>>
       \/ hldsntp /\ UNCHANGED <<tasks, hldsntp, sntphandle, sntpPc>>
    /\ monPc' = "poll"
    /\ UNCHANGED <<phyVars, pollVars, mac, mbox, netVars, alarm>>

NoNewAddress ==
    /\ monPc = "ip" /\ (prtIp \/ ~ip)
    /\ monPc' = "poll"
    /\ UNCHANGED <<phyVars, pollVars, prtIp, hldsntp, mac, mbox, netVars, sntpVars>>

-------------------------------------------------------------------------------
(* The TCP/IP thread. *)

\* The next callback: netif_set_link_up or netif_set_link_down.  Both keep the
\* address; DHCP confirms it again when the link comes back.
TcpipCallback ==
    /\ mbox # <<>>
    /\ linkUp' = (Head(mbox) = "up")
    /\ mbox' = Tail(mbox)
    /\ UNCHANGED <<phyVars, pollVars, monVars, ip, ack, sntpVars>>

\* A DHCP answer arrives and waits in the mailbox, whatever the link does then.
DhcpAnswers ==
    /\ cable # NoCable /\ linkUp /\ ~ip /\ ~ack
    /\ ack' = TRUE
    /\ UNCHANGED <<phyVars, pollVars, monVars, mbox, linkUp, ip, sntpVars>>
DhcpBinds ==
    /\ ack
    /\ ip' = TRUE /\ ack' = FALSE
    /\ UNCHANGED <<phyVars, pollVars, monVars, mbox, linkUp, sntpVars>>
\* The server refuses the address, or the lease ends.
DhcpLoses ==
    /\ ip
    /\ ip' = FALSE
    /\ UNCHANGED <<phyVars, pollVars, monVars, mbox, linkUp, ack, sntpVars>>

-------------------------------------------------------------------------------
(* xSntpTask, and RTC_IRQHandler. *)

\* A step of the task, from one control point to another.
SntpGoes(from, to) ==
    /\ sntpPc = from
    /\ sntpPc' = to
    /\ UNCHANGED <<phyVars, pollVars, monVars, mbox, netVars, tasks, sntphandle>>

\* Ask for the time: netconn_new, netconn_connect or netconn_send may fail.
SntpAsk  == (SntpGoes("new", "receive") \/ SntpGoes("new", "failed")) /\ UNCHANGED alarm
\* An answer, or nothing useful within SNTP_RECV_TIMEOUT.
SntpReceive == (SntpGoes("receive", "synced") \/ SntpGoes("receive", "failed")) /\ UNCHANGED alarm
\* Either way the alarm is set ten seconds on.
SntpSetAlarm_OnSuccess ==
    \/ SntpGoes("synced", "suspend") /\ alarm' = TRUE
    \/ SntpGoes("failed", "suspend") /\ UNCHANGED alarm
SntpSetAlarm ==
    /\ SntpGoes("synced", "suspend") \/ SntpGoes("failed", "suspend")
    /\ alarm' = TRUE
\* vTaskSuspend: a resume that came before is lost.
SntpSuspend == SntpGoes("suspend", "suspended") /\ UNCHANGED alarm

\* The clock reaches the alarm time, once a day: xTaskResumeFromISR.
RTC_IRQHandler ==
    /\ alarm
    /\ sntpPc' = IF sntphandle = "live" /\ sntpPc = "suspended" THEN "new" ELSE sntpPc
    /\ UNCHANGED <<phyVars, pollVars, monVars, mbox, netVars, tasks, sntphandle, alarm>>

-------------------------------------------------------------------------------
Monitor == \/ PollLink \/ PollMode \/ PollUpdate \/ LinkGoesUp \/ LinkGoesDown \/ KillSntp
           \/ NewAddress \/ NoNewAddress
Sntp == SntpAsk \/ SntpReceive \/ SntpSetAlarm \/ SntpSuspend
Dhcp == DhcpAnswers \/ DhcpBinds \/ DhcpLoses

LinkNext ==
    \/ \E c \in Modes \cup {NoCable} : CableChanges(c)
    \/ Monitor \/ TcpipCallback \/ Dhcp \/ Sntp \/ RTC_IRQHandler

LinkSpec == LinkInit /\ [][LinkNext]_linkVars
FairLinkSpec ==
    /\ LinkSpec /\ WF_linkVars(Monitor) /\ WF_linkVars(TcpipCallback)
    /\ WF_linkVars(Sntp) /\ WF_linkVars(RTC_IRQHandler)

-------------------------------------------------------------------------------
(* Properties. *)

\* Every variable stays in its type.
LinkTypeOK ==
    /\ cable \in Modes \cup {NoCable} /\ latch \in BOOLEAN /\ changes \in 0 .. MaxChanges
    /\ phyustate \in 0 .. 2 /\ sts \in BOOLEAN /\ temp \in Modes
    /\ physts \in [link : BOOLEAN, mode : Modes, changed : BOOLEAN]
    /\ olddphysts \in [link : BOOLEAN, mode : Modes]
    /\ monPc \in {"poll", "changed", "kill", "ip"} /\ prtIp \in BOOLEAN /\ hldsntp \in BOOLEAN
    /\ mac \in Modes
    /\ mbox \in Seq({"up", "down"}) /\ Len(mbox) <= MboxSize
    /\ linkUp \in BOOLEAN /\ ip \in BOOLEAN /\ ack \in BOOLEAN
    /\ tasks \in 0 .. 1
    /\ sntpPc \in {"none", "new", "receive", "synced", "failed", "suspend", "suspended"}
    /\ sntphandle \in {"NULL", "live", "deleted"}
    /\ alarm \in BOOLEAN

\* However links, addresses and failures alternate, the monitor's handle stands
\* for exactly one SNTP task: none is started twice, lost or deleted twice.
OneSntpTask ==
    /\ tasks = IF hldsntp THEN 1 ELSE 0
    /\ hldsntp <=> sntpPc # "none"
    /\ hldsntp => sntphandle = "live"

\* What the stack will believe once it has drained its mailbox is the link
\* state the monitor reported last.
StackFollows ==
    monPc # "changed" =>
        olddphysts.link = IF mbox = <<>> THEN linkUp ELSE mbox[Len(mbox)] = "up"

\* When link and mode stay as they are, the stack's link flag and the MAC's
\* mode agree with the PHY at last, although link and mode are read in
\* different calls.
LinkSettles ==
    /\ \A m \in Modes : <>[](cable = m) => <>[](linkUp /\ mac = m)
    /\ <>[](cable = NoCable) => <>[]~linkUp

\* While link and address stay, the SNTP task keeps asking for the time: no
\* deletion is final, and an alarm that comes too early does not silence it.
SntpKeepsAsking ==
    <>[](cable # NoCable /\ ip) => []<>(sntpPc \in {"receive", "failed"})

\* "Resume task to update clock using SNTP": as long as the alarm is set, the
\* handle its interrupt resumes is that of a task that exists.
AlarmResumesTask == alarm => sntphandle = "live"

===============================================================================

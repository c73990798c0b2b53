# LPC17xx lwIP applications: formal models, checks and proofs

The firmware under `src/lwipserver` runs lwIP on FreeRTOS on an NXP LPC17xx:
an Ethernet driver with two service tasks and an interrupt handler, a task that
watches the link, lwIP's TCP/IP thread, its TCP and its DHCP client, and a few network clients
and servers (SNTP, syslog, FTP, a shell, SSDP). This directory holds TLA+ modules for
the parts of it that are hard to test, the TLC configurations that model-check
them, and proofs for TLAPS.

Contents: [1 The system](#1-the-system) · [2 The modules](#2-the-modules) ·
[3 Runs, bounds and fairness](#3-runs-bounds-and-fairness) ·
[4 Proofs](#4-proofs) · [5 What the runs disagree with](#5-what-the-runs-disagree-with) ·
[6 Not modelled](#6-not-modelled) · [7 Plan](#7-plan) · [8 How to run](#8-how-to-run)

Paths below are relative to `src/lwipserver/` unless they start with `src/`.

## 1 The system

### 1.1 Components

| component | code | state it keeps | operations | module |
|---|---|---|---|---|
| EMAC driver, transmit | `lwip/src/arch/freertos_lwip_mac.c` | the descriptor ring, `txb[]`, `lasttxidx`, two semaphores and a mutex | `lpc_low_level_output`, `lpc_tx_ready`, `lpc_tx_reclaim`, `vTransmitCleanupTask`, transmit bits of `ENET_IRQHandler` | `EmacTx` |
| EMAC driver, receive | same | the ring, `rxb[]`, `rxdescnextindex`, `rx_sem` | `vPacketReceiveTask`, `lpc_enetif_input`, `lpc_low_level_input`, `lpc_rx_queue`, receive bits of `ENET_IRQHandler` | `EmacRx` |
| Link monitor | `src/lwipserver.c` | `prt_ip`, `hldsntp`, the MAC's mode | the loop of `vEthernetTask` | `LinkMonitor` |
| PHY driver | `lwip/src/arch/phy_smsc87x0.c` | `physts`, `olddphysts`, `phyustate` | `lpcPHYStsPoll`, `smsc_update_phy_sts` | `LinkMonitor` |
| SNTP client | `lwip_apps/sntp/sntp.c` | `sntphandle`, the alarm of the clock, a netconn and two netbufs | the task, `RTC_IRQHandler` | `LinkMonitor` |
| Syslog client | `lwip_apps/syslog/syslog.c` | a list: `first`, `curwp`, `message` | `syslogSend`, `syslogTask` | `Syslog` |
| FTP client | `lwip_apps/ftpclient/ftpclient.c` | two netconns per call | `ftp_get`, `ftp_put` | `FtpClient` |
| tcpip thread | `lwip/src/api/tcpip.c`, `lwip/src/core/timers.c`, part of `lwip/src/api/api_msg.c` | the mailbox, the list of timers, `tcpip_tcp_timer_active` | `tcpip_thread`, `sys_timeouts_mbox_fetch`, `sys_timeout`, the netconn calls that wait | `TcpipThread` |
| sys_arch port | `lwip/src/arch/sys_arch.c` | FreeRTOS queues and semaphores | post, trypost, fetch, signal, wait | `TcpipThread` |
| FreeRTOS kernel | `freertos/queue.c`, `freertos/tasks.c`, `freertos/portable/GCC/ARM_CM3/port.c` | ready, delayed, suspended and pending lists, the event lists of the queues, the pending yield and PendSV, priorities, each queue's count and lock | send, receive, give, delay, suspend, resume, suspending the scheduler, tick, switch, the calls of interrupts | `Kernel` |
| DHCP client | `lwip/src/core/ipv4/dhcp.c` | `struct dhcp`: the state, the request's timer and tries, the lease's times | `dhcp_start`, `dhcp_recv`, the fine and the coarse timer, link up, ARP answers | `Dhcp` |
| TCP and netconn | `lwip/src/core/tcp.c`, `tcp_in.c`, `tcp_out.c`, `lwip/src/api/api_msg.c`, `api_lib.c` | `struct tcp_pcb`: state, windows, timers, the queues `unsent`, `unacked`, `ooseq`, `refused_data`; the netconn and its `recvmbox` | `tcp_input`, `tcp_output`, `tcp_write`, `tcp_close`, `tcp_recved`, both timers; connect, write, receive, delete | `Tcp`, `TcpPipe` |
| Shell | `lwip_apps/shell/shell.c` | a table of connections, the parsed line | about twenty commands | no |
| SSDP server | `lwip_apps/ssdp/ssdp.c` | `ssdpState`, who to answer | one task | no |
| UPnP page server | `lwip_apps/upnp` | none | one task, compiled out | no |
| Start-up, heartbeat | `src/lwipserver.c`, `src/cr_startup_*.c` | none | `main`, `blinkLed`, hooks | no |
| the rest of lwIP and FreeRTOS, peripheral library | vendored | | | only by their effect |

### 1.2 How they interact

* **Calls and messages.** An application task calls a `netconn_*` function,
  which posts a message to the mailbox of the tcpip thread and waits for the
  netconn's semaphore. The thread, the only one to run the TCP/IP core, answers
  at once or leaves the answer to a later packet or to a timer.
* **Driver.** The tcpip thread calls `lpc_low_level_output`, which fills
  descriptors; the EMAC sends them; the interrupt handler wakes
  `vTransmitCleanupTask`, which gives the pbufs back. In the other direction
  the EMAC fills descriptors, the handler wakes `vPacketReceiveTask`, and that
  posts packets to the mailbox without waiting (`tcpip_inpkt`).
* **Link.** `vEthernetTask` polls the PHY without a pause, posts link callbacks
  to the mailbox, reads the interface's address and creates and deletes the
  SNTP task. The alarm of the real-time clock resumes that task.
* **Kernel.** Every wait above is a receive or a send of `queue.c`; an interrupt
  handler posts to a semaphore while a task may be on its way into the
  semaphore's list, and asks for a switch with PendSV. lwIP's heap and the
  transmit ring have a mutex each, with priority inheritance.
* **DHCP.** `vEthernetTask` calls `dhcp_start` itself and then reads the
  interface's address; everything else of the client runs in the tcpip thread.
* **TCP.** All of TCP runs in the tcpip thread, called for a segment, a timer
  or an API message. `recv_tcp` puts what was received in the netconn's mailbox,
  which the application empties; `sent_tcp`, `poll_tcp` and `err_tcp` carry a
  waiting write or close on or end it.
* **Shared memory without a lock.** `syslogSend` and `syslogTask` share a list;
  the monitor reads the interface's flags and address, which the tcpip thread
  writes; the ring's indices are read outside the mutex.

### 1.3 What is hard, and what makes each part correct

| part | what is hard | what makes it correct |
|---|---|---|
| EMAC transmit | four actors on one ring, indices read before the lock, error reset while frames are queued, counts that are wrong when the indices wrap | the device never reads a freed pbuf; references are neither lost nor given back twice; a frame goes out whole; each frame queued is released; output returns |
| EMAC receive | memory for the copy may be missing; lengths that are left in the ring's pbufs; a wake-up for several frames; a reset after an overrun | the device never writes outside a pbuf or into one that is not the ring's; the ring never loses a pbuf; packets in order, none twice; a received frame is read |
| Link monitor | one reading made of three calls; callbacks that may not be posted; a task created and deleted as link and address come and go | one SNTP task at most and its handle valid; the stack's link flag follows the reports; both settle; the time is asked for again and again |
| Syslog | list appended to and emptied without a lock; resumes are not counted | messages in order, each once; only the task's own memory is freed; a message is linked only to one that is queued |
| FTP client | replies cut anywhere, split over segments or joined in one: client and server come out of step; no time-outs in the client | files move only in answer to this RETR or STOR; logged in when it thinks so; ERR_OK of a put that has sent its data means stored; a call returns |
| tcpip thread | a clock that counts only time waited; a list of differences; a timer that switches itself off and is switched on by others; a timer that finds no memory when it is set again; a semaphore used call after call | no timer early, none later than its promise; the TCP timer runs when needed; each signal belongs to the call that waits for it; calls return and timers go on |
| Kernel | interrupts post between the test of a queue and the wait, while the queue is locked and the scheduler suspended; a wait, its time-out and a post race; priorities change while tasks wait | no wake-up is lost; the highest ready task runs; the lists agree; inversion ends; a call with a time-out returns |
| TCP and netconn | segments lost, doubled, overtaken; both windows shut; a driver that fails or still holds a segment; a full mailbox; timers that race late answers; ends that close at the same time | the reader reads what was written, once and in order; the queues lose nothing; the timer runs when it must; a window is neither passed nor taken back; every transfer ends, whole or broken off |
| DHCP client | answers late, doubled, refused, to an earlier exchange; four timers; the request sent by one task and its timer set after another has had the answer; no memory | its timer does not stop while it waits, but for one kind of offer; what it binds it asked for; a lease is not outlived; it is bound in the end |

`PROJECT.json` lists each hazard at its line with the properties that watch it.

## 2 The modules

Each module's header says what it abstracts; this section says how its state
and its actions correspond to the code. `PROJECT.json` ("map") gives the lines
of every definition. A definition named `X_Something` next to `X` is `X` with a
plausible bug, kept to show that the properties notice it; the specifications
never use it.

### EmacTx: the transmit ring

Variables `produce`, `consume`, `desc`, `intStatus` and `stalled` are the
EMAC's registers, descriptors and a stop after an underrun; `txb`, `lasttxidx`,
`xtxCount`, `cleanSem` and `mutex` are `lpc_enetdata_t`; `outPc` with `outP`,
`outDn`, `outIdx` is the point `lpc_low_level_output` has reached, its pbuf, the
descriptors left (`dn`) and its `idx`; `cleanPc` the same for
`vTransmitCleanupTask`; `ref` and `stackHolds` count references of pbufs.

| action | code |
|---|---|
| `Output`, `TestReady`, `WaitDescriptor`, `ReadIndex`, `LockRing`, `WriteFrag` | `lpc_low_level_output` from the test of `lpc_tx_ready` to the unlock, one action for each place where another actor can get in between; a turn of the descriptor loop is one |
| `CleanWake`, `CleanStatus`, `ResetTx`, `ReclaimLock`, `ReclaimOne`, `ReclaimDone` | `vTransmitCleanupTask`, its error reset and `lpc_tx_reclaim` |
| `HwSend`, `HwUnderrun`, `ENET_IRQHandler` | the device and its interrupt |
| `StackAlloc`, `StackFree` | the stack above, external |

The build is zero-copy (`LPC_TX_PBUF_BOUNCE_EN` is 0): descriptors point into
the stack's own pbufs. The history variable `spoiled` becomes true when a
descriptor is written at a place that is not `TxProduceIndex`, or when writing
it makes the next index meet `lasttxidx`, which is the overfill of section 5.
It never becomes false again. Properties about what the device
sends are stated for a ring that has not been spoiled, and TLC stops at a ring
that is (`RingUnspoiled`); those about references (`TxbUnique`, `RefsCovered`)
hold whatever happens, which the proofs show.

Of the device both driver modules assume one thing that no line of the driver says: setting
`RES_TX` or `RES_RX` in `MAC1` zeroes the indices (both of the transmitter, the produce index
of the receiver) and lets a stalled half go on, although the bit is not cleared
again. The driver assumes it too, as it starts again from descriptor 0.

The system may stop (deadlock is not checked): after an underrun a transmitter
whose error bits the interrupt handler has already cleared stays stalled, with
the output blocked.

### EmacRx: the receive ring

`produce`, `consume`, `packet`, `size`, `info`, `split` and `stalled` are the
device's; `rxb`, `rxSem`, `pc` and `hand` the driver's; `owner`, `room` and
`len` the memory: who has a pbuf, what it was allocated for, and what its
length field says. `HwReceive`, `HwContinue`, `HwNoDescriptor` and `HwOverrun`
are the device; `RxWake`, `RxTest`, `Input...` and `Deliver` are
`vPacketReceiveTask` with `lpc_enetif_input` and `lpc_low_level_input` (error
reset, bad frame, copy, no memory for the copy, no memory for the source);
`InputNoSource` is the branch that reads through a null pointer after a failed
allocation in an earlier requeue (`pc = "fault"`, where behaviour is undefined
and the model stops). `starved` records that an allocation failed; what the
device may write is promised until then. Left out: the counter `rxdescfree`,
which bounds a loop only right after `lpc_rx_setup` has given it its value, and
the four bytes of checksum. The device is external: how it fills and splits
frames is modelled from the descriptors, flags and registers the driver uses.

### LinkMonitor: link, address, SNTP task

`PollLink`, `PollMode`, `PollUpdate` are the three calls of `lpcPHYStsPoll` that
make one reading; `LinkGoesUp` and `LinkGoesDown` the two branches of `vEthernetTask`,
with the callback each posts; `KillSntp`, `NewAddress`, `NoNewAddress` the rest
of the loop; `TcpipCallback` the thread's half; `Dhcp...` the answers that lead
to an address; `Sntp...` the statements of the SNTP task that matter to its
life; `RTC_IRQHandler` the alarm. The delay of 250 ms between readings and the
output on the UART change no state and are left out; the change of the MAC's
mode and of `prt_ip` is merged with the post that follows, as nobody else reads
either. The mailbox holds only link callbacks. The link bit of BMSR latches low.
A mode is a speed and a duplex setting.

### Syslog: the list without a lock

One action per access to a shared variable: `first`, `curwp`, `message`, the
`_next` field of a message. The build optimises for size (`-Os`) and the variables are
not `volatile`, so that a value read stays in a register until the next
function call. A block is memory for a message; when it is freed another task may
take it (`OtherUsers`). `"fault"` is where undefined behaviour begins; the
system stops there, hence no deadlock check.

### FtpClient: the dialogue

`pc` names the command at hand, `sent` whether its reply is awaited. `cin` is
the receive mailbox of the control connection: one entry per pbuf, each the
replies (or parts of one) that it holds. `Serve` is the server answering its
next command with any reply code the protocol has for it, spread over more
segments or not. TCP may cut a reply anywhere: what comes behind begins with
the same code, a blank, a letter, or a digit in mid-line (`Torn`), and the client takes the first
character of a pbuf for that of a reply. The digits 1, 2 and 3 can pass for the
server's consent; the history variable `misled` remembers that one of them was
taken for it in this session (`Consent` says at which command which digit is).
`Coalesce` is TCP joining two pbufs; `ServeSegment`,
`ServeDone`, `ServeFail` move the file; `Drop` ends the session. A call takes
netconns from a pool that others use too and, as in the code, never gives them
back.

### TcpipThread, TimerQueue: the loop, the timers, the calls that wait

`list` is `next_timeout`, the list of differences; `waited` the ticks since
`sys_arch_mbox_fetch` read its start time; `age`, a history field, the ticks
since a timer was set. `Fetch`, `Receive`, `TimedOut`, `Count` are
`sys_timeouts_mbox_fetch` with `sys_arch_mbox_fetch`; `Handle` is one turn of
`tcpip_thread`'s switch; `RunTimer` a timer's handler, which sets itself again.
`Begin`, `Post`, `Return` are a caller of a netconn function: post, wait for
the semaphore. TCP is reduced to what the timer's bookkeeping and the callers
see of it: a control block per caller in one of the states `none`, `open`,
`syn`, `write`, `zero` (window shut), `fin`, and a number of control blocks
without a caller. `TimerQueue` is the abstract specification: for each timer
what remains until it is due; `Remains` sums the differences, and `KeepsTime`
says that the list implements it. `SetTimer` is `sys_timeout` with the path on which
`memp_malloc` fails: it returns without a timer, and as the assertion there is compiled out and
nothing is returned, nobody knows. `MayFail` are the timers for which that may happen, each
time they are set, and the history variable `lost` those for which it has.

### Kernel: the blocking calls under interrupts

`current`, `suspended`, `yieldPending`, `pendSV`, `pendedTicks` are the
scheduler's variables and the state of the PendSV interrupt; `place` and `evt`
say in which list a task's two list items are; `prio` and `held` are the fields
of its control block for inheritance; `timer` stands for its wake time or its
`TimeOut_t`; `count`, `holder`, `txLock` are a queue's fields; `pc` and `call`
where a task is in which call. One action is one critical section, or one
stretch that runs with the scheduler suspended, so that an interrupt can come
between any two of them:

| action | code |
|---|---|
| `Receive`, `Send`, `GiveMutex`, `Delay`, `Suspend`, `Resume` | a task makes a call |
| `TakeItem`, `PutItem`, `FindNothing` | the critical section at the top of `xQueueGenericReceive` and `xQueueGenericSend`: the call succeeds, fails, or is going to block |
| `SuspendAll`, `LockQueue`, `CheckForTimeOut`, `TestAgain`, `InheritPriority`, `PlaceOnEventList`, `UnlockQueue`, `ResumeAll`, `Yield` | the way into a queue's list and out of the call, or back to its top |
| `LeaveReadyList` | `vTaskSuspend` of the running task |
| `SwitchContext`, `Tick`, `SendFromISR`, `ResumeFromISR` | the PendSV handler, the tick's handler, and what the other handlers call |

`late` is a history variable: the tasks that the clock's alarm resumed since the last
switch. Its handler (`lwip_apps/sntp/sntp.c`) does not look at the result of
`xTaskResumeFromISR` and so asks for no switch; a task resumed there waits for
the next tick or switch, whatever its priority, and `RunsHighest` excepts it. As in
this firmware, a task that holds a mutex does not block (`sys_mutex_lock`
protects the heap and the transmit ring, and the code in between waits for
nothing), and no interrupt receives.

### Dhcp: from the first DISCOVER to the end of the lease

`c` is `struct dhcp` with the interface's address; the functions of `dhcp.c`
are operators from the client before a call to the client after it, composed as
the code composes them. `StartSend` and `StartEnd` are `dhcp_start` in
`vEthernetTask`: the message is sent in one and the timer set in the other,
and the tcpip thread may take the answer in between. `RecvReply`, `FineTmr`,
`Pass` (with the coarse timer every second time), `LinkUp` and `ArpReply` are
the tcpip thread; `Answer`, `Refuse` and `OfferNameless` the servers, external; `UnderWay` the
network, which loses, repeats, delays and reorders. `lease`, `age`, `asked` and `nameless` are
history: how long the lease is, how long the address has been on the interface,
what was asked for in this exchange, and that the client sits in SELECTING because
it took an offer without server identifier: `dhcp_recv` clears its timer
(`dhcp.c:1736`), and `dhcp_handle_offer` then does nothing (`dhcp.c:322`).

A transaction identifier is taken as never returning (it is random, of 32 bits).
The thread may run in more places of `dhcp_start` than between `StartSend` and `StartEnd`:
`netif->dhcp` is set (726) before the structure is cleared (741), and again while the message
is built. `StartSend` takes all of that as one step. Leases are finite and their times do not
overflow (`lease * 7` does in 32 bits above some 19 years). The assertions are
compiled out.

### Tcp, TcpPipe: a connection and the pipe it promises

`host` is, for each of two ends that both run this stack, one record: the fields
of its `tcp_pcb`, its netconn and where its application is; `net` the segments
on their way to each end; `troubles` what has gone wrong so far. The client
connects, writes everything in one `netconn_write` and deletes the netconn; the
server reads to the end of the stream, writes what it has and deletes its side,
as FTP's data connections do. A function of `tcp_in.c`, `tcp_out.c` and `tcp.c` is an
operator from the host before the call to the host after it, and calls others where
the code does; fields that only last for one handler (`recv_data`, `recv_flags`,
`tcp_input_pcb`) are in the record too (`Handler`). A loop of the code is a function on
the number of its turns (`SendUnsent` with a turn `SendNext`, `Dequeue` with `DequeueNext`,
`Drain`), or the length of the part of a queue that it walks (`Run`). Each action names
the operator of its handler (`Opening`, `Writing`, `PollSends`, ...), and `Result` says
what becomes of the host and the network. `overtaken` is history: the ends of which a
segment to be sent again has waited behind later ones (section 5). `SizeAssumption` has
`TCP_WND >= 2 * TCP_MSS`, which `init.c:135` demands, and that a window fits 16 bits.

| action | code |
|---|---|
| `Connect`, `WriteCall`, `CloseCall` | `netconn_connect`, `netconn_write`, `netconn_delete` with their functions in `api_msg.c`; one that has to wait leaves `app` at `"write"` or `"close"` |
| `Fetch`, `TakeCall`, `ShutCall` | `netconn_recv`: the entry of `recvmbox`, the message that tells TCP, the shutdown at the end of the stream; the thread may run between them |
| `Deliver` | `tcp_input`: the listener, TIME_WAIT, or `tcp_process` with `tcp_receive`, and all that follows |
| `FastTmr` | `tcp_fasttmr`: delayed acknowledgement, refused data |
| `Poll`, `PollExpires`, `Rto`, `Persist`, `GiveUp`, `DropOoseq`, the time-outs of a state | the parts of `tcp_slowtmr`, which come due at different times |
| `Release` | the driver is done with a buffer (`pbuf_free` in `EmacTx`'s cleanup) |
| `Lose`, `Duplicate`, `Reorder` | the network, external |

Data is counted in units, a full segment has `Mss` of them, and a unit is its own
position in the stream, so that a misplaced one shows. Sequence numbers do not
wrap, `rcv_wnd` has its 16 bits. The congestion window is 1, a segment, or the
send buffer: it only matters whether the queue may go on. The assertions are
compiled out (`LWIP_NOASSERT`, `arch/lwipopts.h:76`), and where one would fail the
model goes on as the code does; a null pointer leads to the state `FAULT`, where it stops.
`err_tcp` at a reader that waits counts as a failure of its call, and the listener of a
server that has ended as closed.

`TcpPipe` is the abstract specification: what is read is a prefix of what was
written, and the end of the stream comes when all of it was read. `PipeSpec` is
that `Tcp` implements it, with `written`, `got` and the rest taken from the two hosts,
as long as the client is not `overtaken`.

### Composition

The modules meet at the tcpip thread's mailbox, the `linkoutput` call, the
interface's address, and the kernel's calls. They are checked separately: `EmacTx` assumes any order of
allocations, frees and output calls the stack could make, `TcpipThread` any
order of packets and calls, `LinkMonitor` any change of the cable and any DHCP
outcome, `Kernel` any calls its tasks may make, and `Tcp` any order of calls,
segments and timers, and a driver that may fail or hold what it was given, as `EmacTx` does. The waits of the other
modules are atomic (wait until there is an item, and take it), which is what
`NoLostWakeup` of `Kernel` is about. What one module leaves to chance includes what the other does.

## 3 Runs, bounds and fairness

| run | cfg | expect | question |
|---|---|---|---|
| `tx_ring` | `EmacTxRing.cfg` | pass | references, DMA and progress with errors and resets |
| `tx_overrun` | `EmacTxOverrun.cfg` | violation | does the wait for descriptors keep the ring from overfilling |
| `rx_ring` | `EmacRxRing.cfg` | pass | memory, order and progress of reception |
| `rx_split` | `EmacRxSplit.cfg` | violation | are only whole packets passed up |
| `link_live` | `LinkLive.cfg` | pass | one SNTP task, the stack follows, everything settles |
| `link_alarm` | `LinkAlarm.cfg` | violation | does the alarm resume a task that exists |
| `syslog_one` | `SyslogOne.cfg` | pass | one sender: order, once each, own memory only |
| `ftp_dialogue` | `FtpClient.cfg` | pass | in step, logged in, stored, and every call returns |
| `tcpip_thread` | `TcpipThread.cfg` | pass | timers keep time, signals match, calls return |
| `kernel` | `Kernel.cfg` | pass | no wake-up lost, the highest task runs, inversion ends, time-outs return |
| `dhcp` | `Dhcp.cfg` | pass | the timer runs, leases are kept, what is bound was asked for, bound in the end |
| `tcp` | `Tcp.cfg` | pass | two troubles: nothing lost from the queues, no window passed, the pipe is implemented; with one, every transfer ends |

**What the properties say.**

* EmacTx. `TxbUnique`, `RefsCovered`: no pbuf in two slots, each reference
  counted, whatever resets and overfills happen. `NoLeak`: none lost.
  `DmaSafe`: what the device may still read is allocated, although only the
  last descriptor of a chain keeps the reference. `FramesWhole`: a
  frame's fragments follow each other. `FramesReleased`, `OutputReturns`:
  progress, as long as the device has reported no error.
* EmacRx. `DmaInBounds`: a descriptor's size fits the room of its pbuf, and the
  pbuf is the ring's. `RingKeepsPbufs`: ring, hand and heap share the
  memory without overlap. `InOrder`: packets go up in the order they came in,
  none twice. `EventuallyRead`: a filled descriptor is read.
* LinkMonitor. `OneSntpTask`, `StackFollows`, `LinkSettles`, `SntpKeepsAsking`.
* Syslog. `SentInOrder`, `FreesItsOwn`: with one sender the list without a lock
  still sends in order, and frees nothing that is another's, up to undefined
  behaviour.
* FtpClient. `InStep` (with `LoggedIn` in it), `OkMeansStored`: how far the tests on the way
  catch a client that has fallen behind the server. Both hold in a session in which the client was
  not `misled`; without that exception TLC finds them violated. `OkMeansStored` speaks of
  a put that has sent its data (`srv.eof`); what comes before is in section 5. `CallReturns`
  has no exception.
* TcpipThread. `TcpTimerOn`: flag, timer and control blocks agree; when memory for the timer was
  missing, the flag is up for ever and there is none. `SignalsMatch`, `NeverEarly`, `KeepsTime`:
  whatever is lost. `CallsReturn`: every call, but for a write to a shut window and, once the
  TCP timer is lost, a call whose answer comes later, which only the peer can then end.
  `TimersGoOn`: every cyclic timer goes off again and again unless it was lost.
* Kernel. `NoLostWakeup`: while tasks are blocked in a receive, each item of the
  queue is covered by a task that is about to look again or by a post that the
  locked queue remembers, and the same for room and senders. `RunsHighest`:
  when no switch is due the highest ready task runs. `ListsAgree`: the
  two list items of a task are in lists that go together. `MutexInherits`: a holder has
  the priority of everyone who waits, and its own again afterwards.
  `NoInversion`: a task of the highest priority gets the mutex it waits for.
  `TimedReturns`: its calls with a time-out return.
* Dhcp. `TimerRuns`: a client that waits for an answer has its timer running,
  whatever came between the request and the timer; the one exception is the client that
  an offer without server identifier has left in SELECTING. `InLease`: a client that
  says it has a lease (BOUND, RENEWING, REBINDING) is within it; it says nothing of the
  address that stays on the interface after `dhcp_release` has returned early (section 5).
  `AsksFirst`: an address is bound only if
  it was asked for in the same exchange. `GetsBound`: started, it is bound again and
  again, unless from some time on it sits there for such an offer; without this
  TLC finds it violated.
* Tcp. `QueuesCover`: what is not acknowledged is on `unsent` or `unacked`,
  in order and without a gap, whichever retransmission moved it, at an end that is not
  `overtaken`. `WithinWindow`:
  nobody sends past what the receiver has announced, however late or out of order the
  announcements come. `PipeSpec`: the refinement. `AlwaysEnds`: with one trouble at
  most a transfer ends; it arrives and both pcbs are freed, or an end has broken the
  connection off or given up, or the end of the stream was lost in the way section 5 tells.

The type invariants (`TypeOK`) of the modules with proofs are proved, and no run
is spent on them.

**Bounds.**

* EmacTx: a ring of 3 descriptors, chains of 1 and 2 pbufs. Every wrap of
  `produce`, `consume` and `lasttxidx` relative to each other occurs with 3, a chain fits
  with room and without; two pbufs (three for the overfill) are as many frames
  as the ring can hold apart from it. Nothing else is bounded: references and
  indices are finite by themselves. The proofs hold for any size.
* EmacRx: a ring of 3, one pbuf beyond it, frames of lengths 1 and 2, 4 frames
  (5 frames, a ring of 2 for the split). With more frames than descriptors each
  descriptor is used again; memory runs out with one spare pbuf.
* LinkMonitor: three modes (so that mode and link can change independently),
  two changes of cable or partner, a mailbox of 2. Each of the three calls of a
  reading can see a different state of the PHY. Modes are not symmetric: the
  code has its own default.
* Syslog: one sender, two blocks, 4 messages, other users
  of the memory.
* FtpClient: two calls in a row, a pool of 3 netconns (the second call may find
  none), two segments in a session beyond one per reply, which are enough for a client to be one
  place behind and then misled, or two places behind; files of 3
  segments through a window of 2, so that a file may or may not fit.
* TcpipThread: one caller, a mailbox of 2, two periodic timers with periods 2
  and 1 and the TCP timer with 1 (equal and different due times), two tries, one
  control block without a caller. Memory may fail for one of the two cyclic timers and for the TCP
  timer, at any time; for the other it does not, so that something always drives the list.
* Kernel: three tasks of different priorities above the idle task, so that a
  middle one can keep the processor from the holder of a mutex; one queue of
  length 1 that an interrupt posts to, where full and empty are one step apart;
  one mutex, waited for without a time-out (`MutexWaits`; `WaitAssumption`
  makes this an assumption of the proofs too), as `sys_mutex_lock` waits; the middle task is the one that suspends itself. Nothing else
  is bounded. `tcpip_thread` and the receive and cleanup tasks have three
  different priorities after `configMAX_PRIORITIES` has clamped them.
* Dhcp: two interchangeable addresses, leases of 150 seconds (T1, T2 and the end
  fall on different turns of the coarse timer, with rounding), one repetition
  of a REQUEST and two of the reboot instead of five and two, two replies under way, and one trouble: a refusal, a conflict, a change of the
  link, a failed allocation or an offer without server identifier. A second trouble, such as the change of the
  link that gets a client going again after such an offer, fits with one reply
  under way (62,000 states, no error), and with two takes longer than a run should (459,000). The proofs hold
  for any of these.
* Tcp: segments of 2 units, a send buffer of 2 segments, 6 units from the client and 1 back, a
  receive window of 5 units and a mailbox of one entry: the write waits for the
  buffer, the window shuts, probes are sent, the mailbox refuses. `MaxTroubles`
  counts what goes wrong: a segment lost, doubled or overtaken, not sent or held by
  the driver, a time-out while something is under way, a server that closes
  early; any two of them, anywhere. One retransmission (`MaxRtx`), so that a pcb is
  given up after two troubles. Few enough segments are under way
  that `NetBound` (12) is not what limits them; `RtxBound` ends a count
  that the code lets run on (section 5).

**Fairness.**

* EmacTx, `FairSpec`: weak fairness of the output's steps, the cleanup task,
  the interrupt and the device sending. The scheduler is preemptive and nothing
  of higher priority runs for ever; the properties end at a device error, as an
  underrun can stop the transmitter for good.
* EmacRx: weak fairness of the task and of the interrupt.
* LinkMonitor: weak fairness of the monitor, the callback's execution, the SNTP
  task and the alarm, which comes again every day. MDIO time-outs and failing
  allocations are switched off for progress (a time-out reads as a
  link, a lost callback is never repeated); the proof of `OneSntpTask` has
  them. The antecedents say that the cable stays as it is; nothing is
  assumed of DHCP.
* FtpClient: the client's task runs, the server answers what it can, gives up a
  transfer that does not move and closes an idle session. The client has no
  time-out of its own and relies on the last two.
* TcpipThread: weak fairness of the thread (it has the highest priority of its
  kind) and of a caller's return; strong fairness of `Post`, because the kernel
  wakes a waiting sender when there is room; and strong fairness of a tick
  *while the thread waits*. The last one says that the thread is not saturated
  with messages: it counts only the time it has waited, so that its clock
  stands still while it is never idle at a tick. `TimersGoOn` and `CallsReturn`
  hold only under that proviso.
* Kernel: strong fairness of the kernel's own steps, because interrupts come in
  between but not for ever; weak fairness of the pending switch; strong fairness of
  giving a mutex back, as critical sections are short; and time passes for the
  timers of the highest task at ticks outside a suspended scheduler. Nothing is assumed of
  the middle task: it may keep the processor for ever.
* Tcp: weak fairness of each host's application and of its tcpip thread, for
  steps that cost no trouble: segments are delivered, buffers released, timers
  go off when nothing else is under way. It is written with the guards
  (`MayCall`, `MayRun`), which are when these steps are enabled, because TLC would
  evaluate every handler to find that out.
* Dhcp: `vEthernetTask` ends `dhcp_start`, the timers go off (none of the two is lost in the way
  `TcpipThread` shows), and of the messages
  that are sent again and again some arrive, in either direction.

## 4 Proofs

All proofs are checked by tlapm to the last leaf, for every value of the
constants that satisfies the named assumptions (`NumTxFragAssumption`,
`FirstPbufsAssumption`, ...), each of which TLC also evaluates. They use no
assumption beside these, but for `Syslog`, whose theorems say that there is one
sender. With two, the static `message` is shared and one sender can write to `first`
what the other has left there, NULL included, while the task is about to read
through it; TLC finds such a behaviour within 18 steps.

| module | theorem | argument |
|---|---|---|
| `EmacTxProofs` | `TxTypes`, `RefSafety`, `SlotSafety`: `TypeOK`, `RefsCovered`, `TxbUnique` always | `RefInv` adds that the mutex is held exactly in the critical sections (`MutexInv`) and that a pbuf being output is in no slot yet and nobody but the stack has a reference before `pbuf_ref` (`OutInv`). Without the last, the turn that stores it could make a second slot of the same pbuf. |
| | `DmaSafety`: `[]DmaSafe` | `RingInv`, inductive relative to `RefInv` while the ring is unspoiled: the indices stay in the order reclaimed, sent, produced (`RingOrder`), slots outside that span are empty, and each descriptor of a chain finds the reference at the chain's end or in the output call. Four lemmas on cyclic intervals (`SpanGrows`, `SpanShrinks`, `SpanNested`, `SpanFront`) carry the arithmetic. |
| | `NoLeakage`: `[]NoLeak` | relative to both invariants |
| | `WholeFrames`: `[]FramesWhole` | inductive relative to both: `RingOrder` keeps the slot after a pending one from being the front, and that the output call writes at the produce index is what the unspoiled ring says |
| `EmacRxProofs` | `RxTypes`, `RxMemorySafety`, `RxOwnership`: `TypeOK`, `DmaInBounds`, `RingKeepsPbufs` always | `LengthInv`: while no allocation has failed, no length stored in a ring pbuf exceeds its room, because the frame came through a descriptor that small. This is what makes a requeue by `p->len` safe although the field is stale. |
| | `RxOrder`: `[]InOrder` | `OrderInv`: the task's hand, each descriptor from consume to produce, and the rest of a frame still being received are in order *pairwise*. The order of neighbours alone is not inductive: when the task takes a descriptor in hand, it must come before all that are left. |
| `InterfaceProofs` | `OneTask`: `LinkTypeOK`, `OneSntpTask` always, with failing allocations and time-outs | `LinkInv` adds `ChangeInv`: a status is marked as changed only until the next call, and then it is the one that was reported |
| | `LinkFollowed`: `StackFollows` always, unless memory runs out | the same invariant; `LastOfTail` on the last element of the mailbox |
| | `TypeCorrect`, `TimerTheorem`, of the DHCP client on the same interface: `[]TypeOK`, `[]TimerRuns` | `DhcpInv`, with one lemma per function of `dhcp.c` that says which state it leaves and that the timer is set; `nameless` is raised by one handler only, and goes with the next thing that sets the timer or leaves SELECTING |
| | `LeaseTheorem`: `[]InLease` | `Leased`: while the lease's timer runs, `t0` is the lease in periods of the coarse timer, `used < t0`, and the address has been there for at most `2 * used` half minutes, or one more; a client that says it has a lease has that timer running |
| | `AsksTheorem`: `Spec => AsksFirst` | `AskedInv`: an acknowledgement under the current identifier, and an address being verified, was asked for |
| `TcpipThreadProofs` | `SignalsMatchTheorem`: `[]SignalsMatch` | `CallInv`: a call that waits is in exactly one place, a message in the mailbox, the message at hand, a control block with its answer pending, or the semaphore. `SignalsMatch` alone says nothing of calls not answered yet, hence is not inductive. |
| | `TypeOKTheorem`, `TcpTimerOnTheorem`: `[]TypeOK`, `[]TcpTimerOn` | `TimerInv`: no timer is in the list twice, nor in it while it goes off (`Firing`), the TCP timer's flag agrees with the list, or the timer is lost and the flag up (`Flag`), and each timer is at least as old as its period, less what remains of it, plus what the thread has waited and not yet taken off the list (`Aged`). |
| | `NeverEarlyTheorem`: `Spec => NeverEarly` | `Aged` at the moment a timer goes off: nothing remains that the thread has not waited for |
| | `KeepsTimeTheorem`: `Spec => KeepsTime` | every step does one of five things to the list (`Changed`): nothing, set a timer, let the first go off, take a wait off it, grow older; each is a step of `TimerQueue` or none; a timer that finds no memory changes nothing. One lemma for each says what it does to the sums of differences (`SetIt`, `PopIt`, `CountIt`, `OlderIt`, and `InitIt` for the start). The sums are recursive functions; `Induction` over the length of the list and `Recursion` (that such functions exist) come from the well-foundedness of the natural numbers. |
| `KernelProofs` | `ListsTheorem`: `[]ListsAgree` | `ListInv` adds `Control` (where a task may be in its call while it is in which list, and that the scheduler is suspended exactly in the stretch from `vTaskSuspendAll` to `xTaskResumeAll`), `Locks` (a queue is locked exactly by the running task's call) and `Owns` (mutexes, their holders and counts). |
| | `WakeupTheorem`: `[]NoLostWakeup` | `KernelInv` adds `Certain`: from the second test of the queue to the place in its list, what has come meanwhile has been counted by the lock. Without it a task could enter the list of a queue that has items nobody answers for. Each step moves tasks between waiting and retrying; lemmas on cardinalities (`CardOneMore`, `CardOneLess`, `CardManyMore`) compare them with the items. |
| | `HighestTheorem`: `[]RunsHighest` | `PriorityInv`, inductive relative to `KernelInv`: `Highest` is the property without its control part, `Alarms` says that a task an alarm has resumed is in no call of a queue. |
| | `InheritTheorem`: `[]MutexInherits` | In the same invariant, `Pays` counts the task that is about to enter the list among those who wait (`Wanting`), or inheriting and waiting would be one step. `Lent` says what a raised priority is owed to, `Own` that it ends with the last mutex. Between a give and a take the mutex is free although tasks wait for it: `Free` says that one of them, whom the rest do not outrank, is ready and going to look again. Whoever takes the mutex first is running, and by `Highest` not outranked by that task either: this is where inheritance rests on the scheduler. The other way round, `Highest` survives a give only because of `Lent`: if the priority drops, the head of the list is high enough for the switch to be asked for. |
| `ApplicationProofs` | `SentInOrderTheorem`, `FreesItsOwnTheorem`: `[]SentInOrder`, `[]FreesItsOwn`, with one sender | The list as a whole is not kept: `curwp` may name a freed block, or one allocated again, and a message appended there is lost. `SyslogInv` therefore says nothing of the tail and is local: `_next` of a message leads to a *later* one or nowhere (`Later`), to each by one way (`OneWay`), and nothing leads to the head but what the task is about to free (`Front`). `Exempt` names the only two messages without a good `_next`, one of them linked to itself for a statement. The message in the sender's hand is later than all others (`Latest`), so that wherever it is linked, order holds; `Holds` carries what the task has read across the sender's steps. |
| | `InStepTheorem`, `OkMeansStoredTheorem`: `[]InStep`, `[]OkMeansStored` | `IInv`: types, and a client that was misled or is `Sound`. Once misled it promises nothing, so that each action has two lemmas, one for types and one for `Sound`; taking a pbuf keeps `Sound` if no digit in mid-line in it is one the test at hand looks for (`Honest`). A sound client may lag behind the dialogue, never run ahead. `Fifo`: waiting replies and commands are in the order of the dialogue (`Rank`), none beyond what the client has sent (`Limit`). `Login` and `File` say of each reply that still waits what it implies about the server, so that a test passed by a late reply is passed rightly. The two properties alone are not inductive, as they say nothing of replies not read yet. Lemmas say what writing, answering, taking a pbuf and joining pbufs do to the order. |
| `TcpProofs` | `TypeCorrect`, `NetconnOpen`: the types; a netconn that may be used has a pcb that is ESTABLISHED or CLOSE_WAIT | one lemma for each function of the stack. The second is needed because a write or a close in any other state would queue data behind a SYN or a FIN. |
| | `QueuesCovered`: `[]QueuesCover` | `QueueInv`: an end that was never overtaken is `Ordered` between two handlers. `QueuesCover` is not inductive: it says nothing of the point between the two queues, of `snd_nxt` (the acknowledgement of anything beyond it is ignored, hence it may not fall short of what is on `unacked`), or of where the FIN is. Within a handler order may be broken: after a fast retransmission the host is `Ahead`, a longer segment may have taken the FIN, and `tcp_output` puts it right (`SendNext` turn by turn) or leaves `Overtaken`. `Line` is the form in which a queue is taken apart: a sequence of segments, each starting where the one before it ends. |
| `TcpPipeProofs` | `PipeImplemented`: `Spec => PipeSpec` | `PipeInv`: `QueueInv` and, until the client is overtaken, `PipeHolds`. A unit of the stream is its position, so that a segment has the right data if it starts at its own number (`Good`). `Writer`: the client queues and sends nothing but `Good` segments of what is written, whatever order its queues are in; `QueueInv` is needed where the next unit gets its number. What is under way is of the same kind. `Reader`: what the server has received is one run of units, those read, the entries of `recvmbox`, the refused data and what a handler has in hand, up to `rcv_nxt` (`Flow`); what it takes in is a part of a `Good` segment cut off at `rcv_nxt`, so that the run goes on, and the end comes only behind the last unit of a client that has closed. One lemma for each function of the stack says what it does to what is sent (`Ships`), to the client (`Keeps`, `Level`) and to the server (`Served`); then each action is a step of `TcpPipe` or none. |

**Only model-checked.** Liveness under fairness, for which the prover has no
rules: `FramesReleased`, `OutputReturns`, `EventuallyRead`, `LinkSettles`,
`SntpKeepsAsking`, `CallReturns`, `CallsReturn`, `TimersGoOn`, `NoInversion`,
`TimedReturns`, `GetsBound`, `AlwaysEnds`. Of `Tcp`, also `WithinWindow`: it relates the
window of one host, what was announced of it, every acknowledgement under way and what
the other host has made of them, in each phase of both, and no invariant was found that
a step keeps. The violations, which are counterexamples by nature.

## 5 What the runs disagree with

Each run marked *violation* checks one statement of a comment in the code
and finds a behaviour of the code that contradicts it. `PROJECT.json`
("findings") quotes the lines.

* `tx_overrun`: `lpc_tx_ready` gives a wrong number when the consume index is
  below the produce index (the difference is added instead of taken off), so
  the wait "until there are enough descriptors available" ends at once on a
  full ring. `TxProduceIndex` then meets `TxConsumeIndex`, which for the EMAC
  is an empty ring: what was queued is dropped, and its pbufs stay referenced.
* `rx_split`: the length of one frame, left in the pbuf of a descriptor, becomes
  the descriptor's size when a bad frame is requeued there; a longer frame is
  then split and its first part passed up as a whole packet.
* `link_alarm`: deleting the SNTP task leaves the alarm set and the handle in
  `sntp.c` as it was; the alarm's interrupt resumes a deleted task.

Other disagreements met while modelling, each in the model (the properties
hold in spite of it) or listed as a hazard:

* EMAC transmit: `TxProduceIndex` is read before the mutex is taken and is stale
  after a reset in between; the interrupt handler clears the error bits
  that the cleanup task then looks for; a reset does not signal
  `xtx_count_sem`; when a full ring has been sent before it is reclaimed,
  `lasttxidx` equals `TxConsumeIndex` and nothing is reclaimed.
* EMAC receive: after a failed allocation the NULL it returned is requeued, and
  the descriptor's own pbuf is lost. An overrun is noticed only when a task wakes,
  and with an empty ring the task does not look at the error bits.
* PHY: the result of a timed-out read is narrowed to 16 bits before it is
  compared with the error code, so that it reads as a link at 10 Mbit/s.
* Link: `tcpip_callback` fails without memory, its result is not read and the
  change not reported again.
* SNTP: the task is deleted wherever it is (`lwipserver.c:186`), with a netconn
  and netbufs that nothing frees. The same deletion inside a netconn call leaves
  the tcpip thread with a pointer to the deleted task's stack, and inside a heap
  function it may leave lwIP's mutex taken; neither is modelled.
* Syslog: the task frees the last message before it clears `curwp`, and clears the
  list at its start (`syslog.c:147`, `115`), so that a sender may link its message to
  one that is no longer queued. With two senders the static `message` is shared; one of two failed
  allocations leaks the other; a resume before the task suspends itself is
  lost until the next message; the minutes of the time stamp are the clock's
  month (`syslog.c:97`).
* FTP: `get_reply` is to "Read the reply from the server and return the MSByte from the return
  code" (`ftpclient.c:541`), and returns the first character of one pbuf. TCP may cut a reply
  anywhere: after "213 " and "12345" the answer to SIZE is 2 and that to STOR 1, and the
  client sends its file without consent. Later pieces can pass for 226 and 221
  in the same way, and `ftp_put` returns `ERR_OK` with nothing stored (`misled`).
* FTP: netconns are never deleted, so that a few calls use up the pool; an early
  error is replaced by the result of closing the session, so that `ftp_put` may return `ERR_OK`
  before it has sent anything.
* tcpip thread: `sys_timeout` without memory returns with no timer set (`timers.c:338`), its
  assertion compiled out. A cyclic timer is then lost for good, as only its own handler sets it again:
  ARP entries age, or DHCP counts, no more. The TCP timer's handler leaves `tcpip_tcp_timer_active` at
  1 (`timers.c:93`), so that `tcp_timer_needed` never sets it again either: no retransmission,
  no time-out, and a connect, write or close that waits for one never returns (`lost`).
* tcpip thread: its clock counts only the time it waits (`timers.c:566`); under messages so dense that it
  never waits over a tick, all timers stand still. The fairness of section 3 excludes it.
* tcpip thread: a peer that keeps its window shut holds `netconn_write` for as
  long as it likes (`CallsReturn` excepts it).
* Kernel: the alarm's handler ignores the result of `xTaskResumeFromISR` (above).
  `xQueueGenericSend` skips the switch that giving back an inherited priority calls for
  when it also wakes a waiter of a lower priority (`queue.c:709`, an `else if`);
  with waits for a mutex that do not time out this cannot happen, and
  `RunsHighest` holds. `TCPIP_THREAD_PRIO` is 5 and clamped to 4, the highest.
* DHCP: `dhcp_recv` clears the request's timer for an OFFER (`dhcp.c:1736`) before
  `dhcp_handle_offer` looks for the server identifier; when the offer has none, that only writes
  a debug message (`dhcp.c:322`). The client stays in SELECTING with no timer, sends nothing more,
  and only a further offer or a change of the link gets it going (`nameless`).
* DHCP: the result of `dhcp_start` is ignored (`lwipserver.c`), and it runs outside the tcpip
  thread against `rawapi.txt`. A refusal leaves the timers of the old
  lease on: they fire in REQUESTING, where a renewal binds without probing the address.
  A DISCOVER that fails for lack of memory leaves the old identifier in force. An
  acknowledgement of a rebinding does not change the server that renewals go to.
  `dhcp_supplied_address` says no in REBINDING and REBOOTING, so that
  `dhcp_release`, called at the end of the lease, returns before it removes the
  address (`dhcp.c:1277`, `1892`); the interface keeps it until the next one is bound.
* TCP, the end of the stream is passed to the netconn once, and the error of a
  full `recvmbox` ignored (`tcp_in.c:471`; `tcp.c:1248` for refused data). Data that
  is refused is presented again, the end is not: the reader waits for ever (`EndLost`).
* TCP, the driver may refuse a fast retransmission, as it does when the ring is full.
  The segment A then waits alone on `unsent` while later ones are on `unacked`, and
  `tcp_write` and `tcp_send_fin` take the last unsent segment for the last one written
  (`tcp_out.c:145`, `tcp_out.c:488`): the FIN, or the next data if A is short, is joined to A
  in mid-stream, and the receiver takes the one for the end of the stream or the other in
  place of what follows A. The next `tcp_rexmit_rto` links `unacked` before A, although
  `tcp_rexmit` promises to "Keep the unsent queue sorted." (`tcp_out.c:1406`). It takes four
  or five troubles, more than the run allows; the attempt to prove `QueuesCover` without
  `overtaken` showed it, and TLC confirmed it with larger bounds.
* TCP, `tcp_output_segment` returns `ERR_OK` for a segment the driver still
  holds before it sets the timer (`tcp_out.c:1156`): the segment can be on
  `unacked` with `rtime` at -1, and if it is lost nothing sends it again.
* TCP, a zero-window probe carries a unit that `snd_nxt` does not count
  (`tcp_out.c:1542`). The acknowledgement of it counts as out of sequence and is
  answered with an empty one; until the window opens it is not acknowledged.
* TCP, the first segment of `ooseq` is not cut to the window
  (`tcp_in.c:1506`). Its FIN can lie one beyond it, and `rcv_wnd` wraps to 65535 when it is taken.
* TCP, in FIN_WAIT_1 an acknowledgement of `snd_nxt` is taken for that of
  the FIN although FIN and data wait unsent for the window (`tcp_in.c:867`). In
  FIN_WAIT_2 the application is gone, and after 20 s they are dropped
  (`AlwaysEnds` counts it as broken off).
* TCP, a retransmission of the SYN that the driver refuses leaves it on `unsent`; the
  SYN|ACK to the first one then reads through `unacked`, which is NULL
  (`tcp_in.c:733`; the state `FAULT`).
* TCP, `tcp_rexmit` counts in `nrtx` too, and past `TCP_MAXRTX` the test for
  equality (`tcp.c:939`) never holds again: `nrtx` no longer ends the
  connection, and it indexes `tcp_backoff` beyond its end.
* Shell: several tests of the table of connections use `i > NCONNS`
  (`shell.c:298`, `345`, `505`, `550`, `963`); a missing argument is not
  noticed (`shell.c:1110`).
* SSDP: a second search overwrites the pending reply of the first
  (`ssdp.c:236`); `ssdpiporigin` is unset for the first announcement
  (`ssdp.c:292`); the step to the next announcement is undone by an
  unconditional assignment (`ssdp.c:300`).

## 6 Not modelled

* **Shell, SSDP, UPnP.** Nothing in this build starts them (`shellInit` is commented
  out in `lwipserver.c:146`, `UPNPXMLENABLE` is 0), so that no run of this firmware
  reaches them; what a reading found is in section 5.
* **Contents.** NTP's clock arithmetic, the text of syslog messages and FTP
  replies, checksums, addresses.
* **UDP, ARP, pbuf chains, the heap, IPv6, PPP, SNMP** and the rest of lwIP:
  vendored, by their effect only. PPP, IPv6 and SNMP are compiled out.
* **FreeRTOS** beyond `Kernel`: creation and deletion of tasks, software timers,
  event groups, queue sets, receiving in an interrupt, the turn among tasks of
  one priority. The other modules use a semaphore, a queue, suspend and resume as
  they are documented.
* **TCP** beyond `Tcp`: several pcbs and the choice between them, options, the
  estimate of the round trip and the lengths of time-outs, keepalive, urgent data,
  the listener's backlog, memory that runs out, `TCP_SND_QUEUELEN`, an application that
  shuts one direction only or does not block, IP beneath.
* **DHCP** beyond `Dhcp`: the parsing of options, `dhcp_inform`, `dhcp_stop`,
  AutoIP, infinite leases.
* **In modelled parts.** `lpc_phy_init` and the start-up order (the EMAC's
  interrupt is enabled before its semaphores exist); failed allocations in the
  tcpip thread other than that of a timer (each makes its call fail at once); a failed `netbuf_alloc` in
  `send_data`, the `netbuf` that it hands to TCP in place of the data, without a copy, and deletes at once
  (`ftpclient.c:631`, `633`), and the 0 that `get_line` writes behind a buffer shorter than the reply
  (`ftpclient.c:515`; five characters at 393); `sys_untimeout`, which nothing calls; creation and deletion of
  mailboxes.

## 7 Plan

Done: the driver, the link monitor, syslog, FTP, the tcpip thread, the kernel's
blocking calls, the DHCP client and TCP, with the proofs of section 4. The order was
that of importance: what all traffic goes through first, applications after,
then the vendored parts on which every wait, every address and every byte rest.

What would come next, in this order:

1. **Proof** of `WithinWindow`, on the lemmas about `Ships` and `Served`: what windows the
   acknowledgements under way carry, then what the other end makes of them.
2. **Composition** of `LinkMonitor` with `TcpipThread`: link callbacks among
   other messages in one mailbox, and the SNTP task's calls among the callers.
3. **Heap and ARP**: the free lists of `mem.c` and the queue of packets that wait for an
   address, on which `EmacRx` and `Tcp` rest.
4. **Start-up**: the order of interrupt, semaphores and tasks.
5. **Two senders** in `Syslog`: what still holds for the list then.
6. **Shell, SSDP**, once something starts them.

## 8 How to run

    tlc -config EmacTxRing.cfg MCEmacTx     # any cfg of section 3 with its MC module
    tlapm EmacTxProofs.tla                  # or another *Proofs module

The longest runs are `tcpip_thread` (447,000 states, more than two minutes because of
liveness), `kernel` (402,000) and `ftp_dialogue` (1.7 million), a minute and a half
each, `tx_ring` (764,000), about a minute, and `tcp` (527,000), more
than two minutes. tlapm takes about seven minutes for `TcpProofs`, four for
`TcpPipeProofs`, two for each of `KernelProofs` (3392 obligations), `TcpipThreadProofs`
(2833) and `ApplicationProofs` (2319), and less for the others.

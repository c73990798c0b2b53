-------------------------------- MODULE EmacRx --------------------------------
(***************************************************************************)
(* The receive half of the LPC17xx EMAC driver, freertos_lwip_mac.c, in    *)
(* the copy mode the repository builds: each descriptor keeps one pbuf of  *)
(* maximal size, and vPacketReceiveTask copies every received frame into a *)
(* fresh pbuf that it passes to tcpip_input.                               *)
(*                                                                         *)
(* A frame is its number and its length; a descriptor smaller than the     *)
(* frame takes the first part of it and the EMAC puts the rest in the next *)
(* descriptor.  The checksum that the driver cuts off is part of the same  *)
(* unit of length.  Memory is a set of pbufs, each with one owner.         *)
(*                                                                         *)
(* Of the device it is assumed that setting RES_RX in MAC1 zeroes the      *)
(* produce index and lets a receiver that an overrun has stopped go on;    *)
(* the driver writes the consume index only, and does not clear the bit.   *)
(***************************************************************************)
EXTENDS Integers

CONSTANTS
    NumRxFrag,    \* EMAC_NUM_RX_FRAG, the number of descriptors
    Pbufs,        \* the memory for pbufs
    NoPbuf,       \* the NULL pointer
    FirstPbufs,   \* the pbufs low_level_init puts into the ring, one for each descriptor
    MaxLen,       \* EMAC_ETH_MAX_FLEN, in units of the smallest frame
    MaxFrames,    \* bound: how many frames arrive
    BadFrames,    \* whether frames with CRC, symbol, alignment or length errors arrive
    FatalOverrun  \* whether the EMAC may stop on a fatal overrun

ASSUME NumRxFragAssumption == NumRxFrag \in Nat /\ NumRxFrag >= 2
ASSUME RxPbufAssumption == NoPbuf \notin Pbufs
ASSUME FirstPbufsAssumption ==
    /\ FirstPbufs \in [0 .. NumRxFrag - 1 -> Pbufs]
    /\ \A i, j \in 0 .. NumRxFrag - 1 : FirstPbufs[i] = FirstPbufs[j] => i = j
ASSUME MaxLenAssumption == MaxLen \in Nat \ {0}
ASSUME MaxFramesAssumption == MaxFrames \in Nat
ASSUME RxErrorsAssumption == BadFrames \in BOOLEAN /\ FatalOverrun \in BOOLEAN

VARIABLES
    \* EMAC registers and descriptor memory
    produce,      \* RxProduceIndex
    consume,      \* RxConsumeIndex, always equal to rxdescnextindex
    intStatus,    \* the receive bits of IntStatus
    stalled,      \* reception stopped on a fatal overrun
    packet,       \* prxd[i].Packet: the pbuf whose payload the EMAC fills
    size,         \* prxd[i].Ctrl: the bytes it may write there
    info,         \* prxs[i].Info: what the EMAC stored
    split,        \* the rest of the frame being received: its number, bytes left
    frames,       \* the number of the last frame that arrived
    \* lpc_enetdata_t
    rxb,          \* the pbuf of each descriptor
    rxSem,        \* rx_sem
    \* vPacketReceiveTask
    pc,           \* where the task is
    hand,         \* the packet lpc_enetif_input is passing up, and its frame
    \* pbufs
    owner,        \* who may free it
    room,         \* the size it was allocated with
    len,          \* pbuf.len
    \* history
    starved       \* an allocation has failed

hwVars  == <<produce, consume, intStatus, stalled, packet, size, info, split, frames>>
memVars == <<owner, room, len>>
vars == <<hwVars, rxb, rxSem, pc, hand, memVars, starved>>

Slots == 0 .. NumRxFrag - 1
Lens  == 1 .. MaxLen
ErrInts == {"RX_OVERRUN", "RX_ERR"}
Cleared == [frame |-> 0, len |-> MaxLen, last |-> TRUE, bad |-> TRUE]  \* 0xffffffff
NoPacket == [pbuf |-> NoPbuf, frame |-> 0, len |-> 0, last |-> TRUE]

\* A descriptor index plus one, wrapping after RxDescriptorNumber.
NextIdx(i) == IF i + 1 > NumRxFrag - 1 THEN 0 ELSE i + 1

\* The EMAC has no descriptor left: it keeps one empty slot.
Full == NextIdx(produce) = consume
IsRxEmpty_Never == FALSE
IsRxEmpty == produce = consume

Heap == {p \in Pbufs : owner[p] = "heap"}

-------------------------------------------------------------------------------
\* low_level_init has queued one pbuf of maximal size per descriptor and the
\* receiver is enabled; RxConsumeIndex has gone round once.
Init ==
    /\ produce = 0 /\ consume = 0
    /\ intStatus = {}
    /\ stalled = FALSE
    /\ rxb = FirstPbufs
    /\ packet = rxb
    /\ size = [i \in Slots |-> MaxLen]
    /\ info = [i \in Slots |-> Cleared]
    /\ split = [frame |-> 0, left |-> 0]
    /\ frames = 0
    /\ rxSem = 0
    /\ pc = "sem"
    /\ hand = NoPacket
    /\ owner = [p \in Pbufs |-> IF \E i \in Slots : rxb[i] = p THEN "ring" ELSE "heap"]
    /\ room = [p \in Pbufs |-> MaxLen]
    /\ len = [p \in Pbufs |-> MaxLen]
    /\ starved = FALSE

-------------------------------------------------------------------------------
(* The EMAC. *)

\* It stores n bytes of frame f in the descriptor at RxProduceIndex and raises
\* the interrupts ints.
Store(f, n, last, bad, ints) ==
    /\ info' = [info EXCEPT ![produce] = [frame |-> f, len |-> n, last |-> last, bad |-> bad]]
    /\ produce' = NextIdx(produce)
    /\ intStatus' = intStatus \cup ints

\* A frame of n bytes arrives and a descriptor is free; a bad one raises an
\* error bit too.
HwReceive(n, bad) ==
    /\ ~stalled /\ split.left = 0 /\ frames < MaxFrames
    /\ ~Full
    /\ bad => BadFrames
    /\ frames' = frames + 1
    /\ IF n <= size[produce]
       THEN /\ Store(frames', n, TRUE, bad, IF bad THEN {"RX_DONE", "RX_ERR"} ELSE {"RX_DONE"})
            /\ UNCHANGED split
       ELSE /\ Store(frames', size[produce], FALSE, FALSE, {"RX_DONE"})
            /\ split' = [frame |-> frames', left |-> n - size[produce]]
    /\ UNCHANGED <<consume, stalled, packet, size, rxb, rxSem, pc, hand, memVars, starved>>

\* The rest of a frame that did not fit its descriptor.
HwContinue ==
    /\ ~stalled /\ split.left > 0
    /\ ~Full
    /\ LET n == IF split.left <= size[produce] THEN split.left ELSE size[produce] IN
       /\ Store(split.frame, n, n = split.left, FALSE, {"RX_DONE"})
       /\ split' = [split EXCEPT !.left = @ - n]
    /\ UNCHANGED <<consume, stalled, packet, size, frames, rxb, rxSem, pc, hand, memVars, starved>>

\* A frame, or the rest of one, finds no free descriptor and is lost.
HwNoDescriptor ==
    /\ ~stalled /\ Full
    /\ split.left > 0 \/ frames < MaxFrames
    /\ frames' = IF split.left > 0 THEN frames ELSE frames + 1
    /\ split' = [split EXCEPT !.left = 0]
    /\ intStatus' = intStatus \cup {"RX_ERR"}
    /\ UNCHANGED <<produce, consume, stalled, packet, size, info, rxb, rxSem, pc, hand, memVars, starved>>

\* A fatal overrun: nothing is received until the receiver is reset.
HwOverrun ==
    /\ FatalOverrun /\ ~stalled /\ frames < MaxFrames
    /\ stalled' = TRUE
    /\ frames' = frames + 1
    /\ intStatus' = intStatus \cup {"RX_OVERRUN"}
    /\ UNCHANGED <<produce, consume, packet, size, info, split, rxb, rxSem, pc, hand, memVars, starved>>

\* ENET_IRQHandler: wake the receive task and clear the bits that were read.
RxInts_NoDone == {"RX_OVERRUN", "RX_ERR"}
RxInts == {"RX_OVERRUN", "RX_ERR", "RX_DONE"}
ENET_IRQHandler ==
    /\ intStatus # {}
    /\ rxSem' = IF intStatus \cap RxInts # {} THEN 1 ELSE rxSem
    /\ intStatus' = {}
    /\ UNCHANGED <<produce, consume, stalled, packet, size, info, split, frames, rxb, pc, hand,
                   memVars, starved>>

-------------------------------------------------------------------------------
(* vPacketReceiveTask and lpc_low_level_input. *)

\* sys_arch_sem_wait on rx_sem, with no timeout.
RxWake ==
    /\ pc = "sem"
    /\ rxSem = 1
    /\ rxSem' = 0
    /\ pc' = "test"
    /\ UNCHANGED <<hwVars, rxb, hand, memVars, starved>>

\* The loop: until the ring is empty.  (lpc_low_level_input tests once more,
\* with the same result: this task is the only consumer.)
RxTest ==
    /\ pc = "test"
    /\ pc' = IF IsRxEmpty THEN "sem" ELSE "input"
    /\ UNCHANGED <<hwVars, rxb, rxSem, hand, memVars, starved>>

\* lpc_rxqueue_pbuf: put p in the next descriptor, sized by p->len, and hand
\* the descriptor to the EMAC.  For NULL the two fields are read from address
\* 0: any size, and a payload that is no pbuf.
Requeue(p) ==
    /\ rxb' = [rxb EXCEPT ![consume] = p]
    /\ packet' = [packet EXCEPT ![consume] = p]
    /\ \E n \in IF p = NoPbuf THEN Lens ELSE {len[p]} : size' = [size EXCEPT ![consume] = n]
    /\ info' = [info EXCEPT ![consume] = Cleared]
    /\ consume' = NextIdx(consume)

ErrorPending == intStatus \cap ErrInts # {}

\* lpc_rx_queue after a reset: k descriptors get a new pbuf, all of them unless
\* the heap is used up before.
RequeuedPbufs(free, k) ==
    {f \in [Slots -> free \cup {NoPbuf}] :
        /\ \A i \in Slots : f[i] = NoPbuf <=> i >= k
        /\ \A i, j \in Slots : f[i] = f[j] /\ f[i] # NoPbuf => i = j
        /\ k < NumRxFrag => \A p \in free : \E i \in Slots : f[i] = p}

\* The overrun branch: free every queued pbuf, restart the receiver from
\* descriptor 0 and fill the ring; a descriptor that gets no pbuf keeps its
\* old contents.  The produce index is zeroed by the device, it is assumed,
\* when RES_RX is set.
InputReset ==
    /\ pc = "input"
    /\ ErrorPending
    /\ \E k \in 0 .. NumRxFrag :
        /\ rxb' \in RequeuedPbufs({p \in Pbufs : owner[p] = "heap" \/ \E i \in Slots : rxb[i] = p}, k)
        /\ consume' = IF k = NumRxFrag THEN 0 ELSE k
        /\ starved' = (starved \/ k < NumRxFrag)
    /\ packet' = [i \in Slots |-> IF rxb'[i] = NoPbuf THEN packet[i] ELSE rxb'[i]]
    /\ size' = [i \in Slots |-> IF rxb'[i] = NoPbuf THEN size[i] ELSE MaxLen]
    /\ info' = [i \in Slots |-> IF rxb'[i] = NoPbuf THEN info[i] ELSE Cleared]
    /\ produce' = 0
    /\ intStatus' = intStatus \ ErrInts
    /\ stalled' = FALSE
    /\ split' = [split EXCEPT !.left = 0]
    /\ owner' = [p \in Pbufs |-> IF \E i \in Slots : rxb'[i] = p THEN "ring"
                                 ELSE IF \E i \in Slots : rxb[i] = p THEN "heap" ELSE owner[p]]
    /\ room' = [p \in Pbufs |-> IF \E i \in Slots : rxb'[i] = p THEN MaxLen ELSE room[p]]
    /\ len' = [p \in Pbufs |-> IF \E i \in Slots : rxb'[i] = p THEN MaxLen ELSE len[p]]
    /\ pc' = "test"
    /\ UNCHANGED <<frames, rxSem, hand>>

\* A bad frame: its own pbuf is queued again.
InputBad_ClearedFirst ==
    /\ pc = "input" /\ ~ErrorPending
    /\ info[consume].bad
    /\ Requeue(NoPbuf)
    /\ pc' = "test"
    /\ UNCHANGED <<produce, intStatus, stalled, split, frames, rxSem, hand, memVars, starved>>
InputBad ==
    /\ pc = "input" /\ ~ErrorPending
    /\ info[consume].bad
    /\ Requeue(rxb[consume])
    /\ pc' = "test"
    /\ UNCHANGED <<produce, intStatus, stalled, split, frames, rxSem, hand, memVars, starved>>

\* A good frame: allocate a pbuf of its length, note the length in the pbuf of
\* the descriptor, copy, and hand the descriptor back to the EMAC as it is.
InputCopy(p) ==
    /\ pc = "input" /\ ~ErrorPending
    /\ ~info[consume].bad
    /\ rxb[consume] # NoPbuf
    /\ p \in Heap
    /\ owner' = [owner EXCEPT ![p] = "hand"]
    /\ room' = [room EXCEPT ![p] = info[consume].len]
    /\ len' = [len EXCEPT ![p] = info[consume].len, ![rxb[consume]] = info[consume].len]
    /\ hand' = [pbuf |-> p, frame |-> info[consume].frame, len |-> info[consume].len,
                last |-> info[consume].last]
    /\ info' = [info EXCEPT ![consume] = Cleared]
    /\ consume' = NextIdx(consume)
    /\ pc' = "deliver"
    /\ UNCHANGED <<produce, intStatus, stalled, packet, size, split, frames, rxb, rxSem, starved>>

\* A good frame and no memory: what is queued again is the NULL of the failed
\* allocation, and the pbuf of the descriptor is forgotten.
InputNoMemory ==
    /\ pc = "input" /\ ~ErrorPending
    /\ ~info[consume].bad
    /\ Heap = {}
    /\ len' = [p \in Pbufs |-> IF p = rxb[consume] THEN info[consume].len ELSE len[p]]
    /\ Requeue(NoPbuf)
    /\ starved' = TRUE
    /\ pc' \in IF rxb[consume] = NoPbuf THEN {"test", "fault"} ELSE {"test"}
    /\ UNCHANGED <<produce, intStatus, stalled, split, frames, rxSem, hand, owner, room>>

\* A good frame in a descriptor without pbuf: its length is stored through a
\* NULL pointer (ignored, or a fault), pbuf_copy refuses the NULL source, and
\* the small pbuf that was allocated for the copy is queued.
InputNoSource(p) ==
    /\ pc = "input" /\ ~ErrorPending
    /\ ~info[consume].bad
    /\ rxb[consume] = NoPbuf
    /\ p \in Heap
    /\ owner' = [owner EXCEPT ![p] = "ring"]
    /\ room' = [room EXCEPT ![p] = info[consume].len]
    /\ len' = [len EXCEPT ![p] = info[consume].len]
    /\ rxb' = [rxb EXCEPT ![consume] = p]
    /\ packet' = [packet EXCEPT ![consume] = p]
    /\ size' = [size EXCEPT ![consume] = info[consume].len]
    /\ info' = [info EXCEPT ![consume] = Cleared]
    /\ consume' = NextIdx(consume)
    /\ pc' \in {"test", "fault"}
    /\ UNCHANGED <<produce, intStatus, stalled, split, frames, rxSem, hand, starved>>

\* The rest of lpc_enetif_input: tcpip_input takes the packet, or it is freed
\* (unknown type, no message, mailbox full).
Deliver_NotFreed(taken) ==
    /\ pc = "deliver"
    /\ owner' = [owner EXCEPT ![hand.pbuf] = IF taken THEN "stack" ELSE @]
    /\ hand' = NoPacket
    /\ pc' = "test"
    /\ UNCHANGED <<hwVars, rxb, rxSem, room, len, starved>>
Deliver(taken) ==
    /\ pc = "deliver"
    /\ owner' = [owner EXCEPT ![hand.pbuf] = IF taken THEN "stack" ELSE "heap"]
    /\ hand' = NoPacket
    /\ pc' = "test"
    /\ UNCHANGED <<hwVars, rxb, rxSem, room, len, starved>>

-------------------------------------------------------------------------------
\* The stack, meanwhile, allocates and frees pbufs of its own.
StackAlloc(p) ==
    /\ p \in Heap
    /\ owner' = [owner EXCEPT ![p] = "stack"]
    /\ UNCHANGED <<hwVars, rxb, rxSem, pc, hand, room, len, starved>>
StackFree(p) ==
    /\ owner[p] = "stack"
    /\ owner' = [owner EXCEPT ![p] = "heap"]
    /\ UNCHANGED <<hwVars, rxb, rxSem, pc, hand, room, len, starved>>

Hw == \/ \E n \in Lens, bad \in BOOLEAN : HwReceive(n, bad)
      \/ HwContinue \/ HwNoDescriptor \/ HwOverrun
Input == InputReset \/ InputBad \/ InputNoMemory \/ \E p \in Pbufs : InputCopy(p) \/ InputNoSource(p)
RxTask == RxWake \/ RxTest \/ Input \/ \E taken \in BOOLEAN : Deliver(taken)
Stack == \E p \in Pbufs : StackAlloc(p) \/ StackFree(p)

Next == Hw \/ ENET_IRQHandler \/ RxTask \/ Stack

Spec == Init /\ [][Next]_vars
FairSpec == Spec /\ WF_vars(RxTask) /\ WF_vars(ENET_IRQHandler)

-------------------------------------------------------------------------------
(* Properties. *)

Filled == {i \in Slots : IF consume <= produce THEN consume <= i /\ i < produce
                                               ELSE consume <= i \/ i < produce}

\* Every variable stays in its type.
TypeOK ==
    /\ produce \in Slots /\ consume \in Slots
    /\ intStatus \subseteq {"RX_OVERRUN", "RX_ERR", "RX_DONE"}
    /\ stalled \in BOOLEAN
    /\ packet \in [Slots -> Pbufs \cup {NoPbuf}] /\ rxb \in [Slots -> Pbufs \cup {NoPbuf}]
    /\ size \in [Slots -> Lens]
    /\ info \in [Slots -> [frame : 0 .. MaxFrames, len : Lens, last : BOOLEAN, bad : BOOLEAN]]
    /\ split \in [frame : 0 .. MaxFrames, left : 0 .. MaxLen]
    /\ frames \in 0 .. MaxFrames
    /\ rxSem \in {0, 1}
    /\ pc \in {"sem", "test", "input", "deliver", "fault"}
    /\ hand \in [pbuf : Pbufs \cup {NoPbuf}, frame : 0 .. MaxFrames, len : 0 .. MaxLen, last : BOOLEAN]
    /\ owner \in [Pbufs -> {"heap", "ring", "hand", "stack"}]
    /\ room \in [Pbufs -> Lens] /\ len \in [Pbufs -> Lens]
    /\ starved \in BOOLEAN

\* As long as no allocation has failed, the EMAC writes only into a pbuf that
\* the ring owns and never past its end, whatever lengths the task has stored
\* in the pbufs it queues again.
DmaInBounds ==
    ~starved => \A i \in Slots :
        /\ rxb[i] # NoPbuf /\ packet[i] = rxb[i]
        /\ owner[rxb[i]] = "ring"
        /\ size[i] <= room[rxb[i]]

\* As long as no allocation has failed, no pbuf is lost: one that belongs to
\* the ring is in exactly one descriptor, one in the task's hand is in none.
RingKeepsPbufs ==
    ~starved => \A p \in Pbufs :
        /\ owner[p] = "ring" <=> \E i \in Slots : rxb[i] = p
        /\ \A i, j \in Slots : rxb[i] = p /\ rxb[j] = p => i = j
        /\ owner[p] = "hand" <=> pc = "deliver" /\ hand.pbuf = p

\* As long as no allocation has failed, what the task passes up has just
\* arrived: the descriptors it has not reached hold later frames, in the order
\* of their arrival, so that nothing is delivered twice or out of order.
InOrder ==
    ~starved => \A i \in Filled :
        /\ info[i].frame >= 1
        /\ IF hand.last THEN hand.frame < info[i].frame ELSE hand.frame <= info[i].frame
        /\ NextIdx(i) \in Filled => IF info[i].last
                                   THEN info[i].frame < info[NextIdx(i)].frame
                                   ELSE info[i].frame <= info[NextIdx(i)].frame

\* A received frame does not stay in the ring for ever.
EventuallyRead == \A i \in Slots : i \in Filled ~> (i \notin Filled \/ pc = "fault")

\* lpc_enetif_input passes a "full packet" up: never the beginning of a longer
\* frame whose rest is in another descriptor.
FullPackets == pc = "deliver" => hand.last

===============================================================================

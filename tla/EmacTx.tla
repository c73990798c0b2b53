-------------------------------- MODULE EmacTx --------------------------------
(***************************************************************************)
(* The transmit half of the LPC17xx EMAC driver, freertos_lwip_mac.c.      *)
(*                                                                         *)
(* Four actors share a ring of NumTxFrag descriptors:                      *)
(*                                                                         *)
(*   - the TCP/IP thread, inside lpc_low_level_output, queues the          *)
(*     fragments of one frame at TxProduceIndex;                           *)
(*   - the EMAC sends the descriptor at TxConsumeIndex and raises an       *)
(*     interrupt bit;                                                      *)
(*   - ENET_IRQHandler wakes the cleanup task and clears the bits;         *)
(*   - vTransmitCleanupTask releases the sent frames up to TxConsumeIndex, *)
(*     from lasttxidx on, or resets the transmitter on an error.           *)
(*                                                                         *)
(* A frame is the pbuf at the head of its chain: the driver takes one      *)
(* reference on it when it queues the chain and gives it back when it      *)
(* reclaims the last descriptor of the chain.                              *)
(*                                                                         *)
(* Of the device it is assumed that setting RES_TX in MAC1 zeroes both     *)
(* indices and lets a stalled transmitter go on, although the bit is not   *)
(* cleared again.  The driver writes no index in its reset; it assumes the *)
(* same where it starts again from descriptor 0.                           *)
(***************************************************************************)
EXTENDS Integers

CONSTANTS
    NumTxFrag,    \* EMAC_NUM_TX_FRAG, the number of descriptors
    Pbufs,        \* the pbufs the stack hands to the driver
    NoPbuf,       \* the NULL pointer
    MaxFrag,      \* bound: the longest pbuf chain the stack builds
    TxErrors      \* the error bits this EMAC may raise

ASSUME NumTxFragAssumption == NumTxFrag \in Nat /\ NumTxFrag >= 2
ASSUME PbufAssumption == NoPbuf \notin Pbufs
ASSUME MaxFragAssumption == MaxFrag \in Nat \ {0}
ASSUME TxErrorsAssumption == TxErrors \subseteq {"TX_UNDERRUN", "TX_ERR"}

VARIABLES
    \* EMAC registers and descriptor memory
    produce,      \* TxProduceIndex
    consume,      \* TxConsumeIndex
    intStatus,    \* the transmit bits of IntStatus
    stalled,      \* the transmitter stopped on an underrun
    desc,         \* ptxd: the frame a descriptor points into, and its LAST bit
    \* lpc_enetdata_t
    txb,          \* the pbuf to free when a descriptor has been sent
    lasttxidx,    \* the next descriptor to reclaim
    xtxCount,     \* xtx_count_sem
    cleanSem,     \* tx_clean_sem
    mutex,        \* tx_lock_mutex: its holder
    \* lpc_low_level_output, in the TCP/IP thread
    outPc, outP, outDn, outIdx,
    \* vTransmitCleanupTask
    cleanPc,
    \* the pbufs
    ref,          \* pbuf.ref
    stackHolds,   \* the stack still has its own reference
    \* history
    spoiled       \* the ring discipline of WriteFrag has been broken once

hwVars    == <<produce, consume, intStatus, stalled, desc>>
drvVars   == <<txb, lasttxidx, xtxCount, cleanSem, mutex>>
outVars   == <<outPc, outP, outDn, outIdx>>
pbufVars  == <<ref, stackHolds>>
vars == <<hwVars, drvVars, outVars, cleanPc, pbufVars, spoiled>>

Slots == 0 .. NumTxFrag - 1
OutPcs == {"idle", "ready", "sem", "index", "lock", "write"}
CleanPcs == {"sem", "status", "reset", "lock", "reclaim"}

\* The bits for which the interrupt handler wakes the cleanup task.
TxInts_NoDone == {"TX_UNDERRUN", "TX_ERR"}
TxInts == {"TX_UNDERRUN", "TX_ERR", "TX_DONE"}

\* A descriptor index plus one, wrapping after TxDescriptorNumber.
NextIdx(i) == IF i + 1 > NumTxFrag - 1 THEN 0 ELSE i + 1

\* Slot i lies in the ring interval from a up to, not including, b.
InSpan(a, b, i) ==
    IF a <= b THEN a <= i /\ i < b ELSE a <= i \/ i < b

\* The descriptors the EMAC still has to send.
Pending == {i \in Slots : InSpan(consume, produce, i)}

\* lpc_tx_ready, sign of the last difference as it is in the code.
TxReady ==
    CASE produce = consume -> NumTxFrag
      [] consume > produce -> (NumTxFrag - 1) - ((produce + NumTxFrag) - consume)
      [] OTHER             -> (NumTxFrag - 1) - (consume - produce)

-------------------------------------------------------------------------------
Init ==
    /\ produce = 0 /\ consume = 0
    /\ intStatus = {}
    /\ stalled = FALSE
    /\ desc = [i \in Slots |-> [frame |-> NoPbuf, last |-> FALSE]]
    /\ txb = [i \in Slots |-> NoPbuf]
    /\ lasttxidx = 0
    /\ xtxCount = NumTxFrag
    /\ cleanSem = 0
    /\ mutex = "free"
    /\ outPc = "idle" /\ outP = NoPbuf /\ outDn = 0 /\ outIdx = 0
    /\ cleanPc = "sem"
    /\ ref = [p \in Pbufs |-> 0]
    /\ stackHolds = [p \in Pbufs |-> FALSE]
    /\ spoiled = FALSE

-------------------------------------------------------------------------------
(* The stack above the driver. *)

\* pbuf_alloc: a free pbuf gets its first reference.
StackAlloc(p) ==
    /\ outPc = "idle"
    /\ ref[p] = 0
    /\ ref' = [ref EXCEPT ![p] = 1]
    /\ stackHolds' = [stackHolds EXCEPT ![p] = TRUE]
    /\ UNCHANGED <<hwVars, drvVars, outVars, cleanPc, spoiled>>

\* pbuf_free by the stack once linkoutput has returned.
StackFree(p) ==
    /\ outPc = "idle"
    /\ stackHolds[p]
    /\ ref' = [ref EXCEPT ![p] = @ - 1]
    /\ stackHolds' = [stackHolds EXCEPT ![p] = FALSE]
    /\ UNCHANGED <<hwVars, drvVars, outVars, cleanPc, spoiled>>

\* The stack calls linkoutput with a chain of dn pbufs.  A segment the driver
\* still references is not sent again (tcp_output_segment).
Output_NoRefCheck(p, dn) ==
    /\ outPc = "idle" /\ stackHolds[p]
    /\ outPc' = "ready" /\ outP' = p /\ outDn' = dn
    /\ UNCHANGED <<hwVars, drvVars, outIdx, cleanPc, pbufVars, spoiled>>

Output(p, dn) ==
    /\ outPc = "idle"
    /\ stackHolds[p]
    /\ ref[p] = 1
    /\ outPc' = "ready"
    /\ outP' = p
    /\ outDn' = dn
    /\ UNCHANGED <<hwVars, drvVars, outIdx, cleanPc, pbufVars, spoiled>>

-------------------------------------------------------------------------------
(* lpc_low_level_output. *)

\* The condition of the loop that waits for descriptors.
TestReady ==
    /\ outPc = "ready"
    /\ outPc' = IF outDn > TxReady THEN "sem" ELSE "index"
    /\ UNCHANGED <<hwVars, drvVars, outP, outDn, outIdx, cleanPc, pbufVars, spoiled>>

\* Its body: sys_arch_sem_wait on xtx_count_sem, with no timeout.
WaitDescriptor ==
    /\ outPc = "sem"
    /\ xtxCount > 0
    /\ xtxCount' = xtxCount - 1
    /\ outPc' = "ready"
    /\ UNCHANGED <<hwVars, txb, lasttxidx, cleanSem, mutex, outP, outDn, outIdx,
                   cleanPc, pbufVars, spoiled>>

\* idx = TxProduceIndex, before the mutex is taken.
ReadIndex ==
    /\ outPc = "index"
    /\ outIdx' = produce
    /\ outPc' = "lock"
    /\ UNCHANGED <<hwVars, drvVars, outP, outDn, cleanPc, pbufVars, spoiled>>

\* sys_mutex_lock, then pbuf_ref.
LockRing ==
    /\ outPc = "lock"
    /\ mutex = "free"
    /\ mutex' = "output"
    /\ ref' = [ref EXCEPT ![outP] = @ + 1]
    /\ outPc' = "write"
    /\ UNCHANGED <<hwVars, txb, lasttxidx, xtxCount, cleanSem, outP, outDn, outIdx,
                   cleanPc, stackHolds, spoiled>>

\* What a turn of the loop stores for the fragment: its descriptor, and the
\* pbuf to free later, which only the last descriptor of a chain keeps.
Descriptor_NoLast == [frame |-> outP, last |-> FALSE]
Descriptor == [frame |-> outP, last |-> outDn = 1]
SavedPbuf_EveryFrag == outP
SavedPbuf == IF outDn = 1 THEN outP ELSE NoPbuf

\* One turn of that loop; the last one ends with the unlock and the return.
WriteFrag ==
    LET next == NextIdx(outIdx) IN
    /\ outPc = "write"
    /\ desc' = [desc EXCEPT ![outIdx] = Descriptor]
    /\ txb' = [txb EXCEPT ![outIdx] = SavedPbuf]
    /\ produce' = next
    /\ outDn' = outDn - 1
    /\ IF outDn = 1
       THEN outPc' = "idle" /\ outP' = NoPbuf /\ outIdx' = 0 /\ mutex' = "free"
       ELSE outIdx' = next /\ UNCHANGED <<outPc, outP, mutex>>
    /\ spoiled' = (spoiled \/ outIdx # produce \/ next = lasttxidx)
    /\ UNCHANGED <<consume, intStatus, stalled, lasttxidx, xtxCount, cleanSem, cleanPc,
                   pbufVars>>

-------------------------------------------------------------------------------
(* vTransmitCleanupTask. *)

\* pbuf_free of what the slots S hold (a pbuf is in one slot at most, see
\* TxbUnique), and the slots set to NULL.
FreeSlots_Forgotten(S) == ref
FreeSlots(S) == [p \in Pbufs |-> IF \E i \in S : txb[i] = p THEN ref[p] - 1 ELSE ref[p]]
ClearSlots_Forgotten(S) == txb
ClearSlots(S) == [i \in Slots |-> IF i \in S THEN NoPbuf ELSE txb[i]]

\* sys_sem_signal on xtx_count_sem, which counts to NumTxFrag at most.
XtxSignalled_Forgotten == xtxCount
XtxSignalled == IF xtxCount < NumTxFrag THEN xtxCount + 1 ELSE xtxCount

\* sys_arch_sem_wait on tx_clean_sem, with no timeout.
CleanWake ==
    /\ cleanPc = "sem"
    /\ cleanSem = 1
    /\ cleanSem' = 0
    /\ cleanPc' = "status"
    /\ UNCHANGED <<hwVars, txb, lasttxidx, xtxCount, mutex, outVars, pbufVars, spoiled>>

\* The task reads IntStatus, which the interrupt handler may have cleared.
CleanStatus ==
    /\ cleanPc = "status"
    /\ cleanPc' = IF intStatus \cap {"TX_UNDERRUN", "TX_ERR"} # {} THEN "reset" ELSE "lock"
    /\ UNCHANGED <<hwVars, drvVars, outVars, pbufVars, spoiled>>

\* The error branch, under the mutex: reset the transmitter, free every queued
\* pbuf, lpc_tx_setup.  That the indices are zero and the stall over is what
\* the device is assumed to do when RES_TX is set.
ResetTx ==
    /\ cleanPc = "reset"
    /\ mutex = "free"
    /\ produce' = 0 /\ consume' = 0
    /\ stalled' = FALSE
    /\ ref' = FreeSlots(Slots)
    /\ txb' = ClearSlots(Slots)
    /\ desc' = [i \in Slots |-> [desc[i] EXCEPT !.last = FALSE]]
    /\ lasttxidx' = 0
    /\ cleanPc' = "sem"
    /\ UNCHANGED <<intStatus, xtxCount, cleanSem, mutex, outVars, stackHolds, spoiled>>

\* lpc_tx_reclaim: take the mutex ...
ReclaimLock ==
    /\ cleanPc = "lock"
    /\ mutex = "free"
    /\ mutex' = "clean"
    /\ cleanPc' = "reclaim"
    /\ UNCHANGED <<hwVars, txb, lasttxidx, xtxCount, cleanSem, outVars, pbufVars, spoiled>>

\* ... release one sent descriptor and count it ...
ReclaimOne ==
    /\ cleanPc = "reclaim"
    /\ consume # lasttxidx
    /\ ref' = FreeSlots({lasttxidx})
    /\ txb' = ClearSlots({lasttxidx})
    /\ xtxCount' = XtxSignalled
    /\ lasttxidx' = NextIdx(lasttxidx)
    /\ UNCHANGED <<hwVars, cleanSem, mutex, outVars, cleanPc, stackHolds, spoiled>>

\* ... until lasttxidx has caught up with TxConsumeIndex.
ReclaimDone ==
    /\ cleanPc = "reclaim"
    /\ consume = lasttxidx
    /\ mutex' = "free"
    /\ cleanPc' = "sem"
    /\ UNCHANGED <<hwVars, txb, lasttxidx, xtxCount, cleanSem, outVars, pbufVars, spoiled>>

-------------------------------------------------------------------------------
(* The EMAC and its interrupt. *)

\* The EMAC has sent the descriptor at TxConsumeIndex, or dropped its frame.
HwSend(int) ==
    /\ ~stalled
    /\ consume # produce
    /\ consume' = NextIdx(consume)
    /\ intStatus' = intStatus \cup {int}
    /\ UNCHANGED <<produce, stalled, desc, drvVars, outVars, cleanPc, pbufVars, spoiled>>

\* A fatal underrun: nothing is sent until the transmitter is reset.
HwUnderrun ==
    /\ "TX_UNDERRUN" \in TxErrors
    /\ ~stalled
    /\ consume # produce
    /\ stalled' = TRUE
    /\ intStatus' = intStatus \cup {"TX_UNDERRUN"}
    /\ UNCHANGED <<produce, consume, desc, drvVars, outVars, cleanPc, pbufVars, spoiled>>

\* ENET_IRQHandler: wake the cleanup task and clear the bits that were read.
ENET_IRQHandler ==
    /\ intStatus # {}
    /\ cleanSem' = IF intStatus \cap TxInts # {} THEN 1 ELSE cleanSem
    /\ intStatus' = {}
    /\ UNCHANGED <<produce, consume, stalled, desc, txb, lasttxidx, xtxCount, mutex,
                   outVars, cleanPc, pbufVars, spoiled>>

-------------------------------------------------------------------------------
Stack  == \E p \in Pbufs : \/ StackAlloc(p)
                           \/ StackFree(p)
                           \/ \E dn \in 1 .. MaxFrag : Output(p, dn)
OutStep   == TestReady \/ WaitDescriptor \/ ReadIndex \/ LockRing \/ WriteFrag
CleanStep == CleanWake \/ CleanStatus \/ ResetTx \/ ReclaimLock \/ ReclaimOne \/ ReclaimDone
Hw        == (\E int \in {"TX_DONE"} \cup (TxErrors \cap {"TX_ERR"}) : HwSend(int)) \/ HwUnderrun

Next == Stack \/ OutStep \/ CleanStep \/ Hw \/ ENET_IRQHandler

Spec == Init /\ [][Next]_vars

\* The scheduler runs every ready task, the interrupt is taken, and the EMAC
\* sends what it is given as long as it is not stalled.
Fairness ==
    /\ WF_vars(OutStep)
    /\ WF_vars(CleanStep)
    /\ WF_vars(ENET_IRQHandler)
    /\ WF_vars(HwSend("TX_DONE"))

FairSpec == Spec /\ Fairness

-------------------------------------------------------------------------------
(* Properties. *)

\* Every variable stays in its type; in particular a pbuf the driver handles
\* never has more than the stack's and the driver's reference.
TypeOK ==
    /\ produce \in Slots /\ consume \in Slots
    /\ intStatus \subseteq {"TX_DONE", "TX_UNDERRUN", "TX_ERR"}
    /\ stalled \in BOOLEAN
    /\ desc \in [Slots -> [frame : Pbufs \cup {NoPbuf}, last : BOOLEAN]]
    /\ txb \in [Slots -> Pbufs \cup {NoPbuf}]
    /\ lasttxidx \in Slots
    /\ xtxCount \in 0 .. NumTxFrag
    /\ cleanSem \in {0, 1}
    /\ mutex \in {"free", "output", "clean"}
    /\ outPc \in OutPcs
    /\ outP \in Pbufs \cup {NoPbuf}
    /\ outDn \in 0 .. MaxFrag
    /\ outIdx \in Slots
    /\ cleanPc \in CleanPcs
    /\ ref \in [Pbufs -> 0 .. 2]
    /\ stackHolds \in [Pbufs -> BOOLEAN]
    /\ spoiled \in BOOLEAN

\* The driver owns a reference on p: p waits in a slot, or is being queued.
Writing(p)     == outPc = "write" /\ outP = p
DriverHolds(p) == Writing(p) \/ \E i \in Slots : txb[i] = p

Count(b) == IF b THEN 1 ELSE 0

\* No pbuf waits in two slots, so no reset and no reclaim frees it twice.
TxbUnique ==
    \A i, j \in Slots : txb[i] = txb[j] /\ txb[i] # NoPbuf => i = j

\* Whatever the ring went through (overruns and resets included), the stack's
\* and the driver's references are both counted: neither pbuf_free of the
\* cleanup task can free a pbuf that the other side still uses.
RefsCovered ==
    \A p \in Pbufs : ref[p] >= Count(stackHolds[p]) + Count(DriverHolds(p))

\* As long as the ring was never spoiled, no reference is lost either: a pbuf
\* that both sides are done with is back in the heap.
NoLeak ==
    ~spoiled => \A p \in Pbufs : ref[p] = Count(stackHolds[p]) + Count(DriverHolds(p))

\* As long as the ring was never spoiled, every descriptor the EMAC may still
\* read points into a pbuf that is not freed, although only the last
\* descriptor of a chain keeps the reference.
DmaSafe ==
    ~spoiled => \A i \in Pending : desc[i].frame # NoPbuf /\ ref[desc[i].frame] >= 1

\* As long as the ring was never spoiled, the fragments of a frame stay
\* together: after one that is not the last comes the next one of the same
\* frame, or the output call that is still writing it.
FramesWhole ==
    ~spoiled => \A i \in Pending :
        ~desc[i].last =>
            \/ NextIdx(i) \in Pending /\ desc[NextIdx(i)].frame = desc[i].frame
            \/ NextIdx(i) = produce /\ Writing(desc[i].frame)

\* The EMAC never reports an error: one that the interrupt handler clears before
\* the cleanup task has read it leaves the transmitter stalled for good.
NoErrors == [](intStatus \cap {"TX_UNDERRUN", "TX_ERR"} = {})

\* Without transmit errors every pbuf the driver holds is given back, unless
\* the ring gets spoiled.
FramesReleased ==
    NoErrors => \A p \in Pbufs : DriverHolds(p) ~> (~DriverHolds(p) \/ spoiled)

\* "THIS WILL BLOCK UNTIL THERE ARE ENOUGH DESCRIPTORS AVAILABLE": queueing a
\* descriptor adds it to what the EMAC will send and drops nothing.
QueueingAdds ==
    [][outPc = "write" /\ outPc' # outPc => Pending \cup {outIdx} \subseteq Pending']_vars

\* Without transmit errors a frame handed to the driver gets its descriptors,
\* unless the ring gets spoiled: the wait for them never outlives the frames it
\* waits for.
OutputReturns == NoErrors => (outPc # "idle" ~> (outPc = "idle" \/ spoiled))

===============================================================================

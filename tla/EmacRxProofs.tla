----------------------------- MODULE EmacRxProofs -----------------------------
(***************************************************************************)
(* Proofs about EmacRx for every ring size, memory and frame length: as    *)
(* long as no allocation has failed, the DMA stays inside pbufs the ring   *)
(* owns, no pbuf is lost or owned twice, and frames go up in the order of  *)
(* their arrival.                                                          *)
(***************************************************************************)
EXTENDS EmacRx, TLAPS

USE NumRxFragAssumption, RxPbufAssumption, MaxLenAssumption, MaxFramesAssumption, RxErrorsAssumption

\* Why a requeued pbuf, whose size field is its current length, still fits: no
\* length stored in it was larger than the descriptor the frame came in.
LengthInv ==
    ~starved => \A i \in Slots :
        /\ len[rxb[i]] <= room[rxb[i]]
        /\ ~info[i].bad => info[i].len <= size[i]

RxInv == TypeOK /\ DmaInBounds /\ RingKeepsPbufs /\ LengthInv

\* NextIdx stays in the ring.
LEMMA NextIdxType == \A i \in Slots : NextIdx(i) \in Slots
  BY DEF NextIdx, Slots

\* Zero is a descriptor index, and frames have positive lengths.
LEMMA Bounds == 0 \in Slots /\ MaxLen \in Lens /\ Lens \subseteq Nat
  BY DEF Slots, Lens

\* The initial state satisfies RxInv.
LEMMA RxInit == Init => RxInv
  <1> SUFFICES ASSUME Init PROVE RxInv
    OBVIOUS
  <1> USE FirstPbufsAssumption DEF Slots
  <1>1. Cleared \in [frame : 0 .. MaxFrames, len : Lens, last : BOOLEAN, bad : BOOLEAN] /\ Cleared.bad
    BY Bounds DEF Cleared
  <1>2. TypeOK
    <2>1. info \in [Slots -> [frame : 0 .. MaxFrames, len : Lens, last : BOOLEAN, bad : BOOLEAN]]
      BY <1>1 DEF Init
    <2>2. split \in [frame : 0 .. MaxFrames, left : 0 .. MaxLen]
      BY DEF Init
    <2>3. hand \in [pbuf : Pbufs \cup {NoPbuf}, frame : 0 .. MaxFrames, len : 0 .. MaxLen, last : BOOLEAN]
      BY DEF Init, NoPacket
    <2> QED
      BY <2>1, <2>2, <2>3, Bounds DEF Init, TypeOK
  <1>3. DmaInBounds /\ RingKeepsPbufs
    <2>1. rxb = FirstPbufs /\ packet = rxb
      BY DEF Init
    <2>2. \A p \in Pbufs : owner[p] = IF \E i \in Slots : rxb[i] = p THEN "ring" ELSE "heap"
      BY DEF Init
    <2>3. \A i \in Slots : rxb[i] \in Pbufs /\ \A j \in Slots : rxb[i] = rxb[j] => i = j
      BY <2>1
    <2>4. \A i \in Slots : size[i] = MaxLen /\ room[rxb[i]] = MaxLen /\ owner[rxb[i]] = "ring"
      BY <2>2, <2>3 DEF Init
    <2>5. DmaInBounds
      BY <2>1, <2>3, <2>4 DEF DmaInBounds
    <2>6. RingKeepsPbufs
      <3>1. SUFFICES ASSUME NEW p \in Pbufs
                     PROVE  /\ owner[p] = "ring" <=> \E i \in Slots : rxb[i] = p
                            /\ \A i, j \in Slots : rxb[i] = p /\ rxb[j] = p => i = j
                            /\ owner[p] = "hand" <=> pc = "deliver" /\ hand.pbuf = p
        BY DEF RingKeepsPbufs
      <3>2. pc # "deliver" /\ owner[p] # "hand"
        BY <2>2 DEF Init
      <3>3. owner[p] = "ring" <=> \E i \in Slots : rxb[i] = p
        BY <2>2
      <3> QED
        BY <2>3, <3>2, <3>3
    <2> QED
      BY <2>5, <2>6
  <1>4. LengthInv
    BY <1>1, Bounds DEF Init, LengthInv
  <1> QED
    BY <1>2, <1>3, <1>4 DEF RxInv

\* Steps of the EMAC: they change what is stored in the descriptors only, and a
\* good frame is no longer than its descriptor.
LEMMA HwStep == RxInv /\ (Hw \/ ENET_IRQHandler) => RxInv'
  <1> SUFFICES ASSUME RxInv, Hw \/ ENET_IRQHandler PROVE RxInv'
    OBVIOUS
  <1> USE DEF RxInv
  <1>1. ASSUME NEW n \in Lens, NEW bad \in BOOLEAN, HwReceive(n, bad) PROVE RxInv'
    <2>0. frames' \in 0 .. MaxFrames /\ size[produce] \in Lens
      BY <1>1 DEF HwReceive, TypeOK
    <2>1. produce' \in Slots /\ intStatus' \subseteq {"RX_OVERRUN", "RX_ERR", "RX_DONE"}
      <3>1. produce' = NextIdx(produce)
        BY <1>1 DEF HwReceive, Store
      <3>2. intStatus' = intStatus \cup {"RX_DONE", "RX_ERR"} \/ intStatus' = intStatus \cup {"RX_DONE"}
        BY <1>1 DEF HwReceive, Store
      <3> QED
        BY <3>1, <3>2, NextIdxType DEF TypeOK
    <2>2. \E m \in Lens, last \in BOOLEAN, b \in BOOLEAN :
             /\ m <= size[produce]
             /\ info' = [info EXCEPT ![produce] = [frame |-> frames', len |-> m, last |-> last, bad |-> b]]
      <3>1. CASE n <= size[produce]
        <4>1. info' = [info EXCEPT ![produce] = [frame |-> frames', len |-> n, last |-> TRUE, bad |-> bad]]
          BY <1>1, <3>1 DEF HwReceive, Store
        <4> QED
          BY <3>1, <4>1
      <3>2. CASE ~(n <= size[produce])
        <4>1. info' = [info EXCEPT ![produce] = [frame |-> frames', len |-> size[produce], last |-> FALSE, bad |-> FALSE]]
          BY <1>1, <3>2 DEF HwReceive, Store
        <4>2. size[produce] <= size[produce]
          BY <2>0 DEF Lens
        <4> QED
          BY <2>0, <4>1, <4>2
      <3> QED
        BY <3>1, <3>2
    <2>3. split' \in [frame : 0 .. MaxFrames, left : 0 .. MaxLen]
      <3>1. CASE n <= size[produce]
        BY <1>1, <3>1 DEF HwReceive, TypeOK
      <3>2. CASE ~(n <= size[produce])
        <4>1. split' = [frame |-> frames', left |-> n - size[produce]]
          BY <1>1, <3>2 DEF HwReceive
        <4>2. n - size[produce] \in 0 .. MaxLen
          BY <2>0, <3>2 DEF Lens
        <4> QED
          BY <2>0, <4>1, <4>2
      <3> QED
        BY <3>1, <3>2
    <2>4. info' \in [Slots -> [frame : 0 .. MaxFrames, len : Lens, last : BOOLEAN, bad : BOOLEAN]]
      BY <2>0, <2>2 DEF TypeOK
    <2>5. UNCHANGED <<consume, stalled, packet, size, rxb, rxSem, pc, hand, owner, room, len, starved>>
      BY <1>1 DEF HwReceive, memVars
    <2>6. TypeOK'
      BY <2>0, <2>1, <2>3, <2>4, <2>5 DEF TypeOK
    <2>7. DmaInBounds' /\ RingKeepsPbufs'
      BY <2>5 DEF DmaInBounds, RingKeepsPbufs
    <2>8. LengthInv'
      BY <2>2, <2>5 DEF LengthInv, TypeOK
    <2> QED
      BY <2>6, <2>7, <2>8
  <1>2. CASE HwContinue
    <2>1. split.left \in 1 .. MaxLen /\ split.frame \in 0 .. MaxFrames /\ size[produce] \in Lens
      BY <1>2 DEF HwContinue, TypeOK
    <2>2. produce' \in Slots /\ intStatus' \subseteq {"RX_OVERRUN", "RX_ERR", "RX_DONE"}
      BY <1>2, NextIdxType DEF HwContinue, Store, TypeOK
    <2> DEFINE m == IF split.left <= size[produce] THEN split.left ELSE size[produce]
    <2>3. /\ m \in Lens /\ m <= size[produce] /\ m <= split.left
          /\ info' = [info EXCEPT ![produce] = [frame |-> split.frame, len |-> m, last |-> m = split.left,
                                               bad |-> FALSE]]
          /\ split' = [split EXCEPT !.left = @ - m]
      BY <1>2, <2>1 DEF HwContinue, Store, Lens
    <2> HIDE DEF m
    <2>4. split' \in [frame : 0 .. MaxFrames, left : 0 .. MaxLen]
      BY <2>1, <2>3 DEF TypeOK, Lens
    <2>5. TypeOK'
      BY <1>2, <2>1, <2>2, <2>3, <2>4 DEF HwContinue, TypeOK, memVars
    <2>6. DmaInBounds' /\ RingKeepsPbufs'
      BY <1>2 DEF HwContinue, DmaInBounds, RingKeepsPbufs, memVars
    <2>7. LengthInv'
      BY <1>2, <2>3 DEF HwContinue, LengthInv, TypeOK, memVars
    <2> QED
      BY <2>5, <2>6, <2>7
  <1>3. CASE HwNoDescriptor \/ HwOverrun \/ ENET_IRQHandler
    <2>1. split' \in [frame : 0 .. MaxFrames, left : 0 .. MaxLen]
      BY <1>3 DEF HwNoDescriptor, HwOverrun, ENET_IRQHandler, TypeOK
    <2>2. frames' \in 0 .. MaxFrames
      BY <1>3 DEF HwNoDescriptor, HwOverrun, ENET_IRQHandler, TypeOK
    <2>3. TypeOK'
      BY <1>3, <2>1, <2>2 DEF HwNoDescriptor, HwOverrun, ENET_IRQHandler, TypeOK, memVars
    <2>4. DmaInBounds' /\ RingKeepsPbufs' /\ LengthInv'
      BY <1>3 DEF HwNoDescriptor, HwOverrun, ENET_IRQHandler, DmaInBounds, RingKeepsPbufs, LengthInv,
                  memVars
    <2> QED
      BY <2>3, <2>4
  <1> QED
    BY <1>1, <1>2, <1>3 DEF Hw

\* A copied frame: its length is noted in the descriptor's pbuf, the copy is in
\* the task's hand.
LEMMA CopyStep == ASSUME RxInv, NEW p \in Pbufs, InputCopy(p) PROVE RxInv'
  <1> USE DEF RxInv
  <1>1. /\ info[consume].len \in Lens /\ rxb[consume] \in Pbufs /\ consume \in Slots /\ NextIdx(consume) \in Slots
        /\ info[consume].frame \in 0 .. MaxFrames /\ info[consume].len \in 0 .. MaxLen
        /\ info[consume].last \in BOOLEAN
    BY NextIdxType DEF InputCopy, TypeOK, Lens
  <1>2. Cleared \in [frame : 0 .. MaxFrames, len : Lens, last : BOOLEAN, bad : BOOLEAN] /\ Cleared.bad
    BY Bounds DEF Cleared
  <1>3. hand' \in [pbuf : Pbufs \cup {NoPbuf}, frame : 0 .. MaxFrames, len : 0 .. MaxLen, last : BOOLEAN]
        /\ hand'.pbuf = p
    BY <1>1 DEF InputCopy
  <1>4. info' \in [Slots -> [frame : 0 .. MaxFrames, len : Lens, last : BOOLEAN, bad : BOOLEAN]]
        /\ info' = [info EXCEPT ![consume] = Cleared]
    BY <1>2 DEF InputCopy, TypeOK
  <1>5. TypeOK'
    BY <1>1, <1>3, <1>4 DEF InputCopy, TypeOK
  <1>6. owner[p] = "heap" /\ owner' = [owner EXCEPT ![p] = "hand"]
    BY DEF InputCopy, Heap
  <1>7. DmaInBounds'
    BY <1>1, <1>6 DEF InputCopy, DmaInBounds, TypeOK
  <1>8. RingKeepsPbufs'
    BY <1>1, <1>3, <1>6 DEF InputCopy, RingKeepsPbufs, TypeOK
  <1>9. LengthInv'
    <2> SUFFICES ASSUME ~starved', NEW i \in Slots
                 PROVE  len'[rxb'[i]] <= room'[rxb'[i]] /\ (~info'[i].bad => info'[i].len <= size'[i])
      BY DEF LengthInv
    <2>1. ~starved /\ UNCHANGED <<rxb, size>>
      BY DEF InputCopy
    <2>2. rxb[i] \in Pbufs /\ rxb[i] # p /\ rxb[consume] # p
      BY <1>1, <1>6, <2>1 DEF DmaInBounds, TypeOK
    <2>3. ~info'[i].bad => info'[i].len <= size'[i]
      BY <1>2, <1>4, <2>1 DEF LengthInv, TypeOK
    <2>4. room'[rxb[i]] = room[rxb[i]]
      BY <2>2 DEF InputCopy, TypeOK
    <2>5. CASE rxb[i] = rxb[consume]
      <3>1. len'[rxb[i]] = info[consume].len
        BY <2>2, <2>5, <1>1 DEF InputCopy, TypeOK
      <3>2. info[consume].len <= size[consume] /\ size[consume] <= room[rxb[consume]]
        BY <1>1, <2>1 DEF InputCopy, LengthInv, DmaInBounds
      <3>3. size[consume] \in Nat /\ room[rxb[consume]] \in Nat /\ info[consume].len \in Nat
        BY <1>1, Bounds DEF TypeOK
      <3> QED
        BY <2>1, <2>3, <2>4, <2>5, <3>1, <3>2, <3>3
    <2>6. CASE rxb[i] # rxb[consume]
      <3>1. len'[rxb[i]] = len[rxb[i]]
        BY <2>2, <2>6, <1>1 DEF InputCopy, TypeOK
      <3> QED
        BY <2>1, <2>3, <2>4, <3>1 DEF LengthInv
    <2> QED
      BY <2>5, <2>6
  <1> QED
    BY <1>5, <1>7, <1>8, <1>9

\* A descriptor is queued again: its own pbuf, or NULL once memory ran out.
LEMMA RequeueStep ==
  ASSUME RxInv, InputBad \/ InputNoMemory
  PROVE  RxInv'
  <1> USE DEF RxInv
  <1>1. Cleared \in [frame : 0 .. MaxFrames, len : Lens, last : BOOLEAN, bad : BOOLEAN] /\ Cleared.bad
    BY Bounds DEF Cleared
  <1>2. consume \in Slots /\ NextIdx(consume) \in Slots /\ info[consume].len \in Lens
    BY NextIdxType DEF TypeOK
  <1>3. CASE InputBad
    <2>1. /\ rxb' = rxb /\ packet' = [packet EXCEPT ![consume] = rxb[consume]]
          /\ info' = [info EXCEPT ![consume] = Cleared] /\ consume' = NextIdx(consume)
      BY <1>3 DEF InputBad, Requeue, TypeOK
    <2>2. PICK n \in Lens : /\ size' = [size EXCEPT ![consume] = n]
                            /\ rxb[consume] # NoPbuf => n = len[rxb[consume]]
      BY <1>3, <1>2 DEF InputBad, Requeue, TypeOK
    <2>3. UNCHANGED <<owner, room, len, starved, produce, hand>> /\ pc' = "test" /\ pc = "input"
      BY <1>3 DEF InputBad, memVars
    <2>4. TypeOK'
      BY <1>1, <1>2, <1>3, <2>1, <2>2, <2>3 DEF InputBad, TypeOK
    <2>5. DmaInBounds' /\ RingKeepsPbufs' /\ LengthInv'
      BY <1>1, <1>2, <2>1, <2>2, <2>3 DEF DmaInBounds, RingKeepsPbufs, LengthInv, TypeOK
    <2> QED
      BY <2>4, <2>5
  <1>4. CASE InputNoMemory
    <2>1. /\ rxb' = [rxb EXCEPT ![consume] = NoPbuf] /\ packet' = [packet EXCEPT ![consume] = NoPbuf]
          /\ info' = [info EXCEPT ![consume] = Cleared] /\ consume' = NextIdx(consume)
          /\ starved' = TRUE
      BY <1>4 DEF InputNoMemory, Requeue
    <2>2. PICK n \in Lens : size' = [size EXCEPT ![consume] = n]
      BY <1>4 DEF InputNoMemory, Requeue
    <2>3. len' \in [Pbufs -> Lens] /\ pc' \in {"test", "fault"}
      BY <1>2, <1>4 DEF InputNoMemory, TypeOK
    <2>4. TypeOK'
      BY <1>1, <1>2, <1>4, <2>1, <2>2, <2>3 DEF InputNoMemory, TypeOK
    <2>5. DmaInBounds' /\ RingKeepsPbufs' /\ LengthInv'
      BY <2>1 DEF DmaInBounds, RingKeepsPbufs, LengthInv
    <2> QED
      BY <2>4, <2>5
  <1> QED
    BY <1>3, <1>4

\* The small pbuf of a failed copy is queued; only after memory ran out.
LEMMA NoSourceStep == ASSUME RxInv, NEW p \in Pbufs, InputNoSource(p) PROVE RxInv'
  <1> USE DEF RxInv
  <1>1. Cleared \in [frame : 0 .. MaxFrames, len : Lens, last : BOOLEAN, bad : BOOLEAN]
    BY Bounds DEF Cleared
  <1>2. consume \in Slots /\ NextIdx(consume) \in Slots /\ info[consume].len \in Lens
    BY NextIdxType DEF TypeOK
  <1>3. starved /\ starved'
    BY <1>2 DEF InputNoSource, DmaInBounds, TypeOK
  <1>4. TypeOK'
    BY <1>1, <1>2 DEF InputNoSource, TypeOK
  <1> QED
    BY <1>3, <1>4 DEF DmaInBounds, RingKeepsPbufs, LengthInv

\* The reset: every descriptor gets a fresh pbuf, or memory ran out.
LEMMA ResetStep == ASSUME RxInv, InputReset PROVE RxInv'
  <1> USE DEF RxInv
  <1> DEFINE free == {p \in Pbufs : owner[p] = "heap" \/ \E i \in Slots : rxb[i] = p}
             queued(p) == \E i \in Slots : rxb'[i] = p
  <1>1. PICK k \in 0 .. NumRxFrag :
           /\ rxb' \in RequeuedPbufs(free, k)
           /\ consume' = IF k = NumRxFrag THEN 0 ELSE k
           /\ starved' = (starved \/ k < NumRxFrag)
    BY DEF InputReset
  <1>2. /\ rxb' \in [Slots -> free \cup {NoPbuf}]
        /\ \A i \in Slots : rxb'[i] = NoPbuf <=> i >= k
        /\ \A i, j \in Slots : rxb'[i] = rxb'[j] /\ rxb'[i] # NoPbuf => i = j
    BY <1>1 DEF RequeuedPbufs
  <1>3. Cleared \in [frame : 0 .. MaxFrames, len : Lens, last : BOOLEAN, bad : BOOLEAN] /\ Cleared.bad
    BY Bounds DEF Cleared
  <1>4. /\ packet' = [i \in Slots |-> IF rxb'[i] = NoPbuf THEN packet[i] ELSE rxb'[i]]
        /\ size' = [i \in Slots |-> IF rxb'[i] = NoPbuf THEN size[i] ELSE MaxLen]
        /\ info' = [i \in Slots |-> IF rxb'[i] = NoPbuf THEN info[i] ELSE Cleared]
    BY DEF InputReset
  <1>5. /\ owner' = [p \in Pbufs |-> IF queued(p) THEN "ring"
                                    ELSE IF \E i \in Slots : rxb[i] = p THEN "heap" ELSE owner[p]]
        /\ room' = [p \in Pbufs |-> IF queued(p) THEN MaxLen ELSE room[p]]
        /\ len' = [p \in Pbufs |-> IF queued(p) THEN MaxLen ELSE len[p]]
    BY DEF InputReset
  <1>6. pc = "input" /\ pc' = "test" /\ hand' = hand
    BY DEF InputReset
  <1>7. TypeOK'
    <2>1. consume' \in Slots /\ produce' \in Slots
      BY <1>1, Bounds DEF InputReset, Slots
    <2>2. rxb' \in [Slots -> Pbufs \cup {NoPbuf}] /\ packet' \in [Slots -> Pbufs \cup {NoPbuf}]
      BY <1>2, <1>4 DEF TypeOK
    <2>3. size' \in [Slots -> Lens]
      BY <1>4, Bounds DEF TypeOK
    <2>4. info' \in [Slots -> [frame : 0 .. MaxFrames, len : Lens, last : BOOLEAN, bad : BOOLEAN]]
      BY <1>3, <1>4 DEF TypeOK
    <2>5. split' \in [frame : 0 .. MaxFrames, left : 0 .. MaxLen]
      BY DEF InputReset, TypeOK
    <2>6. /\ owner' \in [Pbufs -> {"heap", "ring", "hand", "stack"}]
          /\ room' \in [Pbufs -> Lens] /\ len' \in [Pbufs -> Lens]
      BY <1>5, Bounds DEF TypeOK
    <2>7. starved' \in BOOLEAN
      BY <1>1 DEF TypeOK
    <2> QED
      BY <2>1, <2>2, <2>3, <2>4, <2>5, <2>6, <2>7 DEF InputReset, TypeOK
  <1>8. ASSUME ~starved' PROVE DmaInBounds' /\ RingKeepsPbufs' /\ LengthInv'
    <2>0. ~(k < NumRxFrag) /\ ~starved
      <3>1. starved' = (starved \/ k < NumRxFrag)
        BY <1>1
      <3> QED
        BY <3>1, <1>8, Zenon
    <2>1. k = NumRxFrag /\ ~starved
      BY <2>0
    <2>2. \A i \in Slots : rxb'[i] # NoPbuf /\ rxb'[i] \in free /\ rxb'[i] \in Pbufs
      BY <1>2, <2>1 DEF Slots
    <2>3. \A i \in Slots : packet'[i] = rxb'[i] /\ size'[i] = MaxLen /\ info'[i] = Cleared
      BY <1>4, <2>2
    <2>4. \A i \in Slots : owner'[rxb'[i]] = "ring" /\ room'[rxb'[i]] = MaxLen /\ len'[rxb'[i]] = MaxLen
      BY <1>5, <2>2
    <2>5. DmaInBounds' /\ LengthInv'
      BY <1>3, <2>2, <2>3, <2>4 DEF DmaInBounds, LengthInv
    <2>6. \A p \in Pbufs : owner'[p] = "ring" <=> queued(p)
      BY <1>5, <2>1 DEF RingKeepsPbufs
    <2>7. \A p \in Pbufs : owner'[p] # "hand"
      BY <1>5, <1>6, <2>1 DEF RingKeepsPbufs
    <2>8. RingKeepsPbufs'
      BY <1>2, <1>6, <2>2, <2>6, <2>7 DEF RingKeepsPbufs
    <2> QED
      BY <2>5, <2>8
  <1>9. CASE starved'
    BY <1>7, <1>9 DEF DmaInBounds, RingKeepsPbufs, LengthInv
  <1> QED
    BY <1>7, <1>8, <1>9

\* Every step preserves RxInv.
LEMMA RxStep == RxInv /\ [Next]_vars => RxInv'
  <1> SUFFICES ASSUME RxInv, [Next]_vars PROVE RxInv'
    OBVIOUS
  <1>1. CASE Hw \/ ENET_IRQHandler
    BY <1>1, HwStep
  <1>2. CASE RxWake \/ RxTest
    <2>1. /\ pc \in {"sem", "test"} /\ pc' \in {"sem", "test", "input"} /\ rxSem' \in {0, rxSem}
          /\ UNCHANGED <<produce, consume, intStatus, stalled, packet, size, info, split, frames, rxb,
                         hand, owner, room, len, starved>>
      BY <1>2 DEF RxWake, RxTest, hwVars, memVars
    <2>2. TypeOK'
      BY <2>1 DEF RxInv, TypeOK
    <2>3. DmaInBounds' /\ LengthInv'
      BY <2>1 DEF RxInv, DmaInBounds, LengthInv
    <2>4. RingKeepsPbufs'
      BY <2>1 DEF RxInv, RingKeepsPbufs
    <2> QED
      BY <2>2, <2>3, <2>4 DEF RxInv
  <1>3. CASE Input
    BY <1>3, CopyStep, RequeueStep, NoSourceStep, ResetStep DEF Input
  <1>4. ASSUME NEW taken \in BOOLEAN, Deliver(taken) PROVE RxInv'
    <2>1. TypeOK
      BY DEF RxInv
    <2>2. NoPacket \in [pbuf : Pbufs \cup {NoPbuf}, frame : 0 .. MaxFrames, len : 0 .. MaxLen, last : BOOLEAN]
      BY DEF NoPacket
    <2>3. /\ pc = "deliver" /\ pc' = "test" /\ hand' = NoPacket
          /\ UNCHANGED <<produce, consume, intStatus, stalled, packet, size, info, split, frames, rxb,
                         rxSem, room, len, starved>>
      BY <1>4 DEF Deliver, hwVars
    <2>4. PICK o \in {"stack", "heap"} : owner' = [owner EXCEPT ![hand.pbuf] = o]
      BY <1>4 DEF Deliver
    <2>5. TypeOK'
      BY <2>1, <2>2, <2>3, <2>4 DEF TypeOK
    <2>6. DmaInBounds' /\ RingKeepsPbufs' /\ LengthInv'
      BY <2>1, <2>3, <2>4 DEF RxInv, TypeOK, DmaInBounds, RingKeepsPbufs, LengthInv
    <2> QED
      BY <2>5, <2>6 DEF RxInv
  <1>5. CASE Stack
    <2>1. PICK p \in Pbufs, o \in {"stack", "heap"} :
             /\ owner[p] \in {"heap", "stack"} /\ owner' = [owner EXCEPT ![p] = o]
             /\ UNCHANGED <<hwVars, rxb, rxSem, pc, hand, room, len, starved>>
      BY <1>5 DEF Stack, StackAlloc, StackFree, Heap
    <2> QED
      BY <2>1 DEF RxInv, TypeOK, DmaInBounds, RingKeepsPbufs, LengthInv, hwVars
  <1>6. CASE UNCHANGED vars
    BY <1>6 DEF RxInv, TypeOK, DmaInBounds, RingKeepsPbufs, LengthInv, vars, hwVars, memVars
  <1> QED
    BY <1>1, <1>2, <1>3, <1>4, <1>5, <1>6 DEF Next, RxTask

\* The variables stay in their types: the indices of lpc_rxqueue_pbuf and
\* lpc_low_level_input stay inside the ring.
THEOREM RxTypes == Spec => []TypeOK
  <1>1. RxInv => TypeOK
    BY DEF RxInv
  <1> QED
    BY <1>1, RxInit, RxStep, PTL DEF Spec

\* The receive ring keeps to its memory: until an allocation fails, the EMAC
\* writes inside pbufs that the ring owns.
THEOREM RxMemorySafety == Spec => []DmaInBounds
  <1>1. RxInv => DmaInBounds
    BY DEF RxInv
  <1> QED
    BY <1>1, RxInit, RxStep, PTL DEF Spec

\* Until an allocation fails, every pbuf that lpc_rxqueue_pbuf gave to the ring
\* is in it, once, or with the task that reads it.
THEOREM RxOwnership == Spec => []RingKeepsPbufs
  <1>1. RxInv => RingKeepsPbufs
    BY DEF RxInv
  <1> QED
    BY <1>1, RxInit, RxStep, PTL DEF Spec

-------------------------------------------------------------------------------
(* The order of the frames. *)

\* Slot i lies in the ring interval from a up to, not including, b.
InSpan(a, b, i) == IF a <= b THEN a <= i /\ i < b ELSE a <= i \/ i < b

\* A descriptor or packet x comes before one of the frame f: of the same frame
\* only when x is not the end of its own.
Before(x, f) == IF x.last THEN x.frame < f ELSE x.frame <= f

\* The task's hand, the descriptors from consume to produce, and the rest of a
\* frame that is still being received are in the order of arrival.
HandInv ==
    /\ pc # "deliver" => hand = NoPacket
    /\ pc = "input" => consume # produce
    /\ hand.frame <= frames
SplitInv == split.left > 0 => split.frame \in 1 .. frames /\ Before(hand, split.frame)
SlotInv(i) ==
    /\ info[i].frame \in 1 .. frames
    /\ Before(hand, info[i].frame)
    /\ split.left > 0 => Before(info[i], split.frame)
    /\ \A j \in Slots : InSpan(NextIdx(i), produce, j) => Before(info[i], info[j].frame)
OrderInv == ~starved => HandInv /\ SplitInv /\ \A i \in Filled : SlotInv(i)

\* Arithmetic of the ring: one descriptor more at the end.
LEMMA SpanGrows ==
  ASSUME NEW a \in Slots, NEW b \in Slots, NEW i \in Slots, NextIdx(b) # a
  PROVE  InSpan(a, NextIdx(b), i) <=> InSpan(a, b, i) \/ i = b
  BY DEF InSpan, NextIdx, Slots

\* Arithmetic of the ring: one descriptor less at the front.
LEMMA SpanShrinks ==
  ASSUME NEW a \in Slots, NEW b \in Slots, NEW i \in Slots, a # b
  PROVE  InSpan(NextIdx(a), b, i) <=> InSpan(a, b, i) /\ i # a
  BY DEF InSpan, NextIdx, Slots

\* Arithmetic of the ring: what comes after a slot of an interval is neither the
\* front of the interval nor outside it.
LEMMA SpanAfter ==
  ASSUME NEW a \in Slots, NEW b \in Slots, NEW i \in Slots, NEW j \in Slots,
         InSpan(a, b, i), InSpan(NextIdx(i), b, j)
  PROVE  j # a /\ InSpan(a, b, j)
  BY DEF InSpan, NextIdx, Slots

\* A descriptor is filled with the next frame, or with more of the one that is
\* being received.
LEMMA StoreOrder ==
  ASSUME RxInv, OrderInv, ~starved, ~Full, NEW f \in 1 .. MaxFrames, NEW last \in BOOLEAN,
         produce' = NextIdx(produce), UNCHANGED <<consume, pc, hand, starved>>,
         frames' \in 0 .. MaxFrames, f <= frames', frames <= frames',
         info'[produce].frame = f, info'[produce].last = last,
         \A i \in Slots : i # produce => info'[i] = info[i],
         Before(hand, f), \A i \in Filled : Before(info[i], f),
         split'.left > 0 => split'.frame = f /\ ~last
  PROVE  OrderInv'
  <1> USE DEF RxInv
  <1>1. produce \in Slots /\ consume \in Slots /\ produce' \in Slots /\ NextIdx(produce) # consume
    BY NextIdxType DEF TypeOK, Full
  <1>2. HandInv /\ SplitInv /\ \A i \in Filled : SlotInv(i)
    BY DEF OrderInv
  <1>3. frames \in Nat /\ frames' \in Nat /\ hand.frame \in Nat /\ f \in Nat
    BY DEF TypeOK
  <1>4. HandInv'
    BY <1>1, <1>2, <1>3 DEF HandInv
  <1>5. \A i \in Filled : i \in Slots /\ info[i].frame \in Nat
    BY DEF Filled, TypeOK
  <1>6. SplitInv'
    <2>1. split'.left > 0 => split'.frame = f /\ f \in 1 .. frames'
      BY <1>3
    <2> QED
      BY <2>1 DEF SplitInv, Before
  <1>7. ASSUME NEW i \in Filled' PROVE SlotInv(i)'
    <2>1. i \in Slots /\ (i \in Filled \/ i = produce)
      BY <1>1, <1>7, SpanGrows DEF Filled, InSpan
    <2>2. CASE i = produce
      <3>1. info'[i].frame \in 1 .. frames' /\ Before(hand', info'[i].frame)
        BY <1>3, <2>2 DEF Before
      <3>2. split'.left > 0 => Before(info'[i], split'.frame)
        BY <1>3, <2>2 DEF Before
      <3>3. \A j \in Slots : ~InSpan(NextIdx(i), produce', j)
        BY <1>1, <2>2 DEF InSpan, Slots
      <3> QED
        BY <3>1, <3>2, <3>3 DEF SlotInv
    <2>3. CASE i # produce
      <3>1. i \in Filled /\ info'[i] = info[i] /\ SlotInv(i) /\ Before(info[i], f)
        BY <1>2, <2>1, <2>3
      <3>2. info'[i].frame \in 1 .. frames'
        BY <1>3, <3>1 DEF SlotInv
      <3>3. Before(hand', info'[i].frame)
        BY <3>1 DEF SlotInv, Before
      <3>4. split'.left > 0 => Before(info'[i], split'.frame)
        BY <3>1 DEF Before
      <3>5. ASSUME NEW j \in Slots, InSpan(NextIdx(i), produce', j)
            PROVE  Before(info'[i], info'[j].frame)
        <4>1. CASE j = produce
          BY <3>1, <4>1 DEF Before
        <4>2. CASE j # produce
          <5>1. NextIdx(i) # NextIdx(produce)
            BY <1>1, <2>1, <2>3 DEF NextIdx, Slots
          <5>2. InSpan(NextIdx(i), produce, j)
            BY <1>1, <2>1, <3>5, <4>2, <5>1, NextIdxType, SpanGrows
          <5> QED
            BY <3>1, <4>2, <5>2 DEF SlotInv, Before
        <4> QED
          BY <4>1, <4>2
      <3> QED
        BY <3>2, <3>3, <3>4, <3>5 DEF SlotInv
    <2> QED
      BY <2>2, <2>3
  <1> QED
    BY <1>4, <1>6, <1>7 DEF OrderInv

\* The task is done with the descriptor at RxConsumeIndex; what it holds now
\* comes before the descriptors that are left.
LEMMA ReadOrder ==
  ASSUME RxInv, OrderInv, ~starved, pc = "input", consume' = NextIdx(consume),
         UNCHANGED <<produce, split, frames>>,
         \A i \in Slots : i # consume => info'[i] = info[i],
         \/ hand' = hand /\ pc' = "test"
         \/ /\ pc' = "deliver" /\ hand'.frame = info[consume].frame
            /\ hand'.last = info[consume].last
  PROVE  OrderInv'
  <1> USE DEF RxInv
  <1>1. HandInv /\ SplitInv /\ \A i \in Filled : SlotInv(i)
    BY DEF OrderInv
  <1>2. produce \in Slots /\ consume \in Slots /\ consume' \in Slots /\ consume # produce
    BY <1>1, NextIdxType DEF TypeOK, HandInv
  <1>3. consume \in Filled
    BY <1>2 DEF Filled, Slots
  <1>4. \A i \in Filled' : i \in Filled /\ i \in Slots /\ i # consume /\ InSpan(NextIdx(consume), produce, i)
    BY <1>2, SpanShrinks DEF Filled, InSpan
  <1>5. frames \in Nat /\ info[consume].frame \in Nat
    BY <1>2 DEF TypeOK
  <1>6. hand' = hand \/ SlotInv(consume)
    BY <1>1, <1>3
  <1>7. HandInv'
    BY <1>1, <1>3, <1>5 DEF HandInv, SlotInv
  <1>8. SplitInv'
    BY <1>1, <1>3, <1>5 DEF SplitInv, SlotInv, Before
  <1>9. ASSUME NEW i \in Filled' PROVE SlotInv(i)'
    <2>1. SlotInv(i) /\ SlotInv(consume) /\ info'[i] = info[i] /\ i \in Slots
      BY <1>1, <1>3, <1>4, <1>9
    <2>2. Before(hand', info'[i].frame)
      BY <1>4, <1>9, <2>1 DEF SlotInv, Before
    <2>3. ASSUME NEW j \in Slots, InSpan(NextIdx(i), produce, j)
          PROVE  Before(info'[i], info'[j].frame)
      <3>1. InSpan(consume, produce, i)
        BY <1>4, <1>9, <2>1 DEF Filled, InSpan
      <3>2. info'[j] = info[j]
        BY <1>2, <2>1, <2>3, <3>1, SpanAfter
      <3> QED
        BY <2>1, <2>3, <3>2 DEF SlotInv, Before
    <2> QED
      BY <2>1, <2>2, <2>3 DEF SlotInv, Before
  <1> QED
    BY <1>7, <1>8, <1>9 DEF OrderInv

\* Every step preserves OrderInv.
LEMMA OrderStep == RxInv /\ OrderInv /\ [Next]_vars => OrderInv'
  <1> SUFFICES ASSUME RxInv, OrderInv, [Next]_vars, ~starved' PROVE OrderInv'
    BY DEF OrderInv
  <1>0. TypeOK /\ DmaInBounds
    BY DEF RxInv
  <1> USE <1>0
  <1>1. ~starved
    BY DEF Next, Hw, HwReceive, HwContinue, HwNoDescriptor, HwOverrun, ENET_IRQHandler, RxTask, RxWake,
           RxTest, Input, InputReset, InputBad, InputNoMemory, InputCopy, InputNoSource, Deliver, Stack,
           StackAlloc, StackFree, vars, TypeOK
  <1>2. HandInv /\ SplitInv /\ \A i \in Filled : SlotInv(i)
    BY <1>1 DEF OrderInv
  <1>3. ASSUME NEW n \in Lens, NEW bad \in BOOLEAN, HwReceive(n, bad) PROVE OrderInv'
    <2>1. /\ ~Full /\ split.left = 0 /\ frames < MaxFrames /\ frames' = frames + 1
          /\ UNCHANGED <<consume, pc, hand, starved>> /\ produce' = NextIdx(produce)
      BY <1>3 DEF HwReceive, Store
    <2>2. frames' \in 1 .. MaxFrames /\ frames' \in 0 .. MaxFrames /\ frames \in Nat /\ hand.frame \in Nat
          /\ frames <= frames' /\ frames' <= frames'
      BY <2>1 DEF TypeOK
    <2>3. Before(hand, frames') /\ \A i \in Filled : Before(info[i], frames')
      <3>1. \A i \in Filled : info[i].frame <= frames /\ info[i].frame \in Nat
        BY <1>2, <2>2 DEF SlotInv
      <3> QED
        BY <1>2, <2>1, <2>2, <3>1 DEF HandInv, Before
    <2>4. PICK m \in Lens, last \in BOOLEAN, b \in BOOLEAN :
             /\ info' = [info EXCEPT ![produce] = [frame |-> frames', len |-> m, last |-> last, bad |-> b]]
             /\ split'.left > 0 => split'.frame = frames' /\ ~last
      <3>1. CASE n <= size[produce]
        <4>1. info' = [info EXCEPT ![produce] = [frame |-> frames', len |-> n, last |-> TRUE, bad |-> bad]]
              /\ ~(split'.left > 0)
          BY <1>3, <2>1, <3>1 DEF HwReceive, Store
        <4> QED
          BY <4>1
      <3>2. CASE ~(n <= size[produce])
        <4>1. info' = [info EXCEPT ![produce] = [frame |-> frames', len |-> size[produce], last |-> FALSE, bad |-> FALSE]]
              /\ split'.frame = frames'
          BY <1>3, <3>2 DEF HwReceive, Store
        <4>2. size[produce] \in Lens
          BY DEF TypeOK
        <4> QED
          BY <4>1, <4>2
      <3> QED
        BY <3>1, <3>2
    <2>5. /\ info'[produce].frame = frames' /\ info'[produce].last = last
          /\ \A i \in Slots : i # produce => info'[i] = info[i]
      BY <2>4 DEF TypeOK
    <2> QED
      BY <1>1, <2>1, <2>2, <2>3, <2>4, <2>5, StoreOrder
  <1>4. CASE HwContinue
    <2>1. /\ ~Full /\ split.left > 0 /\ frames' = frames
          /\ UNCHANGED <<consume, pc, hand, starved>> /\ produce' = NextIdx(produce)
      BY <1>4 DEF HwContinue, Store
    <2>2. split.frame \in 1 .. frames /\ frames \in 0 .. MaxFrames /\ Before(hand, split.frame)
      BY <1>2, <2>1 DEF SplitInv, TypeOK
    <2>3. \A i \in Filled : Before(info[i], split.frame)
      BY <1>2, <2>1 DEF SlotInv
    <2> DEFINE m == IF split.left <= size[produce] THEN split.left ELSE size[produce]
               last == m = split.left
    <2>4. /\ info' = [info EXCEPT ![produce] = [frame |-> split.frame, len |-> m, last |-> last, bad |-> FALSE]]
          /\ split' = [split EXCEPT !.left = @ - m]
      BY <1>4 DEF HwContinue, Store
    <2>5. split'.left > 0 => split'.frame = split.frame /\ ~last
      BY <2>4 DEF TypeOK
    <2>6. /\ info'[produce].frame = split.frame /\ info'[produce].last = last
          /\ \A i \in Slots : i # produce => info'[i] = info[i]
      BY <2>4 DEF TypeOK
    <2>7. last \in BOOLEAN /\ split.frame \in 1 .. MaxFrames /\ split.frame <= frames' /\ frames <= frames'
          /\ frames' \in 0 .. MaxFrames
      BY <2>1, <2>2
    <2> HIDE DEF m, last
    <2> QED
      BY <1>1, <2>1, <2>2, <2>3, <2>5, <2>6, <2>7, StoreOrder
  <1>5. CASE HwNoDescriptor \/ HwOverrun
    <2>1. /\ UNCHANGED <<produce, consume, info, pc, hand, starved>>
          /\ frames' \in {frames, frames + 1} /\ frames \in Nat /\ hand.frame \in Nat
      BY <1>5 DEF HwNoDescriptor, HwOverrun, TypeOK
    <2>2. split'.left > 0 => split' = split
      BY <1>5 DEF HwNoDescriptor, HwOverrun, TypeOK
    <2>3. HandInv'
      BY <1>2, <2>1 DEF HandInv
    <2>4. SplitInv'
      BY <1>2, <2>1, <2>2 DEF SplitInv, Before
    <2>5. ASSUME NEW i \in Filled' PROVE SlotInv(i)'
      <3>1. i \in Filled /\ SlotInv(i)
        BY <1>2, <2>1, <2>5 DEF Filled
      <3> QED
        BY <2>1, <2>2, <3>1 DEF SlotInv, Before
    <2> QED
      BY <2>3, <2>4, <2>5 DEF OrderInv
  <1>6. CASE InputReset
    <2>1. produce' = 0 /\ consume' = 0
      <3>1. PICK k \in 0 .. NumRxFrag : /\ consume' = IF k = NumRxFrag THEN 0 ELSE k
                                        /\ starved' = (starved \/ k < NumRxFrag)
        BY <1>6 DEF InputReset
      <3>2. ~(k < NumRxFrag)
        BY <3>1, Zenon
      <3>3. k = NumRxFrag
        BY <3>2
      <3> QED
        BY <1>6, <3>1, <3>3 DEF InputReset
    <2>2. pc' = "test" /\ hand' = hand /\ pc = "input" /\ ~(split'.left > 0) /\ frames' = frames
      BY <1>6 DEF InputReset, TypeOK
    <2> QED
      BY <1>2, <2>1, <2>2 DEF OrderInv, HandInv, SplitInv, Filled, Slots
  <1>7. CASE InputBad
    <2>1. /\ pc = "input" /\ pc' = "test" /\ consume' = NextIdx(consume)
          /\ UNCHANGED <<produce, split, frames, hand>> /\ info' = [info EXCEPT ![consume] = Cleared]
      BY <1>7 DEF InputBad, Requeue
    <2>2. \A i \in Slots : i # consume => info'[i] = info[i]
      BY <2>1 DEF TypeOK
    <2> QED
      BY <1>1, <2>1, <2>2, ReadOrder
  <1>8. ASSUME NEW p \in Pbufs, InputCopy(p) PROVE OrderInv'
    <2>1. /\ pc = "input" /\ pc' = "deliver" /\ consume' = NextIdx(consume)
          /\ UNCHANGED <<produce, split, frames>> /\ info' = [info EXCEPT ![consume] = Cleared]
          /\ hand'.frame = info[consume].frame /\ hand'.last = info[consume].last
      BY <1>8 DEF InputCopy
    <2>2. \A i \in Slots : i # consume => info'[i] = info[i]
      BY <2>1 DEF TypeOK
    <2> QED
      BY <1>1, <2>1, <2>2, ReadOrder
  <1>9. CASE InputNoMemory
    BY <1>9 DEF InputNoMemory
  <1>10. ASSUME NEW p \in Pbufs, InputNoSource(p) PROVE OrderInv'
    BY <1>1, <1>10 DEF InputNoSource, DmaInBounds, TypeOK
  <1>11. ASSUME UNCHANGED <<produce, consume, info, split, frames>>, HandInv', hand' \in {hand, NoPacket}
         PROVE  OrderInv'
    <2>1. frames \in Nat
      BY DEF TypeOK
    <2>2. \A f \in 1 .. frames : Before(hand, f) => Before(hand', f)
      BY <1>11, <2>1 DEF Before, NoPacket
    <2>3. SplitInv'
      BY <1>2, <1>11, <2>2 DEF SplitInv
    <2>4. ASSUME NEW i \in Filled' PROVE SlotInv(i)'
      <3>1. SlotInv(i)
        BY <1>2, <1>11, <2>4 DEF Filled
      <3> QED
        BY <1>11, <2>2, <3>1 DEF SlotInv, Before
    <2> QED
      BY <1>11, <2>3, <2>4 DEF OrderInv
  <1>12. CASE RxWake \/ RxTest
    <2>1. UNCHANGED <<produce, consume, info, split, frames, hand>>
      BY <1>12 DEF RxWake, RxTest, hwVars
    <2>2. pc' \in {"sem", "test", "input"} /\ pc # "deliver" /\ (pc' = "input" => consume # produce)
      BY <1>12 DEF RxWake, RxTest, IsRxEmpty
    <2> QED
      BY <1>2, <1>11, <2>1, <2>2 DEF HandInv
  <1>13. ASSUME NEW taken \in BOOLEAN, Deliver(taken) PROVE OrderInv'
    <2>1. UNCHANGED <<produce, consume, info, split, frames>> /\ hand' = NoPacket /\ pc' = "test"
      BY <1>13 DEF Deliver, hwVars
    <2>2. HandInv'
      BY <2>1 DEF HandInv, NoPacket, TypeOK
    <2> QED
      BY <1>11, <2>1, <2>2
  <1>14. CASE ENET_IRQHandler \/ Stack \/ UNCHANGED vars
    <2>1. UNCHANGED <<produce, consume, info, split, frames, hand, pc>>
      BY <1>14 DEF ENET_IRQHandler, Stack, StackAlloc, StackFree, vars, hwVars
    <2> QED
      BY <1>2, <1>11, <2>1 DEF HandInv
  <1> QED
    BY <1>3, <1>4, <1>5, <1>6, <1>7, <1>8, <1>9, <1>10, <1>12, <1>13, <1>14
       DEF Next, Hw, RxTask, Input

\* Until an allocation fails, frames leave the ring in the order in which they
\* came: what is in the task's hand and in the descriptors behind
\* RxConsumeIndex grows with the distance from it.
THEOREM RxOrder == Spec => []InOrder
  <1>1. Init => OrderInv
    BY DEF Init, OrderInv, HandInv, SplitInv, Filled, Slots, NoPacket
  <1>2. RxInv /\ OrderInv => InOrder
    <2> SUFFICES ASSUME RxInv, OrderInv, ~starved, NEW i \in Filled
                 PROVE  /\ info[i].frame >= 1
                        /\ Before(hand, info[i].frame)
                        /\ NextIdx(i) \in Filled => Before(info[i], info[NextIdx(i)].frame)
      BY DEF InOrder, Before
    <2>1. SlotInv(i) /\ i \in Slots /\ TypeOK
      BY DEF OrderInv, RxInv, Filled
    <2>2. info[i].frame >= 1
      BY <2>1 DEF SlotInv, TypeOK
    <2>3. ASSUME NextIdx(i) \in Filled PROVE InSpan(NextIdx(i), produce, NextIdx(i))
      BY <2>1, <2>3 DEF Filled, InSpan, Slots, TypeOK
    <2>4. NextIdx(i) \in Slots
      BY <2>1, NextIdxType
    <2> QED
      BY <2>1, <2>2, <2>3, <2>4 DEF SlotInv
  <1> QED
    BY <1>1, <1>2, RxInit, RxStep, OrderStep, PTL DEF Spec

===============================================================================

----------------------------- MODULE EmacTxProofs -----------------------------
(***************************************************************************)
(* Proofs about EmacTx for every ring size, every set of pbufs and every   *)
(* chain length.  RefInv is inductive whatever happens to the ring; the    *)
(* parts of RingInv say what an unspoiled ring looks like and are          *)
(* inductive relative to it.                                               *)
(***************************************************************************)
EXTENDS EmacTx, TLAPS

USE NumTxFragAssumption, PbufAssumption, MaxFragAssumption, TxErrorsAssumption

-------------------------------------------------------------------------------
(* References. *)

\* The mutex is held exactly in the two critical sections.
MutexInv ==
    /\ mutex = "output" <=> outPc = "write"
    /\ mutex = "clean" <=> cleanPc = "reclaim"

\* During an output call the stack keeps its reference, nobody else has one
\* before pbuf_ref, and the pbuf is in no slot before its last descriptor.
OutInv ==
    outPc # "idle" =>
        /\ outP \in Pbufs
        /\ outDn \in 1 .. MaxFrag
        /\ stackHolds[outP]
        /\ outPc # "write" => ref[outP] = 1
        /\ \A i \in Slots : txb[i] # outP

RefInv == TypeOK /\ MutexInv /\ OutInv /\ TxbUnique /\ RefsCovered

\* NextIdx stays in the ring.
LEMMA NextIdxType == \A i \in Slots : NextIdx(i) \in Slots
  BY DEF NextIdx, Slots

\* The initial state satisfies RefInv.
LEMMA RefInit == Init => RefInv
  <1> SUFFICES ASSUME Init PROVE RefInv
    OBVIOUS
  <1>1. TypeOK
    <2>1. desc \in [Slots -> [frame : Pbufs \cup {NoPbuf}, last : BOOLEAN]]
      BY DEF Init
    <2>2. produce \in Slots /\ consume \in Slots /\ lasttxidx \in Slots /\ outIdx \in Slots
      BY DEF Init, Slots
    <2>3. xtxCount \in 0 .. NumTxFrag /\ outDn \in 0 .. MaxFrag
      BY DEF Init
    <2>4. txb \in [Slots -> Pbufs \cup {NoPbuf}] /\ ref \in [Pbufs -> 0 .. 2] /\ stackHolds \in [Pbufs -> BOOLEAN]
      BY DEF Init
    <2> QED
      BY <2>1, <2>2, <2>3, <2>4 DEF Init, TypeOK, OutPcs, CleanPcs
  <1>2. MutexInv /\ OutInv /\ TxbUnique
    BY DEF Init, MutexInv, OutInv, TxbUnique
  <1>3. RefsCovered
    BY DEF Init, RefsCovered, DriverHolds, Writing, Count
  <1> QED
    BY <1>1, <1>2, <1>3 DEF RefInv

\* pbuf_free of some slots: each pbuf found there loses one reference, the
\* driver's, and is in no slot any more.
LEMMA FreeKeepsRefs ==
  ASSUME RefInv, NEW S \in SUBSET Slots,
         ref' = FreeSlots(S), txb' = ClearSlots(S), UNCHANGED <<outVars, stackHolds>>
  PROVE  /\ ref' \in [Pbufs -> 0 .. 2]
         /\ txb' \in [Slots -> Pbufs \cup {NoPbuf}]
         /\ OutInv' /\ TxbUnique' /\ RefsCovered'
  <1>1. \A p \in Pbufs : (\E i \in S : txb[i] = p) => ref[p] >= 1 /\ DriverHolds(p)
    BY DEF RefInv, RefsCovered, DriverHolds, Count, TypeOK
  <1>2. ref' \in [Pbufs -> 0 .. 2]
    BY <1>1 DEF FreeSlots, RefInv, TypeOK
  <1>3. txb' \in [Slots -> Pbufs \cup {NoPbuf}]
    BY DEF ClearSlots, RefInv, TypeOK
  <1>4. OutInv' /\ TxbUnique'
    BY DEF FreeSlots, ClearSlots, RefInv, OutInv, TxbUnique, outVars, TypeOK
  <1>5. \A p \in Pbufs : DriverHolds(p)' => DriverHolds(p) /\ ~ \E i \in S : txb[i] = p
    BY DEF ClearSlots, DriverHolds, Writing, RefInv, OutInv, TxbUnique, outVars, TypeOK
  <1>6. RefsCovered'
    BY <1>1, <1>5 DEF RefInv, RefsCovered, Count, FreeSlots, TypeOK
  <1> QED
    BY <1>2, <1>3, <1>4, <1>6

\* Every step preserves RefInv.  What a case has to say is in its own proof:
\* what the action does to the references, the slots and the output call.
LEMMA RefStep == RefInv /\ [Next]_vars => RefInv'
  <1> SUFFICES ASSUME RefInv, [Next]_vars PROVE RefInv'
    OBVIOUS
  <1> USE DEF RefInv
  <1>1. ASSUME NEW p \in Pbufs, StackAlloc(p) PROVE RefInv'
    <2>1. TypeOK'
      BY <1>1 DEF StackAlloc, TypeOK, hwVars, drvVars, outVars
    <2>2. MutexInv' /\ OutInv' /\ TxbUnique'
      BY <1>1 DEF StackAlloc, MutexInv, OutInv, TxbUnique, drvVars, outVars
    <2>3. RefsCovered'
      BY <1>1 DEF StackAlloc, RefsCovered, DriverHolds, Writing, Count, TypeOK, drvVars, outVars
    <2> QED
      BY <2>1, <2>2, <2>3
  <1>2. ASSUME NEW p \in Pbufs, StackFree(p) PROVE RefInv'
    <2>1. ref[p] \in 1 .. 2
      BY <1>2 DEF StackFree, RefsCovered, Count, TypeOK
    <2>2. TypeOK'
      BY <1>2, <2>1 DEF StackFree, TypeOK, hwVars, drvVars, outVars
    <2>3. MutexInv' /\ OutInv' /\ TxbUnique'
      BY <1>2 DEF StackFree, MutexInv, OutInv, TxbUnique, drvVars, outVars
    <2>4. RefsCovered'
      BY <1>2 DEF StackFree, RefsCovered, DriverHolds, Writing, Count, TypeOK, drvVars, outVars
    <2> QED
      BY <2>2, <2>3, <2>4
  <1>3. ASSUME NEW p \in Pbufs, NEW dn \in 1 .. MaxFrag, Output(p, dn) PROVE RefInv'
    <2>1. TypeOK'
      BY <1>3 DEF Output, TypeOK, OutPcs, hwVars, drvVars, pbufVars
    <2>2. \A i \in Slots : txb[i] # p
      BY <1>3 DEF Output, RefsCovered, DriverHolds, Count
    <2>3. MutexInv' /\ OutInv' /\ TxbUnique'
      BY <1>3, <2>2 DEF Output, MutexInv, OutInv, TxbUnique, drvVars, pbufVars
    <2>4. RefsCovered'
      BY <1>3 DEF Output, RefsCovered, DriverHolds, Writing, Count, drvVars, pbufVars
    <2> QED
      BY <2>1, <2>3, <2>4
  <1>4. ASSUME TestReady \/ WaitDescriptor \/ ReadIndex PROVE RefInv'
    <2>1. TypeOK'
      <3>1. CASE TestReady
        BY <3>1 DEF TestReady, TypeOK, OutPcs, hwVars, drvVars, pbufVars
      <3>2. CASE WaitDescriptor
        BY <3>2 DEF WaitDescriptor, TypeOK, OutPcs, hwVars, pbufVars
      <3>3. CASE ReadIndex
        BY <3>3 DEF ReadIndex, TypeOK, OutPcs, hwVars, drvVars, pbufVars
      <3> QED
        BY <1>4, <3>1, <3>2, <3>3
    <2>2. MutexInv' /\ OutInv' /\ TxbUnique'
      BY <1>4 DEF TestReady, WaitDescriptor, ReadIndex, MutexInv, OutInv, TxbUnique, drvVars, pbufVars
    <2>3. RefsCovered'
      BY <1>4 DEF TestReady, WaitDescriptor, ReadIndex, RefsCovered, DriverHolds, Writing, Count,
                  drvVars, pbufVars
    <2> QED
      BY <2>1, <2>2, <2>3
  <1>5. CASE LockRing
    <2>1. outP \in Pbufs /\ ref[outP] = 1 /\ stackHolds[outP] /\ \A i \in Slots : txb[i] # outP
      BY <1>5 DEF LockRing, OutInv
    <2>2. TypeOK'
      BY <1>5, <2>1 DEF LockRing, TypeOK, OutPcs, hwVars
    <2>3. MutexInv' /\ OutInv' /\ TxbUnique'
      BY <1>5, <2>1 DEF LockRing, MutexInv, OutInv, TxbUnique
    <2>4. RefsCovered'
      BY <1>5, <2>1 DEF LockRing, RefsCovered, DriverHolds, Writing, Count, TypeOK
    <2> QED
      BY <2>2, <2>3, <2>4
  <1>6. CASE WriteFrag
    <2>1. outP \in Pbufs /\ outDn \in 1 .. MaxFrag /\ stackHolds[outP] /\ \A i \in Slots : txb[i] # outP
      BY <1>6 DEF WriteFrag, OutInv
    <2>2. NextIdx(outIdx) \in Slots /\ 0 \in Slots
      BY NextIdxType DEF TypeOK, Slots
    <2>3. Descriptor \in [frame : Pbufs \cup {NoPbuf}, last : BOOLEAN] /\ SavedPbuf \in Pbufs \cup {NoPbuf}
      BY <2>1 DEF Descriptor, SavedPbuf
    <2>4. TypeOK'
      BY <1>6, <2>1, <2>2, <2>3 DEF WriteFrag, TypeOK, OutPcs, pbufVars
    <2>5. MutexInv'
      BY <1>6 DEF WriteFrag, MutexInv
    <2>6. OutInv' /\ TxbUnique'
      BY <1>6, <2>1 DEF WriteFrag, OutInv, TxbUnique, SavedPbuf, TypeOK, pbufVars
    <2>7. \A p \in Pbufs : DriverHolds(p)' => DriverHolds(p)
      BY <1>6, <2>1 DEF WriteFrag, DriverHolds, Writing, SavedPbuf, TypeOK
    <2>8. RefsCovered'
      BY <1>6, <2>7 DEF WriteFrag, RefsCovered, Count, TypeOK, pbufVars
    <2> QED
      BY <2>4, <2>5, <2>6, <2>8
  <1>7. ASSUME CleanWake \/ CleanStatus \/ ReclaimLock \/ ReclaimDone PROVE RefInv'
    <2>1. TypeOK'
      BY <1>7 DEF CleanWake, CleanStatus, ReclaimLock, ReclaimDone, TypeOK, CleanPcs, hwVars, drvVars,
                  outVars, pbufVars
    <2>2. MutexInv' /\ OutInv' /\ TxbUnique'
      BY <1>7 DEF CleanWake, CleanStatus, ReclaimLock, ReclaimDone, MutexInv, OutInv, TxbUnique,
                  drvVars, outVars, pbufVars
    <2>3. RefsCovered'
      BY <1>7 DEF CleanWake, CleanStatus, ReclaimLock, ReclaimDone, RefsCovered, DriverHolds, Writing,
                  Count, drvVars, outVars, pbufVars
    <2> QED
      BY <2>1, <2>2, <2>3
  <1>8. CASE ResetTx
    <2>1. Slots \subseteq Slots /\ 0 \in Slots
      BY DEF Slots
    <2>2. ref' = FreeSlots(Slots) /\ txb' = ClearSlots(Slots) /\ UNCHANGED <<outVars, stackHolds>>
      BY <1>8 DEF ResetTx
    <2>3. /\ ref' \in [Pbufs -> 0 .. 2] /\ txb' \in [Slots -> Pbufs \cup {NoPbuf}]
          /\ OutInv' /\ TxbUnique' /\ RefsCovered'
      BY <2>1, <2>2, FreeKeepsRefs
    <2>4. desc' \in [Slots -> [frame : Pbufs \cup {NoPbuf}, last : BOOLEAN]]
      BY <1>8 DEF ResetTx, TypeOK
    <2>5. TypeOK'
      BY <1>8, <2>1, <2>3, <2>4 DEF ResetTx, TypeOK, CleanPcs, outVars
    <2>6. MutexInv'
      BY <1>8 DEF ResetTx, MutexInv, outVars
    <2> QED
      BY <2>3, <2>5, <2>6
  <1>9. CASE ReclaimOne
    <2>1. {lasttxidx} \subseteq Slots /\ NextIdx(lasttxidx) \in Slots
      BY NextIdxType DEF TypeOK
    <2>2. ref' = FreeSlots({lasttxidx}) /\ txb' = ClearSlots({lasttxidx}) /\ UNCHANGED <<outVars, stackHolds>>
      BY <1>9 DEF ReclaimOne
    <2>3. /\ ref' \in [Pbufs -> 0 .. 2] /\ txb' \in [Slots -> Pbufs \cup {NoPbuf}]
          /\ OutInv' /\ TxbUnique' /\ RefsCovered'
      BY <2>1, <2>2, FreeKeepsRefs
    <2>4. xtxCount' \in 0 .. NumTxFrag
      BY <1>9 DEF ReclaimOne, XtxSignalled, TypeOK
    <2>5. TypeOK'
      BY <1>9, <2>1, <2>3, <2>4 DEF ReclaimOne, TypeOK, hwVars, outVars
    <2>6. MutexInv'
      BY <1>9 DEF ReclaimOne, MutexInv, outVars
    <2> QED
      BY <2>3, <2>5, <2>6
  <1>10. ASSUME Hw \/ ENET_IRQHandler PROVE RefInv'
    <2>1. NextIdx(consume) \in Slots
      BY NextIdxType DEF TypeOK
    <2>2. TypeOK'
      BY <1>10, <2>1 DEF Hw, HwSend, HwUnderrun, ENET_IRQHandler, TypeOK, drvVars, outVars, pbufVars
    <2>3. MutexInv' /\ OutInv' /\ TxbUnique'
      BY <1>10 DEF Hw, HwSend, HwUnderrun, ENET_IRQHandler, MutexInv, OutInv, TxbUnique, drvVars,
                   outVars, pbufVars
    <2>4. RefsCovered'
      BY <1>10 DEF Hw, HwSend, HwUnderrun, ENET_IRQHandler, RefsCovered, DriverHolds, Writing, Count,
                   drvVars, outVars, pbufVars
    <2> QED
      BY <2>2, <2>3, <2>4
  <1>11. CASE UNCHANGED vars
    BY <1>11 DEF vars, hwVars, drvVars, outVars, pbufVars, TypeOK, MutexInv, OutInv, TxbUnique,
                 RefsCovered, DriverHolds, Writing, Count
  <1> QED
    BY <1>1, <1>2, <1>3, <1>4, <1>5, <1>6, <1>7, <1>8, <1>9, <1>10, <1>11
       DEF Next, Stack, OutStep, CleanStep

\* The variables stay in their types: the indices of lpc_tx_reclaim and of
\* lpc_low_level_output stay inside the ring, whatever it went through.
THEOREM TxTypes == Spec => []TypeOK
  <1>1. RefInv => TypeOK
    BY DEF RefInv
  <1> QED
    BY <1>1, RefInit, RefStep, PTL DEF Spec

\* References: in every reachable state, whatever the ring went through, the
\* cleanup task's pbuf_free and the stack's leave each other's reference alone.
THEOREM RefSafety == Spec => []RefsCovered
  <1>1. RefInv => RefsCovered
    BY DEF RefInv
  <1> QED
    BY <1>1, RefInit, RefStep, PTL DEF Spec

\* Slots: in every reachable state no pbuf waits in two slots of txb, so
\* lpc_tx_reclaim frees each frame at most once.
THEOREM SlotSafety == Spec => []TxbUnique
  <1>1. RefInv => TxbUnique
    BY DEF RefInv
  <1> QED
    BY <1>1, RefInit, RefStep, PTL DEF Spec

-------------------------------------------------------------------------------
(* The unspoiled ring. *)

\* Going round the ring: lasttxidx, TxConsumeIndex, TxProduceIndex.
RingOrder == consume = produce \/ InSpan(lasttxidx, produce, consume)

\* Nothing is left to free outside lasttxidx .. TxProduceIndex.
EmptyOutside == \A i \in Slots : ~InSpan(lasttxidx, produce, i) => txb[i] = NoPbuf

\* The frame of a pending descriptor is being written, or is kept by a slot
\* that the EMAC has not passed: the one of its last descriptor.
Kept(i) ==
    /\ desc[i].frame \in Pbufs
    /\ \/ Writing(desc[i].frame)
       \/ \E j \in Slots : InSpan(i, produce, j) /\ txb[j] = desc[i].frame

RingInv ==
    /\ ~spoiled => RingOrder
    /\ ~spoiled => EmptyOutside
    /\ ~spoiled => \A i \in Pending : Kept(i)

\* Arithmetic of the ring: one descriptor more at the end.
LEMMA SpanGrows ==
  ASSUME NEW a \in Slots, NEW b \in Slots, NEW i \in Slots, NextIdx(b) # a
  PROVE  InSpan(a, NextIdx(b), i) <=> InSpan(a, b, i) \/ i = b
  BY DEF InSpan, NextIdx, Slots

\* Arithmetic of the ring: one descriptor less at the front.
LEMMA SpanShrinks ==
  ASSUME NEW a \in Slots, NEW b \in Slots, NEW i \in Slots, a # b
  PROVE  InSpan(NextIdx(a), b, i) <=> InSpan(a, b, i) /\ i # a
  BY DEF InSpan, NextIdx, Slots

\* Arithmetic of the ring: intervals with a common end are nested.
LEMMA SpanNested ==
  ASSUME NEW a \in Slots, NEW b \in Slots, NEW c \in Slots, NEW i \in Slots,
         InSpan(a, b, c), InSpan(c, b, i)
  PROVE  InSpan(a, b, i)
  BY DEF InSpan, Slots

\* Arithmetic of the ring: the front of a longer interval is not in a shorter
\* one with the same end.
LEMMA SpanFront ==
  ASSUME NEW a \in Slots, NEW b \in Slots, NEW c \in Slots, InSpan(a, b, c), c # a
  PROVE  ~InSpan(c, b, a)
  BY DEF InSpan, Slots

\* The initial ring is empty.
LEMMA RingInit == Init => RingInv
  BY DEF Init, RingInv, RingOrder, EmptyOutside, Pending, InSpan, Slots

\* Every step preserves RingInv.
LEMMA RingStep == RefInv /\ RingInv /\ [Next]_vars => RingInv'
  <1> SUFFICES ASSUME RefInv, RingInv, [Next]_vars, ~spoiled' PROVE RingInv'
    BY DEF RingInv
  <1>0. TypeOK
    BY DEF RefInv
  <1> USE <1>0
  <1> SUFFICES RingOrder' /\ EmptyOutside' /\ \A i \in Pending' : Kept(i)'
    BY DEF RingInv
  <1>1. ~spoiled
    BY DEF Next, Stack, OutStep, CleanStep, Hw, StackAlloc, StackFree, Output, TestReady,
           WaitDescriptor, ReadIndex, LockRing, WriteFrag, CleanWake, CleanStatus, ResetTx,
           ReclaimLock, ReclaimOne, ReclaimDone, HwSend, HwUnderrun, ENET_IRQHandler, vars, TypeOK
  <1>2. RingOrder /\ EmptyOutside /\ \A i \in Pending : Kept(i)
    BY <1>1 DEF RingInv
  <1>3. ASSUME UNCHANGED <<produce, consume, lasttxidx, txb, desc>>,
               \A p \in Pbufs : Writing(p) => Writing(p)'
        PROVE  RingOrder' /\ EmptyOutside' /\ \A i \in Pending' : Kept(i)'
    BY <1>2, <1>3 DEF RingOrder, EmptyOutside, Pending, Kept
  <1>4. CASE WriteFrag
    <2>1. /\ outIdx = produce /\ NextIdx(produce) # lasttxidx
          /\ produce' = NextIdx(produce) /\ UNCHANGED <<consume, lasttxidx>>
          /\ desc' = [desc EXCEPT ![produce] = Descriptor]
          /\ txb' = [txb EXCEPT ![produce] = SavedPbuf]
      BY <1>4 DEF WriteFrag, TypeOK
    <2>2. outP \in Pbufs /\ outDn \in 1 .. MaxFrag /\ outPc = "write"
      BY <1>4 DEF WriteFrag, RefInv, OutInv
    <2>3. produce \in Slots /\ consume \in Slots /\ lasttxidx \in Slots /\ produce' \in Slots
      BY <2>1, NextIdxType DEF TypeOK
    <2>4. \A i \in Slots : InSpan(lasttxidx, produce', i) <=> InSpan(lasttxidx, produce, i) \/ i = produce
      BY <2>1, <2>3, SpanGrows
    <2>5. NextIdx(produce) # consume
      BY <1>2, <2>1, <2>3 DEF RingOrder, InSpan, NextIdx, Slots
    <2>6. RingOrder'
      BY <1>2, <2>1, <2>3, <2>4 DEF RingOrder
    <2>7. EmptyOutside'
      BY <1>2, <2>1, <2>4 DEF EmptyOutside, TypeOK
    <2>8. ASSUME NEW i \in Pending' PROVE Kept(i)'
      <3>1. i \in Slots /\ (i \in Pending \/ i = produce)
        BY <2>1, <2>3, <2>5, <2>8, SpanGrows DEF Pending
      <3>2. CASE i = produce
        <4>1. desc'[i].frame = outP
          BY <2>1, <3>2 DEF Descriptor, TypeOK
        <4>2. CASE outDn = 1
          <5>1. txb'[i] = outP
            BY <2>1, <2>3, <3>2, <4>2 DEF SavedPbuf, TypeOK
          <5>2. InSpan(i, produce', i)
            BY <2>1, <2>3, <3>2 DEF InSpan, NextIdx, Slots
          <5> QED
            BY <2>2, <3>1, <4>1, <5>1, <5>2 DEF Kept
        <4>3. CASE outDn # 1
          <5>1. outPc' = "write" /\ outP' = outP
            BY <1>4, <2>2, <4>3 DEF WriteFrag
          <5> QED
            BY <2>2, <4>1, <5>1 DEF Kept, Writing
        <4> QED
          BY <4>2, <4>3
      <3>3. CASE i \in Pending /\ i # produce
        <4>1. desc'[i] = desc[i] /\ Kept(i) /\ i \in Slots
          BY <1>2, <2>1, <3>3 DEF Pending, TypeOK
        <4>2. NextIdx(produce) # i
          BY <2>3, <2>5, <3>3 DEF Pending, InSpan, NextIdx, Slots
        <4>3. CASE \E j \in Slots : InSpan(i, produce, j) /\ txb[j] = desc[i].frame
          <5>1. PICK j \in Slots : InSpan(i, produce, j) /\ txb[j] = desc[i].frame
            BY <4>3
          <5>2. j # produce
            BY <2>3, <4>1, <5>1 DEF InSpan, Slots
          <5>3. InSpan(i, produce', j) /\ txb'[j] = desc'[i].frame
            BY <2>1, <2>3, <4>1, <4>2, <5>1, <5>2, SpanGrows DEF TypeOK
          <5> QED
            BY <4>1, <5>3 DEF Kept
        <4>4. CASE Writing(desc[i].frame)
          <5>1. CASE outDn = 1
            <6>1. txb'[produce] = outP /\ desc'[i].frame = outP
              BY <2>1, <2>3, <4>1, <4>4, <5>1 DEF SavedPbuf, Writing, TypeOK
            <6>2. InSpan(i, produce', produce)
              BY <2>1, <2>3, <4>1, <4>2, SpanGrows
            <6> QED
              BY <2>2, <2>3, <6>1, <6>2 DEF Kept
          <5>2. CASE outDn # 1
            BY <1>4, <4>1, <4>4, <5>2 DEF WriteFrag, Writing, Kept
          <5> QED
            BY <5>1, <5>2
        <4> QED
          BY <4>1, <4>3, <4>4 DEF Kept
      <3> QED
        BY <3>1, <3>2, <3>3
    <2> QED
      BY <2>6, <2>7, <2>8
  <1>5. CASE ResetTx
    <2>1. produce' = 0 /\ consume' = 0 /\ lasttxidx' = 0 /\ txb' = [i \in Slots |-> NoPbuf]
      BY <1>5 DEF ResetTx, ClearSlots, TypeOK
    <2> QED
      BY <2>1 DEF RingOrder, EmptyOutside, Pending, InSpan, Slots
  <1>6. CASE ReclaimOne
    <2>1. /\ consume # lasttxidx /\ lasttxidx' = NextIdx(lasttxidx)
          /\ UNCHANGED <<produce, consume, desc, outPc, outP>>
          /\ txb' = [i \in Slots |-> IF i = lasttxidx THEN NoPbuf ELSE txb[i]]
      BY <1>6 DEF ReclaimOne, ClearSlots, hwVars, outVars, TypeOK
    <2>2. produce \in Slots /\ consume \in Slots /\ lasttxidx \in Slots /\ lasttxidx' \in Slots
      BY <2>1, NextIdxType DEF TypeOK
    <2>3. CASE lasttxidx = produce
      BY <1>2, <2>1, <2>2, <2>3 DEF RingOrder, InSpan, Slots
    <2>4. CASE lasttxidx # produce
      <3>1. \A i \in Slots : InSpan(lasttxidx', produce, i) <=> InSpan(lasttxidx, produce, i) /\ i # lasttxidx
        BY <2>1, <2>2, <2>4, SpanShrinks
      <3>2. RingOrder'
        BY <1>2, <2>1, <2>2, <3>1 DEF RingOrder
      <3>3. EmptyOutside'
        BY <1>2, <2>1, <3>1 DEF EmptyOutside
      <3>4. ASSUME NEW i \in Pending' PROVE Kept(i)'
        <4>1. i \in Pending /\ Kept(i) /\ i \in Slots
          BY <1>2, <2>1 DEF Pending
        <4>2. CASE Writing(desc[i].frame)
          BY <2>1, <4>1, <4>2 DEF Kept, Writing
        <4>3. CASE \E j \in Slots : InSpan(i, produce, j) /\ txb[j] = desc[i].frame
          <5>1. PICK j \in Slots : InSpan(i, produce, j) /\ txb[j] = desc[i].frame
            BY <4>3
          <5>2. InSpan(consume, produce, j)
            BY <2>2, <4>1, <5>1, SpanNested DEF Pending
          <5>3. j # lasttxidx
            BY <1>2, <2>1, <2>2, <4>1, <5>2, SpanFront DEF RingOrder, Pending, InSpan, Slots
          <5> QED
            BY <2>1, <4>1, <5>1, <5>3 DEF Kept
        <4> QED
          BY <4>1, <4>2, <4>3 DEF Kept
      <3> QED
        BY <3>2, <3>3, <3>4
    <2> QED
      BY <2>3, <2>4
  <1>7. ASSUME NEW int, HwSend(int) PROVE RingOrder' /\ EmptyOutside' /\ \A i \in Pending' : Kept(i)'
    <2>1. /\ consume # produce /\ consume' = NextIdx(consume)
          /\ UNCHANGED <<produce, lasttxidx, desc, txb, outPc, outP>>
      BY <1>7 DEF HwSend, drvVars, outVars
    <2>2. produce \in Slots /\ consume \in Slots /\ lasttxidx \in Slots /\ consume' \in Slots
      BY <2>1, NextIdxType DEF TypeOK
    <2>3. RingOrder'
      BY <1>2, <2>1, <2>2 DEF RingOrder, InSpan, NextIdx, Slots
    <2>4. \A i \in Pending' : i \in Pending
      BY <2>1, <2>2, SpanShrinks DEF Pending
    <2> QED
      BY <1>2, <2>1, <2>3, <2>4 DEF EmptyOutside, Kept, Writing
  <1>8. ASSUME \/ Stack \/ TestReady \/ WaitDescriptor \/ ReadIndex \/ LockRing \/ CleanWake
               \/ CleanStatus \/ ReclaimLock \/ ReclaimDone \/ HwUnderrun \/ ENET_IRQHandler
               \/ UNCHANGED vars
        PROVE  /\ UNCHANGED <<produce, consume, lasttxidx, txb, desc>>
               /\ \A p \in Pbufs : Writing(p) => Writing(p)'
    BY <1>8 DEF Stack, StackAlloc, StackFree, Output, TestReady, WaitDescriptor, ReadIndex, LockRing,
                CleanWake, CleanStatus, ReclaimLock, ReclaimDone, HwUnderrun, ENET_IRQHandler, vars,
                hwVars, drvVars, outVars, Writing
  <1> QED
    BY <1>3, <1>4, <1>5, <1>6, <1>7, <1>8 DEF Next, OutStep, CleanStep, Hw

\* While the ring is unspoiled, the EMAC reads no freed pbuf.
THEOREM DmaSafety == Spec => []DmaSafe
  <1>1. RefInv /\ RingInv => DmaSafe
    BY DEF RefInv, RefsCovered, RingInv, DmaSafe, Kept, DriverHolds, Count, TypeOK
  <1> QED
    BY <1>1, RefInit, RefStep, RingInit, RingStep, PTL DEF Spec

\* While the ring is unspoiled, no reference is lost: the slot that WriteFrag
\* overwrites is empty, because it lies outside lasttxidx .. TxProduceIndex.
LEMMA NoLeakStep == RefInv /\ RingInv /\ NoLeak /\ [Next]_vars => NoLeak'
  <1> SUFFICES ASSUME RefInv, RingInv, NoLeak, [Next]_vars, ~spoiled', NEW p \in Pbufs
               PROVE  (ref[p] = Count(stackHolds[p]) + Count(DriverHolds(p)))'
    BY DEF NoLeak
  <1>0. TypeOK
    BY DEF RefInv
  <1> USE <1>0
  <1>1. ~spoiled
    BY DEF Next, Stack, OutStep, CleanStep, Hw, StackAlloc, StackFree, Output, TestReady,
           WaitDescriptor, ReadIndex, LockRing, WriteFrag, CleanWake, CleanStatus, ResetTx,
           ReclaimLock, ReclaimOne, ReclaimDone, HwSend, HwUnderrun, ENET_IRQHandler, vars, TypeOK
  <1>2. ref[p] = Count(stackHolds[p]) + Count(DriverHolds(p))
    BY <1>1 DEF NoLeak
  <1>3. CASE Stack
    <2>1. (\A q \in Pbufs : Writing(q)' <=> Writing(q)) /\ UNCHANGED txb
      BY <1>3 DEF Stack, StackAlloc, StackFree, Output, Writing, drvVars, outVars, pbufVars
    <2>2. DriverHolds(p)' <=> DriverHolds(p)
      BY <2>1 DEF DriverHolds
    <2>3. PICK q \in Pbufs : StackAlloc(q) \/ StackFree(q) \/ \E dn \in 1 .. MaxFrag : Output(q, dn)
      BY <1>3 DEF Stack
    <2>4. CASE StackAlloc(q)
      BY <1>2, <2>2, <2>4 DEF StackAlloc, RefInv, RefsCovered, Count, TypeOK
    <2>5. CASE StackFree(q)
      BY <1>2, <2>2, <2>5 DEF StackFree, RefInv, RefsCovered, Count, TypeOK
    <2>6. CASE \E dn \in 1 .. MaxFrag : Output(q, dn)
      BY <1>2, <2>2, <2>6 DEF Output, Count, pbufVars
    <2> QED
      BY <2>3, <2>4, <2>5, <2>6
  <1>4. CASE LockRing
    <2>1. outP \in Pbufs /\ outPc = "lock" /\ ref' = [ref EXCEPT ![outP] = @ + 1]
          /\ outPc' = "write" /\ UNCHANGED <<outP, txb, stackHolds>> /\ \A i \in Slots : txb[i] # outP
      BY <1>4 DEF LockRing, RefInv, OutInv
    <2>2. CASE p = outP
      <3>1. DriverHolds(p)' /\ ~DriverHolds(p)
        BY <2>1, <2>2 DEF DriverHolds, Writing
      <3> QED
        BY <1>2, <2>1, <2>2, <3>1 DEF Count, TypeOK
    <2>3. CASE p # outP
      <3>1. DriverHolds(p)' <=> DriverHolds(p)
        BY <2>1, <2>3 DEF DriverHolds, Writing
      <3> QED
        BY <1>2, <2>1, <2>3, <3>1 DEF Count, TypeOK
    <2> QED
      BY <2>2, <2>3
  <1>5. CASE WriteFrag
    <2>1. /\ outIdx = produce /\ produce \in Slots /\ UNCHANGED <<ref, stackHolds>>
          /\ txb' = [txb EXCEPT ![produce] = SavedPbuf]
          /\ outPc = "write" /\ outP \in Pbufs
      BY <1>5 DEF WriteFrag, RefInv, OutInv, TypeOK, pbufVars
    <2>2. txb[produce] = NoPbuf
      BY <1>1, <2>1 DEF RingInv, EmptyOutside, InSpan, Slots, TypeOK
    <2>3. CASE outDn = 1
      <3>1. DriverHolds(p)' <=> (p = outP \/ \E i \in Slots : txb[i] = p)
        BY <1>5, <2>1, <2>2, <2>3 DEF WriteFrag, DriverHolds, Writing, SavedPbuf, TypeOK
      <3> QED
        BY <1>2, <2>1, <3>1 DEF Count, DriverHolds, Writing
    <2>4. CASE outDn # 1
      <3>1. DriverHolds(p)' <=> (p = outP \/ \E i \in Slots : txb[i] = p)
        BY <1>5, <2>1, <2>2, <2>4 DEF WriteFrag, DriverHolds, Writing, SavedPbuf, TypeOK
      <3> QED
        BY <1>2, <2>1, <3>1 DEF Count, DriverHolds, Writing
    <2> QED
      BY <2>3, <2>4
  <1>6. ASSUME NEW S \in SUBSET Slots, ref' = FreeSlots(S), txb' = ClearSlots(S),
               UNCHANGED <<outVars, stackHolds>>
        PROVE  (ref[p] = Count(stackHolds[p]) + Count(DriverHolds(p)))'
    <2>1. CASE \E i \in S : txb[i] = p
      <3>1. DriverHolds(p) /\ ref'[p] = ref[p] - 1
        BY <1>6, <2>1 DEF FreeSlots, DriverHolds
      <3>2. ~DriverHolds(p)'
        BY <1>6, <2>1 DEF ClearSlots, DriverHolds, Writing, RefInv, OutInv, TxbUnique, outVars, TypeOK
      <3> QED
        BY <1>2, <1>6, <3>1, <3>2 DEF Count, TypeOK
    <2>2. CASE ~ \E i \in S : txb[i] = p
      <3>1. ref'[p] = ref[p]
        BY <1>6, <2>2 DEF FreeSlots
      <3>2. DriverHolds(p)' <=> DriverHolds(p)
        BY <1>6, <2>2 DEF ClearSlots, DriverHolds, Writing, outVars, TypeOK
      <3> QED
        BY <1>2, <1>6, <3>1, <3>2 DEF Count
    <2> QED
      BY <2>1, <2>2
  <1>7. CASE ResetTx
    BY <1>6, <1>7 DEF ResetTx
  <1>8. CASE ReclaimOne
    BY <1>6, <1>8 DEF ReclaimOne, TypeOK
  <1>9. ASSUME \/ TestReady \/ WaitDescriptor \/ ReadIndex \/ CleanWake \/ CleanStatus \/ ReclaimLock
               \/ ReclaimDone \/ Hw \/ ENET_IRQHandler \/ UNCHANGED vars
        PROVE  UNCHANGED <<ref, stackHolds, txb>> /\ (Writing(p)' <=> Writing(p))
    BY <1>9 DEF TestReady, WaitDescriptor, ReadIndex, CleanWake, CleanStatus, ReclaimLock, ReclaimDone,
                Hw, HwSend, HwUnderrun, ENET_IRQHandler, vars, hwVars, drvVars, outVars, pbufVars, Writing
  <1>10. UNCHANGED <<ref, stackHolds, txb>> /\ (Writing(p)' <=> Writing(p))
           => (ref[p] = Count(stackHolds[p]) + Count(DriverHolds(p)))'
    BY <1>2 DEF Count, DriverHolds
  <1> QED
    BY <1>3, <1>4, <1>5, <1>7, <1>8, <1>9, <1>10 DEF Next, OutStep, CleanStep

\* While the ring is unspoiled, a pbuf both sides are done with is freed.
THEOREM NoLeakage == Spec => []NoLeak
  <1>1. Init => NoLeak
    BY DEF Init, NoLeak, DriverHolds, Writing, Count
  <1> QED
    BY <1>1, RefInit, RefStep, RingInit, RingStep, NoLeakStep, PTL DEF Spec

-------------------------------------------------------------------------------
(* The fragments of a frame. *)

\* Arithmetic of the ring: the slot after a later pending one is not the front.
LEMMA NextNotFront ==
  ASSUME NEW a \in Slots, NEW b \in Slots, NEW i \in Slots, InSpan(a, b, i)
  PROVE  NextIdx(i) # a
  BY DEF InSpan, NextIdx, Slots

\* Every step preserves FramesWhole on an unspoiled ring: the output call goes
\* on where its last fragment lies, and the EMAC sends from the front.
LEMMA FramesStep == RefInv /\ RingInv /\ FramesWhole /\ [Next]_vars => FramesWhole'
  <1> DEFINE Follows(i) == \/ NextIdx(i) \in Pending /\ desc[NextIdx(i)].frame = desc[i].frame
                           \/ NextIdx(i) = produce /\ Writing(desc[i].frame)
  <1> SUFFICES ASSUME RefInv, RingInv, FramesWhole, [Next]_vars, ~spoiled',
                      NEW i \in Pending', ~desc'[i].last
               PROVE  Follows(i)'
    BY DEF FramesWhole
  <1>0. TypeOK
    BY DEF RefInv
  <1> USE <1>0
  <1>1. ~spoiled
    BY DEF Next, Stack, OutStep, CleanStep, Hw, StackAlloc, StackFree, Output, TestReady,
           WaitDescriptor, ReadIndex, LockRing, WriteFrag, CleanWake, CleanStatus, ResetTx,
           ReclaimLock, ReclaimOne, ReclaimDone, HwSend, HwUnderrun, ENET_IRQHandler, vars, TypeOK
  <1>2. RingOrder /\ \A j \in Pending : ~desc[j].last => Follows(j)
    BY <1>1 DEF RingInv, FramesWhole
  <1>3. i \in Slots
    BY DEF Pending
  <1>4. ASSUME UNCHANGED <<produce, consume, desc>>, \A p : Writing(p) => Writing(p)'
        PROVE  Follows(i)'
    BY <1>2, <1>4 DEF Pending
  <1>5. CASE WriteFrag
    <2>1. /\ outIdx = produce /\ NextIdx(produce) # lasttxidx
          /\ produce' = NextIdx(produce) /\ UNCHANGED <<consume, lasttxidx>>
          /\ desc' = [desc EXCEPT ![produce] = Descriptor]
      BY <1>5 DEF WriteFrag, TypeOK
    <2>2. produce \in Slots /\ consume \in Slots /\ lasttxidx \in Slots /\ produce' \in Slots
      BY <2>1, NextIdxType DEF TypeOK
    <2>3. NextIdx(produce) # consume
      BY <1>2, <2>1, <2>2 DEF RingOrder, InSpan, NextIdx, Slots
    <2>4. \A j \in Slots : j \in Pending' <=> j \in Pending \/ j = produce
      BY <2>1, <2>2, <2>3, SpanGrows DEF Pending
    <2>5. desc'[produce].frame = outP /\ (desc'[produce].last <=> outDn = 1)
      BY <2>1, <2>2 DEF Descriptor, TypeOK
    <2>6. CASE i = produce
      <3>1. outPc' = "write" /\ outP' = outP
        BY <1>5, <2>5, <2>6 DEF WriteFrag
      <3> QED
        BY <2>1, <2>5, <2>6, <3>1 DEF Writing
    <2>7. CASE i # produce
      <3>1. i \in Pending /\ desc'[i] = desc[i]
        BY <1>3, <2>1, <2>2, <2>4, <2>7 DEF TypeOK
      <3>2. Follows(i)
        BY <1>2, <3>1
      <3>3. CASE NextIdx(i) = produce
        <4>1. NextIdx(i) \notin Pending
          BY <2>2, <3>3 DEF Pending, InSpan, Slots
        <4>2. outP = desc[i].frame
          BY <3>2, <4>1 DEF Writing
        <4> QED
          BY <2>2, <2>4, <2>5, <3>1, <3>3, <4>2
      <3>4. CASE NextIdx(i) # produce
        <4>1. NextIdx(i) \in Slots
          BY <1>3, NextIdxType
        <4> QED
          BY <2>1, <2>2, <2>4, <3>1, <3>2, <3>4, <4>1 DEF TypeOK
      <3> QED
        BY <3>3, <3>4
    <2> QED
      BY <2>6, <2>7
  <1>6. CASE ResetTx
    BY <1>6 DEF ResetTx, Pending, InSpan, Slots
  <1>7. ASSUME NEW int, HwSend(int) PROVE Follows(i)'
    <2>1. /\ consume # produce /\ consume' = NextIdx(consume)
          /\ UNCHANGED <<produce, desc, outPc, outP>>
      BY <1>7 DEF HwSend, outVars
    <2>2. produce \in Slots /\ consume \in Slots /\ consume' \in Slots /\ NextIdx(i) \in Slots
      BY <1>3, <2>1, NextIdxType DEF TypeOK
    <2>3. \A j \in Slots : j \in Pending' <=> j \in Pending /\ j # consume
      BY <2>1, <2>2, SpanShrinks DEF Pending
    <2>4. NextIdx(i) # consume
      BY <1>3, <2>2, <2>3, NextNotFront DEF Pending
    <2> QED
      BY <1>2, <1>3, <2>1, <2>2, <2>3, <2>4 DEF Writing
  <1>8. ASSUME \/ Stack \/ TestReady \/ WaitDescriptor \/ ReadIndex \/ LockRing \/ CleanWake
               \/ CleanStatus \/ ReclaimLock \/ ReclaimOne \/ ReclaimDone \/ HwUnderrun
               \/ ENET_IRQHandler \/ UNCHANGED vars
        PROVE  UNCHANGED <<produce, consume, desc>> /\ \A p : Writing(p) => Writing(p)'
    BY <1>8 DEF Stack, StackAlloc, StackFree, Output, TestReady, WaitDescriptor, ReadIndex, LockRing,
                CleanWake, CleanStatus, ReclaimLock, ReclaimOne, ReclaimDone, HwUnderrun,
                ENET_IRQHandler, vars, hwVars, drvVars, outVars, Writing
  <1> QED
    BY <1>4, <1>5, <1>6, <1>7, <1>8 DEF Next, OutStep, CleanStep, Hw

\* While the ring is unspoiled, the EMAC finds the fragments of a frame one
\* after the other and never runs into another frame's.
THEOREM WholeFrames == Spec => []FramesWhole
  <1>1. Init => FramesWhole
    BY DEF Init, FramesWhole, Pending, InSpan, Slots
  <1> QED
    BY <1>1, RefInit, RefStep, RingInit, RingStep, FramesStep, PTL DEF Spec

===============================================================================

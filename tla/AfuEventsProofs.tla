---------------------------- MODULE AfuEventsProofs ----------------------------
(***************************************************************************)
(* The events of a handle whose IRQ table never moves: the number of IRQs  *)
(* does not exceed the table's first size.  (A table that grows can move,  *)
(* and then none of this holds: see README.)                               *)
(***************************************************************************)
EXTENDS AfuEvents, FiniteSetTheorems, TLAPS

TableSuffices == MaxIrqs <= INITIAL_IRQ_COUNT /\ INITIAL_IRQ_COUNT < UINT16_RANGE

\* The table is allocated once, and epoll's pointers lead into it.
TableStays ==
  /\ irq_max_count \in {0, INITIAL_IRQ_COUNT}
  /\ irq_max_count = 0 => irq_count = 0 /\ irqs = 0
  /\ irq_max_count # 0 => irqs # 0
  /\ \A i \in Irqs : i < irq_count => ptr[i] = irqs
  /\ \A i \in Irqs : i >= irq_count => counter[i] = 0

\* What is still to be handled can be read without blocking.
BatchIsReady ==
  /\ pc \in {"idle", "returned"} => batch = {}
  /\ pc = "drain" => OCXL \notin batch
  /\ OCXL \in batch => queued > 0
  /\ \A i \in Irqs : i \in batch => counter[i] > 0

NothingKept == pc = "idle" => \A i \in Irqs : reported[i] = 0

EInv == TypeOK /\ TableStays /\ BatchIsReady /\ NothingKept /\ InterruptsAccounted

-------------------------------------------------------------------------------
\* The IRQs are numbers, and with the kernel's descriptor they are what epoll watches.
LEMMA IrqsAreSources == Irqs \subseteq Nat /\ OCXL \notin Irqs /\ Irqs \subseteq Sources /\ OCXL \in Sources
  BY EventBounds, SMTT(30), Z3T(30) DEF Irqs, Sources

\* epoll's pointers lead to what they were given for.
LEMMA PointersHold ==
  ASSUME EInv, NEW s \in batch
  PROVE  Finds(s) = {<<s, s>>} /\ s \in Sources /\ (s # OCXL => s \in Irqs /\ counter[s] > 0)
<1>1. s \in Sources
  BY Zenon DEF EInv, TypeOK
<1>2. CASE s = OCXL
  BY <1>1, <1>2, SMTT(30), Z3T(30) DEF Finds
<1>3. CASE s # OCXL
  <2>1. s \in Irqs /\ counter[s] > 0
    BY <1>1, <1>3, Zenon DEF Sources, EInv, BatchIsReady
  <2>2. s < irq_count
    BY <2>1, IrqsAreSources, EventBounds, SMTT(30), Z3T(30) DEF EInv, TableStays, TypeOK
  <2>3. ptr[s] = irqs
    BY <2>1, <2>2, Zenon DEF EInv, TableStays
  <2> QED
    BY <1>1, <1>3, <2>1, <2>3, SMTT(30), Z3T(30) DEF Finds
<1> QED
  BY <1>2, <1>3, Zenon

\* The first allocation of the IRQ table is stored as it is.
LEMMA FirstAllocation ==
  ASSUME TableSuffices PROVE ToUint16(new_count(0, INITIAL_IRQ_COUNT)) = INITIAL_IRQ_COUNT
  BY EventBounds, RangeAssumption, SMTT(30), Z3T(30) DEF TableSuffices, ToUint16, new_count

-------------------------------------------------------------------------------
(* One lemma for each action, or group of actions that change the same.      *)

\* An interrupt of the AFU preserves the invariant.
LEMMA TriggerEInv ==
  ASSUME EInv, NEW i \in Irqs, TriggerIrq(i)
  PROVE  EInv'
<1> USE EventBounds DEF tableVars, callVars, arrayVars
<1>1. TypeOK'
  BY SMTT(30), Z3T(30) DEF TriggerIrq, EInv, TypeOK
<1>2. TableStays'
  BY IrqsAreSources, SMTT(30), Z3T(30) DEF TriggerIrq, EInv, TypeOK, TableStays
<1>3. BatchIsReady'
  BY SMTT(30), Z3T(30) DEF TriggerIrq, EInv, TypeOK, BatchIsReady
<1>4. NothingKept'
  BY SMTT(30), Z3T(30) DEF TriggerIrq, EInv, NothingKept
<1>5. InterruptsAccounted'
  BY SMTT(30), Z3T(30) DEF TriggerIrq, EInv, TypeOK, InterruptsAccounted
<1> QED
  BY <1>1, <1>2, <1>3, <1>4, <1>5, Zenon DEF EInv

\* Steps that touch no eventfd and end no call preserve the invariant.
LEMMA QuietEInv ==
  ASSUME EInv, \/ KernelEvent \/ NoMoreEvents
               \/ \E n \in 0 .. MaxEventCount : EventCheckFails(n)
               \/ \E known, last \in BOOLEAN : ReadAfuEvent(known, last)
  PROVE  EInv'
<1> USE EventBounds DEF tableVars, callVars, arrayVars
<1>0. /\ UNCHANGED <<irqs, irq_count, irq_max_count, ptr, counter, overdue, batch, reported, pending, owed, lost>>
      /\ queued' \in Nat /\ (OCXL \in batch => queued' > 0)
      /\ faults' \in Nat /\ epoll_event_count' \in Nat /\ event_count' = event_count
      /\ triggered' \in Nat /\ count' = count
      /\ \/ pc' = pc
         \/ pc = "drain" /\ pc' = "loop"
  <2>1. CASE KernelEvent
    BY <2>1, SMTT(30), Z3T(30) DEF KernelEvent, EInv, TypeOK, BatchIsReady
  <2>2. CASE NoMoreEvents
    BY <2>2, SMTT(30), Z3T(30) DEF NoMoreEvents, EInv, TypeOK, BatchIsReady
  <2>3. ASSUME NEW n \in 0 .. MaxEventCount, EventCheckFails(n) PROVE <1>0!:
    BY <2>3, SMTT(30), Z3T(30) DEF EventCheckFails, EInv, TypeOK, BatchIsReady
  <2>4. ASSUME NEW known \in BOOLEAN, NEW last \in BOOLEAN, ReadAfuEvent(known, last) PROVE <1>0!:
    BY <2>4, SMTT(30), Z3T(30) DEF ReadAfuEvent, EInv, TypeOK, BatchIsReady
  <2> QED
    BY <2>1, <2>2, <2>3, <2>4, Zenon
<1>1. TypeOK'
  BY <1>0, SMTT(30), Z3T(30) DEF EInv, TypeOK
<1>2. TableStays'
  BY <1>0, Zenon DEF EInv, TableStays
<1>3. BatchIsReady'
  BY <1>0, SMTT(30), Z3T(30) DEF EInv, BatchIsReady
<1>4. NothingKept'
  BY <1>0, SMTT(30), Z3T(30) DEF EInv, NothingKept
<1>5. InterruptsAccounted'
  BY <1>0, SMTT(30), Z3T(30) DEF EInv, InterruptsAccounted
<1> QED
  BY <1>1, <1>2, <1>3, <1>4, <1>5, Zenon DEF EInv

\* ocxl_irq_alloc() preserves the invariant, as the table does not move.
LEMMA IrqAllocEInv ==
  ASSUME TableSuffices, EInv, NEW ok \in BOOLEAN, NEW moved \in BOOLEAN, IrqAlloc(ok, moved)
  PROVE  EInv'
<1> USE EventBounds DEF tableVars, callVars, arrayVars
<1>0. /\ UNCHANGED <<counter, queued, faults, overdue, pc, epoll_event_count, event_count, count, pending, batch,
                     triggered, reported, owed, lost>>
      /\ irq_count < MaxIrqs /\ irq_count \in Nat /\ irq_count \in Irqs
  BY SMTT(30), Z3T(30) DEF IrqAlloc, EInv, TypeOK, Irqs
<1>1. irq_max_count' = INITIAL_IRQ_COUNT /\ irqs' \in Nat \ {0} /\ (irq_count > 0 => irqs' = irqs)
  <2>1. CASE irq_count = irq_max_count
    <3>1. irq_max_count = 0 /\ irqs = 0 /\ irq_count = 0
      BY <1>0, <2>1, SMTT(30), Z3T(30) DEF EInv, TableStays, TableSuffices
    <3>2. irqs' = 1 /\ irq_max_count' = ToUint16(new_count(0, INITIAL_IRQ_COUNT))
      BY <2>1, <3>1, SMTT(30), Z3T(30) DEF IrqAlloc
    <3> QED
      BY <3>1, <3>2, FirstAllocation, SMTT(30), Z3T(30)
  <2>2. CASE irq_count # irq_max_count
    BY <1>0, <2>2, SMTT(30), Z3T(30) DEF IrqAlloc, EInv, TableStays, TypeOK
  <2> QED
    BY <2>1, <2>2, Zenon
<1>2. /\ irq_count' = IF ok THEN irq_count + 1 ELSE irq_count
      /\ ptr' = IF ok THEN [ptr EXCEPT ![irq_count] = irqs'] ELSE ptr
  BY Zenon DEF IrqAlloc
<1>3. TypeOK'
  BY <1>0, <1>1, <1>2, SMTT(30), Z3T(30) DEF EInv, TypeOK
<1>4. TableStays'
  <2> SUFFICES ASSUME NEW i \in Irqs
               PROVE  (i < irq_count' => ptr'[i] = irqs') /\ (i >= irq_count' => counter'[i] = 0)
    BY <1>1, SMTT(30), Z3T(30) DEF TableStays
  <2>1. i \in Nat /\ ptr \in [Irqs -> Nat]
    BY IrqsAreSources, SMTT(30), Z3T(30) DEF EInv, TypeOK
  <2>2. (i < irq_count => ptr[i] = irqs) /\ (i >= irq_count => counter[i] = 0)
    BY Zenon DEF EInv, TableStays
  <2>3. CASE i = irq_count
    BY <1>0, <1>2, <2>1, <2>2, <2>3, SMTT(30), Z3T(30)
  <2>4. CASE i < irq_count
    BY <1>0, <1>1, <1>2, <2>1, <2>2, <2>4, SMTT(30), Z3T(30)
  <2>5. CASE i > irq_count
    BY <1>0, <1>2, <2>1, <2>2, <2>5, SMTT(30), Z3T(30)
  <2> QED
    BY <1>0, <2>1, <2>3, <2>4, <2>5, SMTT(30), Z3T(30)
<1>5. BatchIsReady' /\ NothingKept' /\ InterruptsAccounted'
  BY <1>0, Zenon DEF EInv, BatchIsReady, NothingKept, InterruptsAccounted
<1> QED
  BY <1>3, <1>4, <1>5, Zenon DEF EInv

\* What epoll_wait() returns can be counted.
LEMMA BatchIsFinite ==
  ASSUME NEW S \in SUBSET Sources PROVE IsFiniteSet(S) /\ Cardinality(S) \in Nat
<1>1. IsFiniteSet(Irqs)
  BY FS_Interval, EventBounds, SMTT(30), Z3T(30) DEF Irqs
<1>2. IsFiniteSet(Sources)
  BY <1>1, FS_AddElement, SMTT(30), Z3T(30) DEF Sources
<1>3. IsFiniteSet(S)
  BY <1>2, FS_Subset, SMTT(30), Z3T(30)
<1> QED
  BY <1>3, FS_CardinalityType, SMTT(30), Z3T(30)

\* epoll_wait() preserves the invariant.
LEMMA EventCheckEInv ==
  ASSUME EInv, NEW n \in 0 .. MaxEventCount, EventCheck(n)
  PROVE  EInv'
<1> USE EventBounds DEF tableVars, callVars, arrayVars
<1>0. PICK S \in SUBSET Sources : EpollWait(n, S) /\ batch' = S /\ count' = Cardinality(S)
  BY Zenon DEF EventCheck
<1>1. /\ UNCHANGED <<irqs, irq_count, irq_max_count, ptr, counter, queued, faults, owed, lost>>
      /\ pc = "idle" /\ pc' = "loop" /\ triggered' = 0
      /\ reported' = [i \in Irqs |-> 0] /\ pending' = {i \in Irqs : counter[i] > 0}
      /\ epoll_event_count' = IF n > epoll_event_count THEN n ELSE epoll_event_count
      /\ event_count' = n /\ n \in Nat
  BY SMTT(30), Z3T(30) DEF EventCheck
<1>2. S \subseteq Ready /\ overdue' \subseteq Sources
  BY <1>0, SMTT(30), Z3T(30) DEF EpollWait, Ready, Sources, EInv, TypeOK
<1>3. TypeOK'
  <2>1. count' \in Nat
    BY <1>0, BatchIsFinite, Zenon
  <2> QED
    BY <1>0, <1>1, <1>2, <2>1, SMTT(30), Z3T(30) DEF EInv, TypeOK
<1>4. TableStays'
  BY <1>1, Zenon DEF EInv, TableStays
<1>5. BatchIsReady'
  BY <1>0, <1>1, <1>2, IrqsAreSources, SMTT(30), Z3T(30) DEF BatchIsReady, Ready
<1>6. NothingKept' /\ InterruptsAccounted'
  BY <1>1, SMTT(30), Z3T(30) DEF EInv, NothingKept, InterruptsAccounted
<1> QED
  BY <1>3, <1>4, <1>5, <1>6, Zenon DEF EInv

\* What handling a source does, now that epoll's pointer leads to it.
LEMMA DispatchHandles ==
  ASSUME EInv, NEW s \in Sources, Dispatch(s)
  PROVE  /\ pc = "loop" /\ s \in batch /\ batch' = batch \ {s}
         /\ UNCHANGED <<tableVars, queued, faults, overdue, callVars, owed, lost>>
         /\ \/ s = OCXL /\ pc' = "drain" /\ UNCHANGED <<counter, triggered, reported>>
            \/ /\ s \in Irqs /\ counter[s] > 0 /\ pc' = "loop"
               /\ reported' = [reported EXCEPT ![s] = @ + counter[s]]
               /\ triggered' = triggered + 1
               /\ counter' = [counter EXCEPT ![s] = 0]
<1>1. pc = "loop" /\ s \in batch /\ batch' = batch \ {s}
      /\ UNCHANGED <<tableVars, queued, faults, overdue, callVars, owed, lost>>
  BY Zenon DEF Dispatch
<1>2. Finds(s) = {<<s, s>>} /\ (s # OCXL => s \in Irqs /\ counter[s] > 0)
  BY <1>1, PointersHold, Zenon
<1>3. PICK f \in Finds(s) :
       \/ /\ f[1] = OCXL
          /\ pc' = "drain"
          /\ UNCHANGED <<counter, triggered, reported>>
       \/ /\ f[1] # OCXL
          /\ counter[f[1]] > 0
          /\ reported' = [reported EXCEPT ![f[2]] = @ + counter[f[1]]]
          /\ triggered' = triggered + 1
          /\ counter' = [counter EXCEPT ![f[1]] = 0]
          /\ UNCHANGED pc
  BY Zenon DEF Dispatch
<1>4. f[1] = s /\ f[2] = s
  BY <1>2, SMTT(30), Z3T(30)
<1> QED
  BY <1>1, <1>2, <1>3, <1>4, Zenon

\* Handling one source of the batch preserves the invariant.
LEMMA DispatchEInv ==
  ASSUME EInv, NEW s \in Sources, Dispatch(s)
  PROVE  EInv'
<1> USE EventBounds DEF tableVars, callVars
<1>0. /\ pc = "loop" /\ s \in batch /\ batch' = batch \ {s}
      /\ UNCHANGED <<tableVars, queued, faults, overdue, callVars, owed, lost>>
  BY DispatchHandles, Zenon
<1>1. CASE s = OCXL /\ pc' = "drain" /\ UNCHANGED <<counter, triggered, reported>>
  <2>1. TypeOK'
    BY <1>0, <1>1, SMTT(30), Z3T(30) DEF EInv, TypeOK
  <2>2. TableStays'
    BY <1>0, <1>1, Zenon DEF EInv, TableStays
  <2>3. BatchIsReady' /\ NothingKept' /\ InterruptsAccounted'
    BY <1>0, <1>1, SMTT(30), Z3T(30) DEF EInv, BatchIsReady, NothingKept, InterruptsAccounted
  <2> QED
    BY <2>1, <2>2, <2>3, Zenon DEF EInv
<1>2. CASE /\ s \in Irqs /\ counter[s] > 0 /\ pc' = "loop"
           /\ reported' = [reported EXCEPT ![s] = @ + counter[s]]
           /\ triggered' = triggered + 1
           /\ counter' = [counter EXCEPT ![s] = 0]
  <2>1. TypeOK'
    BY <1>0, <1>2, SMTT(30), Z3T(30) DEF EInv, TypeOK
  <2>2. TableStays'
    BY <1>0, <1>2, SMTT(30), Z3T(30) DEF EInv, TypeOK, TableStays
  <2>3. BatchIsReady'
    BY <1>0, <1>2, SMTT(30), Z3T(30) DEF EInv, TypeOK, BatchIsReady
  <2>4. InterruptsAccounted'
    BY <1>0, <1>2, SMTT(30), Z3T(30) DEF EInv, TypeOK, InterruptsAccounted
  <2>5. NothingKept'
    BY <1>2, SMTT(30), Z3T(30) DEF NothingKept
  <2> QED
    BY <2>1, <2>2, <2>3, <2>4, <2>5, Zenon DEF EInv
<1> QED
  BY <1>1, <1>2, DispatchHandles, Zenon

\* A read of an eventfd that fails preserves the invariant.
LEMMA ReadFailsEInv ==
  ASSUME EInv, NEW s \in Sources, IrqReadFails(s)
  PROVE  EInv'
<1> USE EventBounds DEF tableVars
<1>1. TypeOK'
  BY SMTT(30), Z3T(30) DEF IrqReadFails, EInv, TypeOK
<1>2. TableStays'
  BY Zenon DEF IrqReadFails, EInv, TableStays
<1>3. BatchIsReady'
  BY SMTT(30), Z3T(30) DEF IrqReadFails, EInv, BatchIsReady
<1>4. NothingKept' /\ InterruptsAccounted'
  BY Zenon DEF IrqReadFails, EInv, NothingKept, InterruptsAccounted
<1> QED
  BY <1>1, <1>2, <1>3, <1>4, Zenon DEF EInv

\* The returns of ocxl_afu_event_check() preserve the invariant.
LEMMA ReturnEInv ==
  ASSUME EInv, \/ Return \/ Consume \/ \E consumed \in BOOLEAN : ReadAfuEventFails(consumed)
  PROVE  EInv'
<1> USE EventBounds DEF tableVars, callVars, arrayVars
<1>1. CASE Return
  <2>1. TypeOK'
    BY <1>1, SMTT(30), Z3T(30) DEF Return, EInv, TypeOK
  <2>2. TableStays' /\ BatchIsReady' /\ NothingKept'
    BY <1>1, SMTT(30), Z3T(30) DEF Return, EInv, TableStays, BatchIsReady, NothingKept
  <2>3. InterruptsAccounted'
    BY <1>1, SMTT(30), Z3T(30) DEF Return, EInv, TypeOK, InterruptsAccounted
  <2> QED
    BY <2>1, <2>2, <2>3, Zenon DEF EInv
<1>2. CASE Consume
  <2>1. TypeOK'
    BY <1>2, SMTT(30), Z3T(30) DEF Consume, EInv, TypeOK
  <2>2. TableStays' /\ BatchIsReady' /\ NothingKept'
    BY <1>2, SMTT(30), Z3T(30) DEF Consume, EInv, TableStays, BatchIsReady, NothingKept
  <2>3. InterruptsAccounted'
    BY <1>2, SMTT(30), Z3T(30) DEF Consume, EInv, TypeOK, InterruptsAccounted
  <2> QED
    BY <2>1, <2>2, <2>3, Zenon DEF EInv
<1>3. ASSUME NEW consumed \in BOOLEAN, ReadAfuEventFails(consumed) PROVE EInv'
  <2>1. TypeOK'
    BY <1>3, SMTT(30), Z3T(30) DEF ReadAfuEventFails, EInv, TypeOK
  <2>2. TableStays' /\ BatchIsReady' /\ NothingKept'
    BY <1>3, SMTT(30), Z3T(30) DEF ReadAfuEventFails, EInv, TableStays, BatchIsReady, NothingKept
  <2>3. InterruptsAccounted'
    BY <1>3, SMTT(30), Z3T(30) DEF ReadAfuEventFails, EInv, TypeOK, InterruptsAccounted
  <2> QED
    BY <2>1, <2>2, <2>3, Zenon DEF EInv
<1> QED
  BY <1>1, <1>2, <1>3, Zenon

\* EInv holds always while the IRQs fit in the first allocation.
LEMMA EventsInvariant == ASSUME TableSuffices PROVE Spec => []EInv
<1>1. Init => EInv
  BY EventBounds, SMTT(30), Z3T(30) DEF Init, EInv, TypeOK, TableStays, BatchIsReady, NothingKept, InterruptsAccounted, Sources
<1>2. EInv /\ [Next]_vars => EInv'
  <2> SUFFICES ASSUME EInv, [Next]_vars PROVE EInv'
    BY Zenon
  <2>1. CASE UNCHANGED vars
    BY <2>1, ZenonT(30) DEF vars, tableVars, callVars, arrayVars, EInv, TypeOK, TableStays, BatchIsReady,
       NothingKept, InterruptsAccounted
  <2> QED
    BY <2>1, TriggerEInv, QuietEInv, IrqAllocEInv, EventCheckEInv, DispatchEInv, ReadFailsEInv, ReturnEInv,
       Zenon DEF Next
<1> QED
  BY <1>1, <1>2, PTL DEF Spec

-------------------------------------------------------------------------------
\* The types of AfuEvents: no count becomes negative when ocxl_afu_event_check()
\* or read_afu_event() takes from it, irq_count stays within the IRQs there are, and
\* what epoll_wait() returned are sources it was given.
THEOREM EventTypesHold ==
  ASSUME TableSuffices PROVE Spec => []TypeOK
<1>1. EInv => TypeOK
  BY Zenon DEF EInv
<1> QED
  BY <1>1, EventsInvariant, PTL

\* No trigger of an IRQ is lost, doubled or credited to another one, for any
\* number of IRQs that the table's first size can hold.
THEOREM InterruptsAreAccounted ==
  ASSUME TableSuffices PROVE Spec => []InterruptsAccounted
<1>1. EInv => InterruptsAccounted
  BY Zenon DEF EInv
<1> QED
  BY <1>1, EventsInvariant, PTL

\* Under the same condition the loop of ocxl_afu_event_check_versioned() reads
\* no empty eventfd, and so never blocks in read().
THEOREM CheckNeverBlocks ==
  ASSUME TableSuffices PROVE Spec => []NeverBlocks
<1>1. EInv => NeverBlocks
  BY PointersHold, SMTT(30), Z3T(30) DEF NeverBlocks
<1> QED
  BY <1>1, EventsInvariant, PTL

-------------------------------------------------------------------------------
(* Unless epoll_wait() has filled its array, every IRQ that had triggered is *)
(* in events[] or still to be handled.                                       *)

NoneLeftOut ==
  /\ pc \in {"loop", "drain"} /\ count < event_count =>
       \A i \in pending : reported[i] > 0 \/ i \in batch
  /\ LeftOutOnlyWhenFull

\* A batch smaller than the array has every ready source.
LEMMA CheckLeavesNoneOut ==
  ASSUME EInv, NoneLeftOut, NEW n \in 0 .. MaxEventCount, EventCheck(n)
  PROVE  NoneLeftOut'
<1>1. PICK S \in SUBSET Sources : EpollWait(n, S) /\ batch' = S /\ count' = Cardinality(S)
  BY Zenon DEF EventCheck
<1>2. /\ pc' = "loop" /\ event_count' = n
      /\ pending' = {i \in Irqs : counter[i] > 0}
  BY Zenon DEF EventCheck
<1>3. CASE S = Ready
  BY <1>1, <1>2, <1>3, SMTT(30), Z3T(30) DEF NoneLeftOut, LeftOutOnlyWhenFull, Ready
<1>4. CASE Cardinality(S) = n
  BY <1>1, <1>2, <1>4, EventBounds, SMTT(30), Z3T(30) DEF NoneLeftOut, LeftOutOnlyWhenFull
<1> QED
  BY <1>1, <1>3, <1>4, Zenon DEF EpollWait

\* An IRQ that is handled is reported; the device descriptor is no IRQ.
LEMMA HandledIsNotLeftOut ==
  ASSUME EInv, NoneLeftOut, NEW s \in Sources, Dispatch(s)
  PROVE  NoneLeftOut'
<1>0. /\ pc = "loop" /\ s \in batch /\ batch' = batch \ {s}
      /\ UNCHANGED <<event_count, count, pending>>
  BY DispatchHandles, Zenon DEF callVars
<1>1. reported \in [Irqs -> Nat] /\ counter \in [Irqs -> Nat] /\ pending \subseteq Irqs
  BY Zenon DEF EInv, TypeOK
<1>2. CASE s = OCXL /\ pc' = "drain" /\ UNCHANGED <<counter, triggered, reported>>
  <2>1. s \notin pending
    BY <1>1, <1>2, IrqsAreSources, Zenon
  <2> QED
    BY <1>0, <1>2, <2>1, SMTT(30), Z3T(30) DEF NoneLeftOut, LeftOutOnlyWhenFull
<1>3. CASE /\ s \in Irqs /\ counter[s] > 0 /\ pc' = "loop"
           /\ reported' = [reported EXCEPT ![s] = @ + counter[s]]
           /\ triggered' = triggered + 1
           /\ counter' = [counter EXCEPT ![s] = 0]
  <2>1. \A i \in pending : reported[i] > 0 \/ i = s => reported'[i] > 0
    BY <1>1, <1>3, SMTT(30), Z3T(30)
  <2> QED
    BY <1>0, <1>3, <2>1, SMTT(30), Z3T(30) DEF NoneLeftOut, LeftOutOnlyWhenFull
<1> QED
  BY <1>2, <1>3, DispatchHandles, Zenon

\* No other step takes an IRQ out of the batch that is still to be reported.
LEMMA OthersLeaveNoneOut ==
  ASSUME EInv, NoneLeftOut,
         \/ \E i \in Irqs : TriggerIrq(i)
         \/ KernelEvent \/ NoMoreEvents
         \/ \E ok, moved \in BOOLEAN : IrqAlloc(ok, moved)
         \/ \E n \in 0 .. MaxEventCount : EventCheckFails(n)
         \/ \E s \in Sources : IrqReadFails(s)
         \/ \E known, last \in BOOLEAN : ReadAfuEvent(known, last)
         \/ \E consumed \in BOOLEAN : ReadAfuEventFails(consumed)
         \/ Return \/ Consume
  PROVE  NoneLeftOut'
<1> USE DEF callVars, arrayVars
<1>1. CASE (\E i \in Irqs : TriggerIrq(i)) \/ KernelEvent \/ \E ok, moved \in BOOLEAN : IrqAlloc(ok, moved)
  BY <1>1, Zenon DEF TriggerIrq, KernelEvent, IrqAlloc, NoneLeftOut, LeftOutOnlyWhenFull
<1>2. CASE (\E n \in 0 .. MaxEventCount : EventCheckFails(n)) \/ Consume
           \/ \E consumed \in BOOLEAN : ReadAfuEventFails(consumed)
  <2>1. pc' = "idle"
    BY <1>2, Zenon DEF EventCheckFails, Consume, ReadAfuEventFails
  <2> QED
    BY <2>1, SMTT(30), Z3T(30) DEF NoneLeftOut, LeftOutOnlyWhenFull
<1>3. CASE NoMoreEvents \/ \E known, last \in BOOLEAN : ReadAfuEvent(known, last)
  <2>1. /\ pc = "drain" /\ pc' \in {"loop", "drain"}
        /\ UNCHANGED <<event_count, count, pending, batch, reported>>
    BY <1>3, SMTT(30), Z3T(30) DEF NoMoreEvents, ReadAfuEvent
  <2> QED
    BY <2>1, SMTT(30), Z3T(30) DEF NoneLeftOut, LeftOutOnlyWhenFull
<1>4. ASSUME NEW s \in Sources, IrqReadFails(s) PROVE NoneLeftOut'
  <2>1. /\ pc = "loop" /\ pc' = pc /\ batch' = batch \ {s} /\ pending' = pending \ {s}
        /\ UNCHANGED <<event_count, count, reported>>
    BY <1>4, Zenon DEF IrqReadFails
  <2> QED
    BY <2>1, SMTT(30), Z3T(30) DEF NoneLeftOut, LeftOutOnlyWhenFull
<1>5. CASE Return
  <2>1. /\ pc = "loop" /\ pc' = "returned" /\ batch = {}
        /\ UNCHANGED <<event_count, count, pending, reported>>
    BY <1>5, Zenon DEF Return
  <2> QED
    BY <2>1, SMTT(30), Z3T(30) DEF NoneLeftOut, LeftOutOnlyWhenFull
<1> QED
  BY <1>1, <1>2, <1>3, <1>4, <1>5, Zenon

\* With a table that stays where it is, ocxl_afu_event_check_versioned() leaves out
\* no IRQ that had triggered and could be read, unless epoll_wait() had as many
\* other sources as event_count allows, for any number of IRQs and any event_count.
THEOREM OnlyAFullArrayLeavesOut ==
  ASSUME TableSuffices PROVE Spec => []LeftOutOnlyWhenFull
<1>1. Init => NoneLeftOut
  BY SMTT(30), Z3T(30) DEF Init, NoneLeftOut, LeftOutOnlyWhenFull
<1>2. EInv /\ NoneLeftOut /\ [Next]_vars => NoneLeftOut'
  <2> SUFFICES ASSUME EInv, NoneLeftOut, [Next]_vars PROVE NoneLeftOut'
    BY Zenon
  <2>1. CASE UNCHANGED vars
    BY <2>1, Zenon DEF vars, callVars, arrayVars, NoneLeftOut, LeftOutOnlyWhenFull
  <2> QED
    BY <2>1, CheckLeavesNoneOut, HandledIsNotLeftOut, OthersLeaveNoneOut, Zenon DEF Next
<1>3. NoneLeftOut => LeftOutOnlyWhenFull
  BY Zenon DEF NoneLeftOut
<1> QED
  BY <1>1, <1>2, <1>3, EventsInvariant, PTL DEF Spec

================================================================================

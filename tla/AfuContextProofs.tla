-------------------------- MODULE AfuContextProofs ----------------------------
(***************************************************************************)
(* The handle functions, continued: the steps that attach, that take IRQs  *)
(* and mappings, and those of ocxl_mmio_unmap(), ocxl_afu_close() and      *)
(* irq_dealloc(), which give back what was taken, keep the invariant as    *)
(* well.  Then what it gives: the ledgers of the handle functions, that    *)
(* they implement the pool of contexts, their heap, and the two tables     *)
(* that grow.                                                              *)
(***************************************************************************)
EXTENDS AfuContextInvariant

-------------------------------------------------------------------------------
(* Steps on a context that the handle keeps: attaching, allocating an IRQ.  *)

\* ocxl_afu_attach() preserves the invariant.
LEMMA AttachStep ==
  ASSUME IInv, NEW h \in Handles, Attach(h)
  PROVE  IInv'
<1>0. /\ fd[h] # -1 /\ attached' = [attached EXCEPT ![h] = TRUE]
      /\ UNCHANGED <<pc, fd, global_mmio_fd, epoll_fd, pasid, irq_count, irq_max_count,
                     eventfd, irq_offset, irq_addr, mmio_count, mmio_max_count, mmio_start,
                     mmio_type, heap>>
  BY Zenon DEF Attach, Goto, irqVars, mmioVars
<1>1. Context(h) \in Pasids
  BY <1>0, HasContext, Zenon
<1>2. Kernel(fds, maps, kirqs, kattached \cup {Context(h)}) /\ fds' = fds /\ maps' = maps
  BY Zenon DEF Attach, Kernel
<1>3. TypeOK'
  <2>1. kattached \cup {Context(h)} \in SUBSET Pasids
    BY <1>1, Zenon DEF IInv, TypeOK
  <2>2. kirqs' \in [Pasids -> SUBSET Offsets] /\ kattached' \subseteq Pasids
    BY <1>2, <2>1, TablesType, KernelTypes, Zenon
  <2> QED
    BY <1>0, <1>2, <2>2, Zenon DEF IInv, TypeOK
<1>4. Shapes'
  <2>1. Shape(h)
    BY Zenon DEF IInv, Shapes
  <2>2. \A g \in Handles : g # h => Same(g)
    BY <1>0, CallType, IrqType, MmioType, Zenon DEF Same
  <2>3. Shape(h)'
    BY <1>0, <2>1, Zenon DEF Shape, BlankIrq, IrqSteps
  <2> QED
    BY <2>2, <2>3, OtherShapes, Zenon
<1>5. DescriptorLedger' /\ KeepsContexts
  BY <1>0, <1>2, SameDescriptors, Zenon
<1>6. MappingLedger' /\ OwnContext'
  BY <1>0, <1>2, <1>5, MappingsAside, Zenon
<1>7. Base'
  BY <1>3, <1>4, <1>5, <1>6, Zenon DEF Base
<1>8. IrqLedger'
  BY <1>0, <1>2, <1>5, <1>7, KernelRemembers, KeptContext, SMTT(30), Z3T(30) DEF IInv, IrqLedger
<1>9. DeadIsEmpty'
  BY <1>2, KernelForgets, Zenon
<1>10. PerPasidIsAttached'
  <2>1. ASSUME NEW q \in Pasids, NEW a \in Addrs, maps'[a] = <<"per_pasid", q>>
        PROVE  q \in kattached'
    BY <1>2, <2>1, PerPasidIsLive, Zenon DEF IInv, PerPasidIsAttached
  <2>2. ASSUME NEW g \in Handles, fd'[g] # -1
        PROVE  attached'[g] <=> Context(g)' \in kattached'
    <3>1. fd[g] # -1 /\ Context(g)' = Context(g)
      BY <1>5, <2>2, KeptContext, Zenon
    <3>2. Context(g) \in kattached' <=> Context(g) \in kattached \cup {Context(h)}
      BY <1>2, <1>7, <2>2, <3>1, KernelRemembers, SMTT(30), Z3T(30)
    <3>3. g # h => Context(g) # Context(h)
      BY <1>0, <3>1, Zenon DEF IInv, OwnContext
    <3> QED
      BY <1>0, <3>1, <3>2, <3>3, Zenon DEF IInv, PerPasidIsAttached, TypeOK
  <2> QED
    BY <2>1, <2>2, Zenon DEF PerPasidIsAttached
<1> QED
  BY <1>7, <1>8, <1>9, <1>10, Zenon DEF Base, IInv

\* OCXL_IOCTL_IRQ_ALLOC preserves the invariant.
LEMMA IrqIoctlAllocStep ==
  ASSUME IInv, NEW h \in Handles, IrqIoctlAlloc(h)
  PROVE  IInv'
<1>0. /\ pc[h] = "irq_alloc" /\ pc' = [pc EXCEPT ![h] = "irq_set_fd"]
      /\ UNCHANGED <<fd, global_mmio_fd, epoll_fd, attached, pasid, irq_count, irq_max_count,
                     eventfd, irq_addr, mmio_count, mmio_max_count, mmio_start, mmio_type,
                     heap>>
  BY Zenon DEF IrqIoctlAlloc, Goto, structVars, mmioVars
<1>1. PICK o \in Offsets \ kirqs[Context(h)] :
        /\ irq_offset' = [irq_offset EXCEPT ![h][irq_count[h]] = o]
        /\ Kernel(fds, maps, [kirqs EXCEPT ![Context(h)] = @ \cup {o}], kattached)
  BY Zenon DEF IrqIoctlAlloc
<1>2. fds' = fds /\ maps' = maps
  BY <1>1, Zenon DEF Kernel
<1>3. fd[h] # -1 /\ irq_count[h] \in IrqSlots /\ irq_offset[h][irq_count[h]] = 0
  <2>1. Shape(h)
    BY Zenon DEF IInv, Shapes
  <2>2. fd[h] # -1 /\ irq_count[h] < MaxIrqs /\ irq_offset[h][irq_count[h]] = 0
    BY <1>0, <2>1, Zenon DEF Shape, IrqSteps
  <2> QED
    BY <2>2, BoundsAssumption, IrqType, SMTT(30), Z3T(30) DEF IrqSlots
<1>4. Context(h) \in Pasids
  BY <1>3, HasContext, Zenon
<1>5. TypeOK'
  <2>1. [kirqs EXCEPT ![Context(h)] = @ \cup {o}] \in [Pasids -> SUBSET Offsets]
    BY <1>4, Zenon DEF IInv, TypeOK
  <2>2. kirqs' \in [Pasids -> SUBSET Offsets] /\ kattached' \subseteq Pasids
    BY <1>1, <2>1, TablesType, KernelTypes, Zenon
  <2> QED
    BY <1>0, <1>1, <1>2, <1>3, <2>2, Labels, Zenon DEF IInv, TypeOK
<1>6. Shapes'
  <2>1. Shape(h)
    BY Zenon DEF IInv, Shapes
  <2>2. \A g \in Handles : g # h => Same(g)
    BY <1>0, <1>1, <1>3, CallType, IrqType, MmioType, Zenon DEF Same
  <2>3. Shape(h)'
    BY <1>0, <1>1, <1>3, <2>1, CallType, SMTT(30), Z3T(30) DEF Shape, BlankIrq, IrqSteps
  <2> QED
    BY <2>2, <2>3, OtherShapes, Zenon
<1>7. DescriptorLedger' /\ KeepsContexts
  BY <1>0, <1>2, SameDescriptors, Zenon
<1>8. MappingLedger' /\ OwnContext'
  BY <1>0, <1>2, <1>7, MappingsAside, Zenon
<1>9. Base'
  BY <1>5, <1>6, <1>7, <1>8, Zenon DEF Base
<1>10. IrqLedger'
  <2>1. ASSUME NEW g \in Handles, fd'[g] # -1
        PROVE  kirqs'[Context(g)'] = {irq_offset'[g][i] : i \in IrqSlots} \ {0}
    <3>0. fd[g] # -1 /\ Context(g)' = Context(g)
      BY <1>7, <2>1, KeptContext, Zenon
    <3> DEFINE k == [kirqs EXCEPT ![Context(h)] = @ \cup {o}]
    <3>1. Context(g) \in Pasids /\ kirqs'[Context(g)] = k[Context(g)]
      <4>1. Kernel(fds, maps, k, kattached)
        BY <1>1, Zenon
      <4> HIDE DEF k
      <4> QED
        <5>1. Context(g)' \in Pasids /\ kirqs'[Context(g)'] = k[Context(g)']
          BY <1>9, <2>1, <4>1, KernelRemembers, SMTT(30), Z3T(30)
        <5> QED
          BY <3>0, <5>1, Zenon
    <3>2. CASE g = h
      <4>1. kirqs'[Context(h)] = kirqs[Context(h)] \cup {o}
        BY <1>4, <3>1, <3>2, Zenon DEF IInv, TypeOK
      <4>2. kirqs[Context(h)] = {irq_offset[h][i] : i \in IrqSlots} \ {0}
        BY <1>3, Zenon DEF IInv, IrqLedger
      <4>3. /\ irq_offset'[h][irq_count[h]] = o /\ o # 0
            /\ \A i \in IrqSlots : i # irq_count[h] => irq_offset'[h][i] = irq_offset[h][i]
        BY <1>1, <1>3, SMTT(30), Z3T(30) DEF IInv, TypeOK, Offsets
      <4>4. {irq_offset'[h][i] : i \in IrqSlots} \ {0} = ({irq_offset[h][i] : i \in IrqSlots} \ {0}) \cup {o}
        BY <1>3, <4>3, SMTT(30), Z3T(30)
      <4> QED
        BY <3>0, <3>2, <4>1, <4>2, <4>4, SMTT(30), Z3T(30)
    <3>3. CASE g # h
      <4>1. Context(g) # Context(h)
        BY <1>3, <3>0, <3>3, Zenon DEF IInv, OwnContext
      <4>2. kirqs'[Context(g)] = kirqs[Context(g)] /\ irq_offset'[g] = irq_offset[g]
        BY <1>1, <3>1, <3>3, <4>1, Zenon DEF IInv, TypeOK
      <4> QED
        BY <3>0, <4>2, SMTT(30), Z3T(30) DEF IInv, IrqLedger
    <3> QED
      BY <3>2, <3>3, Zenon
  <2>2. ASSUME NEW g \in Handles, NEW i \in IrqSlots, NEW j \in IrqSlots, i # j, irq_offset'[g][i] # 0
        PROVE  irq_offset'[g][i] # irq_offset'[g][j]
    <3>1. \A k \in IrqSlots : irq_offset[h][k] # o
      BY <1>1, <1>3, SMTT(30), Z3T(30) DEF IInv, IrqLedger, Offsets
    <3> QED
      BY <1>1, <1>3, <2>2, <3>1, SMTT(30), Z3T(30) DEF IInv, IrqLedger, TypeOK
  <2> QED
    BY <2>1, <2>2, Zenon DEF IrqLedger
<1>11. DeadIsEmpty'
  BY <1>1, KernelForgets, Zenon
<1>12. PerPasidIsAttached'
  <2>1. ASSUME NEW q \in Pasids, NEW a \in Addrs, maps'[a] = <<"per_pasid", q>>
        PROVE  q \in kattached'
    BY <1>1, <1>2, <2>1, PerPasidIsLive, Zenon DEF IInv, PerPasidIsAttached
  <2>2. ASSUME NEW g \in Handles, fd'[g] # -1
        PROVE  attached'[g] <=> Context(g)' \in kattached'
    BY <1>0, <1>1, <1>7, <1>9, <2>2, KernelRemembers, KeptContext, SMTT(30), Z3T(30) DEF IInv, PerPasidIsAttached
  <2> QED
    BY <2>1, <2>2, Zenon DEF PerPasidIsAttached
<1> QED
  BY <1>9, <1>10, <1>11, <1>12, Zenon DEF Base, IInv

-------------------------------------------------------------------------------
(* Steps that map an area.                                                  *)

\* No handle records an address that is not mapped.
LEMMA UnmappedUnowned ==
  ASSUME IInv, NEW a \in Addrs, maps[a] = Unmapped, NEW g \in Handles
  PROVE  ~OwnsMap(g, a)
<1> USE NamesAssumption
<1>1. MapsOf(g)
  BY Zenon DEF IInv, MappingLedger
<1>2. \A i \in IrqSlots : irq_addr[g][i] # a
  BY <1>1, SMTT(30), Z3T(30) DEF MapsOf, Unmapped
<1>3. \A i \in MmioSlots : mmio_start[g][i] # a
  BY <1>1, SMTT(30), Z3T(30) DEF MapsOf, AreaOf, Unmapped
<1> QED
  BY <1>2, <1>3, Zenon DEF OwnsMap

\* A free address that one slot of one handle comes to record.
LEMMA NewMapping ==
  ASSUME IInv, NEW h \in Handles, NEW a \in Addrs, maps[a] = Unmapped, NEW area,
         maps' = [maps EXCEPT ![a] = area],
         \A g \in Handles, b \in Addrs : OwnsMap(g, b)' <=> OwnsMap(g, b) \/ (g = h /\ b = a),
         \A g \in Handles : MapsOf(g)'
  PROVE  MappingLedger'
<1>1. \A b \in Addrs : maps'[b] # Unmapped => \E g \in Handles : OwnsMap(g, b)'
  BY Zenon DEF IInv, MappingLedger, TypeOK
<1>2. \A f, g \in Handles, b \in Addrs : OwnsMap(f, b)' /\ OwnsMap(g, b)' => f = g
  BY UnmappedUnowned, Zenon DEF IInv, MappingLedger
<1> QED
  BY <1>1, <1>2, Zenon DEF MappingLedger

\* Addresses that one handle gives up.
LEMMA ReleasedMappings ==
  ASSUME IInv, NEW h \in Handles, NEW A \in SUBSET Addrs,
         maps' = [b \in Addrs |-> IF b \in A THEN Unmapped ELSE maps[b]],
         \A g \in Handles, b \in Addrs : OwnsMap(g, b)' <=> OwnsMap(g, b) /\ ~(g = h /\ b \in A),
         \A g \in Handles : MapsOf(g)'
  PROVE  MappingLedger'
<1>1. \A b \in Addrs : maps'[b] # Unmapped => \E g \in Handles : OwnsMap(g, b)'
  BY Zenon DEF IInv, MappingLedger
<1>2. \A f, g \in Handles, b \in Addrs : OwnsMap(f, b)' /\ OwnsMap(g, b)' => f = g
  BY Zenon DEF IInv, MappingLedger
<1> QED
  BY <1>1, <1>2, Zenon DEF MappingLedger

\* The mappings of a handle that the step does not concern.
LEMMA OtherMappings ==
  ASSUME IInv, NEW g \in Handles,
         mmio_start'[g] = mmio_start[g], irq_addr'[g] = irq_addr[g],
         mmio_count'[g] = mmio_count[g], mmio_type'[g] = mmio_type[g],
         fd[g] # -1 => Context(g)' = Context(g),
         \A b \in Addrs : OwnsMap(g, b) => maps'[b] = maps[b]
  PROVE  MapsOf(g)'
<1> USE NamesAssumption
<1>1. MapsOf(g)
  BY Zenon DEF IInv, MappingLedger
<1>2. ASSUME NEW i \in MmioSlots, mmio_start'[g][i] # NULL
      PROVE  i < mmio_count'[g] /\ maps'[mmio_start'[g][i]] = AreaOf(g, mmio_type[g][i])'
  <2>1. mmio_start[g][i] \in Addrs /\ OwnsMap(g, mmio_start[g][i])
    BY <1>2, SMTT(30), Z3T(30) DEF OwnsMap, IInv, TypeOK
  <2>2. Context(g)' = Context(g)
    BY <2>1, MappedHasContext, Zenon DEF IInv, Base
  <2> QED
    BY <1>1, <1>2, <2>1, <2>2, SMTT(30), Z3T(30) DEF MapsOf, AreaOf
<1>3. ASSUME NEW i \in IrqSlots, irq_addr'[g][i] \in Addrs
      PROVE  maps'[irq_addr'[g][i]] = <<"irq", Context(g)'>>
  <2>1. OwnsMap(g, irq_addr[g][i])
    BY <1>3, Zenon DEF OwnsMap
  <2>2. Context(g)' = Context(g)
    BY <1>3, <2>1, MappedHasContext, Zenon DEF IInv, Base
  <2> QED
    BY <1>1, <1>3, <2>1, <2>2, Zenon DEF MapsOf
<1>4. ASSUME NEW i \in IrqSlots, NEW j \in IrqSlots, i # j, irq_addr'[g][i] \in Addrs
      PROVE  irq_addr'[g][i] # irq_addr'[g][j]
  BY <1>1, <1>4, Zenon DEF MapsOf
<1>5. ASSUME NEW i \in MmioSlots, NEW j \in MmioSlots, i # j, mmio_start'[g][i] # NULL
      PROVE  mmio_start'[g][i] # mmio_start'[g][j]
  BY <1>1, <1>5, Zenon DEF MapsOf
<1> QED
  BY <1>2, <1>3, <1>4, <1>5, Zenon DEF MapsOf

\* The mmap() of an IRQ's trigger page, which may fail, preserves the invariant.
LEMMA IrqMmapStep ==
  ASSUME IInv, NEW h \in Handles, IrqMmap(h)
  PROVE  IInv'
<1> USE NamesAssumption
<1>0. /\ pc[h] = "irq_mmap" /\ pc' = [pc EXCEPT ![h] = "irq_epoll"]
      /\ UNCHANGED <<fd, global_mmio_fd, epoll_fd, attached, pasid, irq_count, irq_max_count,
                     eventfd, irq_offset, mmio_count, mmio_max_count, mmio_start, mmio_type,
                     heap>>
  BY Zenon DEF IrqMmap, Goto, structVars, mmioVars
<1>1. PICK a \in Addrs :
        /\ maps[a] = Unmapped
        /\ irq_addr' = [irq_addr EXCEPT ![h][irq_count[h]] = a]
        /\ Kernel(fds, [maps EXCEPT ![a] = <<"irq", Context(h)>>], kirqs, kattached)
  BY Zenon DEF IrqMmap
<1>2. fds' = fds /\ maps' = [maps EXCEPT ![a] = <<"irq", Context(h)>>]
  BY <1>1, Zenon DEF Kernel
<1>3. fd[h] # -1 /\ irq_count[h] \in IrqSlots /\ irq_addr[h][irq_count[h]] = NULL
  <2>1. Shape(h) /\ pc[h] \in IrqSteps
    BY <1>0, Zenon DEF IInv, Shapes, IrqSteps
  <2>2. irq_count[h] \in IrqSlots
    <3>1. irq_count[h] < MaxIrqs
      BY <2>1, Zenon DEF Shape
    <3> QED
      BY <3>1, IrqType, BoundsAssumption, SMTT(30), Z3T(30) DEF IrqSlots
  <2> QED
    BY <1>0, <2>1, <2>2, Zenon DEF Shape, IrqSteps
<1>4. TypeOK'
  <2>1. [maps EXCEPT ![a] = <<"irq", Context(h)>>] \in [Addrs -> Areas]
    BY <1>3, HasContext, FilesAndAreas, Zenon DEF IInv, TypeOK
  <2>2. kirqs' \in [Pasids -> SUBSET Offsets] /\ kattached' \subseteq Pasids
    BY <1>1, <2>1, TablesType, KernelTypes, Zenon
  <2> QED
    BY <1>0, <1>1, <1>2, <1>3, <2>1, <2>2, Labels, Zenon DEF IInv, TypeOK
<1>5. Shapes'
  <2>1. Shape(h)
    BY Zenon DEF IInv, Shapes
  <2>2. \A g \in Handles : g # h => Same(g)
    BY <1>0, <1>1, <1>3, CallType, IrqType, Zenon DEF Same
  <2>3. Shape(h)'
    BY <1>0, <1>1, <1>3, <2>1, CallType, SMTT(30), Z3T(30) DEF Shape, BlankIrq, IrqSteps
  <2> QED
    BY <2>2, <2>3, OtherShapes, Zenon
<1>6. DescriptorLedger' /\ KeepsContexts /\ OwnContext'
  BY <1>0, <1>2, SameDescriptors, SameContexts, Zenon
<1>7. \A g \in Handles : Context(g)' = Context(g) /\ ~OwnsMap(g, a)
  BY <1>0, <1>1, <1>2, UnmappedUnowned, Zenon DEF Context
<1>8. MappingLedger'
  <2>1. \A g \in Handles, b \in Addrs : OwnsMap(g, b)' <=> OwnsMap(g, b) \/ (g = h /\ b = a)
    BY <1>0, <1>1, <1>3, SMTT(30), Z3T(30) DEF OwnsMap, IInv, TypeOK
  <2>2. ASSUME NEW g \in Handles PROVE MapsOf(g)'
    <3>1. CASE g # h
      BY <1>0, <1>1, <1>2, <1>7, <3>1, OtherMappings, Zenon DEF IInv, TypeOK
    <3>2. CASE g = h
      <4>1. MapsOf(h) /\ ~OwnsMap(h, a)
        BY <1>7, Zenon DEF IInv, MappingLedger
      <4>2. \A i \in IrqSlots : irq_addr'[h][i] = IF i = irq_count[h] THEN a ELSE irq_addr[h][i]
        BY <1>1, <1>3, ZenonT(30) DEF IInv, TypeOK
      <4>3. \A i \in MmioSlots : mmio_start'[h][i] # NULL =>
              i < mmio_count'[h] /\ maps'[mmio_start'[h][i]] = AreaOf(h, mmio_type[h][i])'
        <5>1. \A type : AreaOf(h, type)' = AreaOf(h, type)
          BY <1>7, Zenon DEF AreaOf
        <5>2. \A i \in MmioSlots : mmio_start[h][i] # NULL => maps'[mmio_start[h][i]] = maps[mmio_start[h][i]]
          BY <1>2, <4>1, SMTT(30), Z3T(30) DEF OwnsMap
        <5> QED
          BY <1>0, <4>1, <5>1, <5>2, Zenon DEF MapsOf
      <4>4. \A i \in IrqSlots : irq_addr'[h][i] \in Addrs => maps'[irq_addr'[h][i]] = <<"irq", Context(h)'>>
        BY <1>2, <1>7, <4>1, <4>2, TablesType, Zenon DEF MapsOf, OwnsMap
      <4>5. \A i, j \in IrqSlots : i # j /\ irq_addr'[h][i] \in Addrs => irq_addr'[h][i] # irq_addr'[h][j]
        BY <4>1, <4>2, ZenonT(60) DEF MapsOf, OwnsMap
      <4> QED
        BY <1>0, <3>2, <4>1, <4>3, <4>4, <4>5, Zenon DEF MapsOf
    <3> QED
      BY <3>1, <3>2, Zenon
  <2> QED
    BY <1>1, <1>2, <2>1, <2>2, NewMapping, Zenon
<1>9. \A b \in Addrs, p \in Pasids : maps'[b] = <<"per_pasid", p>> => maps[b] = <<"per_pasid", p>>
  BY <1>2, Zenon DEF IInv, TypeOK
<1> QED
  BY <1>0, <1>1, <1>4, <1>5, <1>6, <1>8, <1>9, OnlyTheLedgers, Zenon DEF Base

\* ocxl_mmio_map_advanced() preserves the invariant.
LEMMA MmioMapStep ==
  ASSUME IInv, NEW h \in Handles, NEW type \in MmioTypes, MmioMap(h, type)
  PROVE  IInv'
<1> USE NamesAssumption
<1>0. pc[h] = "ready" /\ MayMap(h, type) /\ UNCHANGED <<pc, fd, global_mmio_fd, epoll_fd,
                                                        attached, pasid, irq_count,
                                                        irq_max_count, eventfd, irq_offset,
                                                        irq_addr>>
  BY Zenon DEF MmioMap, structVars, irqVars
<1> PICK area : area = AreaOf(h, type)
  BY Zenon
<1>1. PICK a \in Addrs, n \in MmioSlots :
        /\ maps[a] = Unmapped
        /\ RegisterSlot(h, n)
        /\ Kernel(fds, [maps EXCEPT ![a] = area], kirqs, kattached)
        /\ mmio_start' = [mmio_start EXCEPT ![h][n] = a]
        /\ mmio_type' = [mmio_type EXCEPT ![h][n] = type]
        /\ mmio_count' = [mmio_count EXCEPT ![h] = NextMmioCount(h, n)]
        /\ mmio_max_count' = [mmio_max_count EXCEPT ![h] =
             IF MustGrowMmios(h) THEN ToUint16(new_count(@, INITIAL_MMIO_COUNT)) ELSE @]
        /\ heap' = IF MustGrowMmios(h) THEN heap \cup {<<h, "mmios">>} ELSE heap
  BY Zenon DEF MmioMap
<1>2. fds' = fds /\ maps' = [maps EXCEPT ![a] = area]
  BY <1>1, Zenon DEF Kernel
<1>3. fd[h] # -1 /\ Context(h) \in Pasids
  <2>1. fd[h] # -1
    BY <1>0, Zenon DEF IInv, Shapes, Shape
  <2> QED
    BY <2>1, HasContext, Zenon
<1>4. /\ mmio_count[h] \in Nat /\ mmio_start[h][n] = NULL /\ n \in Nat
      /\ n <= mmio_count[h] /\ n < MaxMmios
  <2>1. MapsOf(h) /\ mmio_count[h] \in Nat /\ n \in Nat /\ n < MaxMmios
    <3>1. MapsOf(h)
      BY ZenonT(30) DEF IInv, MappingLedger
    <3> QED
      BY <3>1, BoundsAssumption, MmioType, SMTT(30), Z3T(30) DEF MmioSlots
  <2> QED
    BY <1>1, <2>1, SMTT(30), Z3T(30) DEF RegisterSlot, MapsOf
<1>5. TypeOK'
  <2>1. [maps EXCEPT ![a] = area] \in [Addrs -> Areas]
    BY <1>3, FilesAndAreas, Zenon DEF IInv, TypeOK, AreaOf
  <2>2. kirqs' \in [Pasids -> SUBSET Offsets] /\ kattached' \subseteq Pasids
    BY <1>1, <2>1, TablesType, KernelTypes, Zenon
  <2>3. heap' \subseteq Handles \X Blocks
    BY <1>1, SMTT(30), Z3T(30) DEF IInv, TypeOK, Blocks
  <2>4. mmio_max_count' \in [Handles -> Nat]
    BY <1>0, <1>1, GrownIsNat, BoundsAssumption, ZenonT(30) DEF IInv, TypeOK
  <2>5. mmio_count' \in [Handles -> 0 .. MaxMmios]
    BY <1>1, <1>4, BoundsAssumption, SMTT(30), Z3T(30) DEF IInv, TypeOK, NextMmioCount
  <2> QED
    BY <1>0, <1>1, <1>2, <2>1, <2>2, <2>3, <2>4, <2>5, Zenon DEF IInv, TypeOK
<1>6. Shapes'
  <2>1. Shape(h)
    BY Zenon DEF IInv, Shapes
  <2>2. \A g \in Handles : g # h => Same(g)
    BY <1>0, <1>1, MmioType, Zenon DEF Same
  <2>3. Shape(h)'
    BY <1>0, <1>1, <2>1, Zenon DEF Shape, BlankIrq, IrqSteps
  <2> QED
    BY <2>2, <2>3, OtherShapes, Zenon
<1>7. DescriptorLedger' /\ KeepsContexts /\ OwnContext'
  BY <1>0, <1>2, SameDescriptors, SameContexts, Zenon
<1>8. \A g \in Handles : Context(g)' = Context(g) /\ ~OwnsMap(g, a)
  BY <1>0, <1>1, <1>2, UnmappedUnowned, Zenon DEF Context
<1>9. MappingLedger'
  <2>1. \A g \in Handles, b \in Addrs : OwnsMap(g, b)' <=> OwnsMap(g, b) \/ (g = h /\ b = a)
    BY <1>0, <1>1, <1>4, SMTT(30), Z3T(30) DEF OwnsMap, IInv, TypeOK
  <2>2. ASSUME NEW g \in Handles PROVE MapsOf(g)'
    <3>1. CASE g # h
      BY <1>0, <1>1, <1>2, <1>8, <3>1, OtherMappings, Zenon DEF IInv, TypeOK
    <3>2. CASE g = h
      <4>1. MapsOf(h) /\ ~OwnsMap(h, a)
        BY <1>8, Zenon DEF IInv, MappingLedger
      <4>2. \A i \in MmioSlots : /\ mmio_start'[h][i] = IF i = n THEN a ELSE mmio_start[h][i]
                                 /\ mmio_type'[h][i] = IF i = n THEN type ELSE mmio_type[h][i]
        BY <1>1, Zenon DEF IInv, TypeOK
      <4>3. \A i \in MmioSlots : mmio_start'[h][i] # NULL =>
              i < mmio_count'[h] /\ maps'[mmio_start'[h][i]] = AreaOf(h, mmio_type[h][i])'
        <5> SUFFICES ASSUME NEW i \in MmioSlots, mmio_start'[h][i] # NULL
                     PROVE  i < mmio_count'[h] /\ maps'[mmio_start'[h][i]] = AreaOf(h, mmio_type[h][i])'
          BY Zenon
        <5>1. Context(h)' = Context(h)
          BY <1>8, Zenon
        <5>2. mmio_count'[h] = IF n = mmio_count[h] THEN mmio_count[h] + 1 ELSE mmio_count[h]
          BY <1>1, ZenonT(30) DEF IInv, TypeOK, NextMmioCount
        <5>3. i \in Nat
          BY SMTT(30), Z3T(30) DEF MmioSlots
        <5>4. CASE i = n
          BY <1>2, <1>4, <4>2, <5>1, <5>2, <5>4, TablesType, SMTT(30), Z3T(30) DEF AreaOf
        <5>5. CASE i # n
          <6>1. i < mmio_count[h] /\ maps[mmio_start[h][i]] = AreaOf(h, mmio_type[h][i])
            BY <4>1, <4>2, <5>5, ZenonT(30) DEF MapsOf
          <6>2. mmio_start[h][i] # a /\ mmio_start[h][i] \in Addrs
            BY <4>1, <4>2, <5>5, SMTT(30), Z3T(30) DEF OwnsMap, IInv, TypeOK
          <6>3. maps'[mmio_start[h][i]] = maps[mmio_start[h][i]]
            BY <1>2, <6>2, Zenon DEF IInv, TypeOK
          <6> QED
            BY <1>4, <4>2, <5>1, <5>2, <5>3, <5>5, <6>1, <6>3, SMTT(30), Z3T(30) DEF AreaOf
        <5> QED
          BY <5>4, <5>5, Zenon
      <4>4. \A i \in IrqSlots : irq_addr'[h][i] \in Addrs => maps'[irq_addr'[h][i]] = <<"irq", Context(h)'>>
        BY <1>0, <1>2, <1>8, <4>1, Zenon DEF MapsOf, OwnsMap, IInv, TypeOK
      <4>5. \A i, j \in MmioSlots : i # j /\ mmio_start'[h][i] # NULL => mmio_start'[h][i] # mmio_start'[h][j]
        BY <4>1, <4>2, ZenonT(30) DEF MapsOf, OwnsMap
      <4>6. \A i, j \in IrqSlots : i # j /\ irq_addr'[h][i] \in Addrs => irq_addr'[h][i] # irq_addr'[h][j]
        BY <1>0, <4>1, Zenon DEF MapsOf
      <4> QED
        BY <3>2, <4>3, <4>4, <4>5, <4>6, Zenon DEF MapsOf
    <3> QED
      BY <3>1, <3>2, Zenon
  <2> QED
    BY <1>0, <1>1, <1>2, <2>1, <2>2, NewMapping, ZenonT(30)
<1>10. ASSUME NEW b \in Addrs, NEW p \in Pasids, maps'[b] = <<"per_pasid", p>>
       PROVE  maps[b] = <<"per_pasid", p>> \/ p \in kattached
  <2>1. CASE b # a
    BY <1>2, <1>10, <2>1, Zenon DEF IInv, TypeOK
  <2>2. CASE b = a
    <3>1. AreaOf(h, type) = <<"per_pasid", p>>
      BY <1>2, <1>10, <2>2, Zenon DEF IInv, TypeOK
    <3>2. type = "per_pasid" /\ Context(h) = p
      BY <3>1, Zenon DEF AreaOf, MmioTypes
    <3> QED
      BY <1>0, <1>3, <3>2, Zenon DEF MayMap, IInv, PerPasidIsAttached
  <2> QED
    BY <2>1, <2>2, Zenon
<1> QED
  BY <1>0, <1>1, <1>5, <1>6, <1>7, <1>9, <1>10, OnlyTheLedgers, Zenon DEF Base

\* So does its path without memory for the table.
LEMMA MmioMapNoMemStep ==
  ASSUME IInv, NEW h \in Handles, NEW type \in MmioTypes, MmioMapNoMem(h, type)
  PROVE  IInv'
<1>0. UNCHANGED <<pc, fd, global_mmio_fd, epoll_fd, attached, pasid, irq_count, irq_max_count,
                  eventfd, irq_offset, irq_addr, mmio_count, mmio_max_count, mmio_start,
                  mmio_type, heap>>
  BY Zenon DEF MmioMapNoMem, structVars, irqVars, mmioVars
<1> PICK area : area = AreaOf(h, type)
  BY Zenon
<1>1. PICK a \in Addrs :
        /\ maps[a] = Unmapped
        /\ Kernel(fds, [[maps EXCEPT ![a] = area] EXCEPT ![a] = Unmapped], kirqs, kattached)
  BY Zenon DEF MmioMapNoMem
<1>2. [[maps EXCEPT ![a] = area] EXCEPT ![a] = Unmapped] = maps
  BY <1>1, Zenon DEF IInv, TypeOK
<1>3. Kernel(fds, maps, kirqs, kattached) /\ fds' = fds /\ maps' = maps
  BY <1>1, <1>2, Zenon DEF Kernel
<1>4. TypeOK'
  <2>1. kirqs' \in [Pasids -> SUBSET Offsets] /\ kattached' \subseteq Pasids
    BY <1>3, TablesType, KernelTypes, Zenon
  <2> QED
    BY <1>0, <1>3, <2>1, Zenon DEF IInv, TypeOK
<1>5. Shapes'
  <2>1. Shape(h)
    BY Zenon DEF IInv, Shapes
  <2>2. \A g \in Handles : g # h => Same(g)
    BY <1>0, Zenon DEF Same
  <2>3. Shape(h)'
    BY <1>0, <2>1, Zenon DEF Shape, BlankIrq, IrqSteps
  <2> QED
    BY <2>2, <2>3, OtherShapes, Zenon
<1>6. DescriptorLedger' /\ KeepsContexts
  BY <1>0, <1>3, SameDescriptors, Zenon
<1>7. MappingLedger' /\ OwnContext'
  BY <1>0, <1>3, <1>6, MappingsAside, Zenon
<1> QED
  BY <1>0, <1>3, <1>4, <1>5, <1>6, <1>7, OnlyTheLedgers, Zenon DEF Base

-------------------------------------------------------------------------------
(* Steps that unmap areas and close descriptors.                            *)

\* ocxl_mmio_unmap() preserves the invariant.
LEMMA MmioUnmapStep ==
  ASSUME IInv, NEW h \in Handles, NEW n \in MmioSlots, MmioUnmap(h, n)
  PROVE  IInv'
<1> USE NamesAssumption
<1>0. /\ mmio_start[h][n] # NULL /\ mmio_start' = [mmio_start EXCEPT ![h][n] = NULL]
      /\ UNCHANGED <<pc, fd, global_mmio_fd, epoll_fd, attached, pasid, irq_count,
                     irq_max_count, eventfd, irq_offset, irq_addr, mmio_count, mmio_max_count,
                     mmio_type, heap>>
  BY Zenon DEF MmioUnmap, Goto, structVars, irqVars
<1> DEFINE a == mmio_start[h][n]
<1>1. a \in Addrs /\ OwnsMap(h, a)
  BY <1>0, SMTT(30), Z3T(30) DEF IInv, TypeOK, OwnsMap
<1>2. /\ Kernel(fds, [maps EXCEPT ![a] = Unmapped], kirqs, kattached)
      /\ fds' = fds /\ maps' = [maps EXCEPT ![a] = Unmapped]
  BY Zenon DEF MmioUnmap, Kernel
<1>3. TypeOK'
  <2>1. [maps EXCEPT ![a] = Unmapped] \in [Addrs -> Areas]
    BY FilesAndAreas, Zenon DEF IInv, TypeOK
  <2>2. kirqs' \in [Pasids -> SUBSET Offsets] /\ kattached' \subseteq Pasids
    BY <1>2, <2>1, TablesType, KernelTypes, Zenon
  <2> QED
    BY <1>0, <1>2, <2>1, <2>2, Zenon DEF IInv, TypeOK
<1>4. Shapes'
  <2>1. Shape(h)
    BY Zenon DEF IInv, Shapes
  <2>2. \A g \in Handles : g # h => Same(g)
    BY <1>0, MmioType, Zenon DEF Same
  <2>3. Shape(h)'
    BY <1>0, <2>1, Zenon DEF Shape, BlankIrq, IrqSteps
  <2> QED
    BY <2>2, <2>3, OtherShapes, Zenon
<1>5. DescriptorLedger' /\ KeepsContexts /\ OwnContext'
  BY <1>0, <1>2, SameDescriptors, SameContexts, Zenon
<1>6. \A g \in Handles : Context(g)' = Context(g) /\ (g # h => ~OwnsMap(g, a))
  BY <1>0, <1>1, <1>2, Zenon DEF Context, IInv, MappingLedger
<1>7. MapsOf(h)
  BY Zenon DEF IInv, MappingLedger
<1>8. \A i \in MmioSlots : mmio_start'[h][i] = IF i = n THEN NULL ELSE mmio_start[h][i]
  BY <1>0, ZenonT(30) DEF IInv, TypeOK
<1>9. /\ \A i \in MmioSlots : i # n => mmio_start[h][i] # a
      /\ \A i \in IrqSlots : irq_addr[h][i] # a
  <2>1. \A i \in MmioSlots : i # n => mmio_start[h][i] # a
    BY <1>0, <1>7, Zenon DEF MapsOf
  <2>2. maps[a] = AreaOf(h, mmio_type[h][n])
    BY <1>0, <1>7, Zenon DEF MapsOf
  <2>3. \A i \in IrqSlots : irq_addr[h][i] = a => maps[a] = <<"irq", Context(h)>>
    BY <1>1, <1>7, Zenon DEF MapsOf
  <2> QED
    BY <2>1, <2>2, <2>3, SMTT(30), Z3T(30) DEF AreaOf
<1>10. MappingLedger'
  <2>1. maps' = [b \in Addrs |-> IF b \in {a} THEN Unmapped ELSE maps[b]]
    BY <1>2, Zenon DEF IInv, TypeOK
  <2>2. \A g \in Handles, b \in Addrs : OwnsMap(g, b)' <=> OwnsMap(g, b) /\ ~(g = h /\ b \in {a})
    <3> SUFFICES ASSUME NEW g \in Handles, NEW b \in Addrs
                 PROVE  OwnsMap(g, b)' <=> OwnsMap(g, b) /\ ~(g = h /\ b \in {a})
      BY Zenon
    <3>1. CASE g # h
      BY <1>0, <3>1, Zenon DEF OwnsMap, IInv, TypeOK
    <3>2. CASE g = h
      BY <1>0, <1>1, <1>8, <1>9, <3>2, Zenon DEF OwnsMap
    <3> QED
      BY <3>1, <3>2, Zenon
  <2>3. ASSUME NEW g \in Handles PROVE MapsOf(g)'
    <3>1. CASE g # h
      <4>1. \A b \in Addrs : OwnsMap(g, b) => maps'[b] = maps[b]
        BY <1>6, <2>1, <3>1, ZenonT(30)
      <4> QED
        BY <1>0, <1>6, <3>1, <4>1, OtherMappings, Zenon DEF IInv, TypeOK
    <3>2. CASE g = h
      <4>1. \A i \in MmioSlots : mmio_start'[h][i] # NULL =>
              i < mmio_count'[h] /\ maps'[mmio_start'[h][i]] = AreaOf(h, mmio_type[h][i])'
        <5>1. \A t : AreaOf(h, t)' = AreaOf(h, t)
          BY <1>6, Zenon DEF AreaOf
        <5>2. \A i \in MmioSlots : i # n /\ mmio_start[h][i] # NULL => maps'[mmio_start[h][i]] = maps[mmio_start[h][i]]
          BY <1>9, <2>1, SMTT(30), Z3T(30) DEF IInv, TypeOK
        <5> QED
          BY <1>0, <1>7, <1>8, <5>1, <5>2, SMTT(30), Z3T(30) DEF MapsOf
      <4>2. \A i \in IrqSlots : irq_addr'[h][i] \in Addrs => maps'[irq_addr'[h][i]] = <<"irq", Context(h)'>>
        BY <1>0, <1>6, <1>7, <1>9, <2>1, ZenonT(30) DEF MapsOf
      <4>3. \A i, j \in MmioSlots : i # j /\ mmio_start'[h][i] # NULL => mmio_start'[h][i] # mmio_start'[h][j]
        BY <1>7, <1>8, Zenon DEF MapsOf
      <4>4. \A i, j \in IrqSlots : i # j /\ irq_addr'[h][i] \in Addrs => irq_addr'[h][i] # irq_addr'[h][j]
        BY <1>0, <1>7, Zenon DEF MapsOf
      <4> QED
        BY <3>2, <4>1, <4>2, <4>3, <4>4, Zenon DEF MapsOf
    <3> QED
      BY <3>1, <3>2, Zenon
  <2> QED
    BY <1>1, <2>1, <2>2, <2>3, ReleasedMappings, ZenonT(30)
<1>11. \A b \in Addrs, p \in Pasids : maps'[b] = <<"per_pasid", p>> => maps[b] = <<"per_pasid", p>>
  BY <1>2, Zenon DEF IInv, TypeOK, Unmapped
<1> QED
  BY <1>0, <1>2, <1>3, <1>4, <1>5, <1>10, <1>11, OnlyTheLedgers, Zenon DEF Base

-------------------------------------------------------------------------------
(* The steps of ocxl_afu_close() and irq_dealloc().                         *)

\* Descriptors that one handle gives up.
LEMMA ReleasedDescriptors ==
  ASSUME IInv, NEW h \in Handles, NEW D,
         fds' = [e \in Fds |-> IF e \in D THEN Closed ELSE fds[e]],
         \A g \in Handles, e \in Fds : OwnsFd(g, e)' <=> OwnsFd(g, e) /\ ~(g = h /\ e \in D),
         \A g \in Handles : FdsOf(g)'
  PROVE  DescriptorLedger'
<1>1. \A e \in Fds : fds'[e] # Closed => \E g \in Handles : OwnsFd(g, e)'
  BY Zenon DEF IInv, DescriptorLedger
<1>2. \A f, g \in Handles, e \in Fds : OwnsFd(f, e)' /\ OwnsFd(g, e)' => f = g
  BY Zenon DEF IInv, DescriptorLedger
<1> QED
  BY <1>1, <1>2, Zenon DEF DescriptorLedger

\* The descriptors of a handle that the step does not concern.
LEMMA OtherDescriptors ==
  ASSUME IInv, NEW g \in Handles,
         fd'[g] = fd[g], global_mmio_fd'[g] = global_mmio_fd[g], epoll_fd'[g] = epoll_fd[g],
         eventfd'[g] = eventfd[g],
         \A e \in Fds : OwnsFd(g, e) => fds'[e] = fds[e]
  PROVE  /\ FdsOf(g)'
         /\ \A e \in Fds : OwnsFd(g, e)' <=> OwnsFd(g, e)
         /\ fd[g] # -1 => fds'[fd[g]] = fds[fd[g]] /\ Context(g)' = Context(g)
<1>1. FdsOf(g)
  BY Zenon DEF IInv, DescriptorLedger
<1>2. /\ \A i \in IrqSlots : eventfd[g][i] # -1 => eventfd[g][i] \in Fds
      /\ fd[g] # -1 => fd[g] \in Fds
      /\ global_mmio_fd[g] # -1 => global_mmio_fd[g] \in Fds
      /\ epoll_fd[g] # -1 => epoll_fd[g] \in Fds
  BY SMTT(30), Z3T(30) DEF IInv, TypeOK
<1>3. FdsOf(g)'
  BY <1>1, <1>2, SMTT(30), Z3T(30) DEF FdsOf, OwnsFd
<1> QED
  BY <1>2, <1>3, Zenon DEF OwnsFd, Context

\* A step of ocxl_afu_close() that unmaps an area preserves the invariant.
LEMMA CloseMmiosStep ==
  ASSUME IInv, NEW h \in Handles, CloseMmios(h)
  PROVE  IInv'
<1> USE NamesAssumption
<1> DEFINE c == global_mmio_fd[h]
           A == {a \in Addrs : \E i \in MmioSlots : mmio_start[h][i] = a}
           f == [d \in Fds |-> IF d = c THEN Closed ELSE fds[d]]
           m == [a \in Addrs |-> IF a \in A THEN Unmapped ELSE maps[a]]
<1>1. MapsOf(h) /\ FdsOf(h) /\ mmio_count[h] \in 0 .. MaxMmios /\ Shape(h)
  BY Zenon DEF IInv, MappingLedger, DescriptorLedger, TypeOK, Shapes
<1>2. /\ pc[h] = "close_mmios"
      /\ pc' = [pc EXCEPT ![h] = "close_irqs"]
      /\ global_mmio_fd' = [global_mmio_fd EXCEPT ![h] = -1]
      /\ UNCHANGED <<fd, epoll_fd, attached, pasid, irq_count, irq_max_count, eventfd,
                     irq_offset, irq_addr, mmio_count, mmio_max_count, mmio_type, heap>>
  BY Zenon DEF CloseMmios, Goto, irqVars
<1>3. \A i \in MmioSlots : mmio_start[h][i] # NULL => i \in 0 .. mmio_count[h] - 1
  BY <1>1, SMTT(30), Z3T(30) DEF MapsOf, MmioSlots
<1>4. Kernel(f, m, kirqs, kattached)
  <2>1. 0 .. mmio_count[h] - 1 \subseteq MmioSlots
    BY <1>1, BoundsAssumption, SMTT(30), Z3T(30) DEF MmioSlots
  <2>2. m = [a \in Addrs |-> IF \E i \in 0 .. mmio_count[h] - 1 : mmio_start[h][i] = a
                             THEN Unmapped ELSE maps[a]]
    BY <1>3, <2>1, Zenon
  <2> QED
    BY <2>2, Zenon DEF CloseMmios
<1>5. fds' = f /\ maps' = m
  BY <1>4, Zenon DEF Kernel
<1>6. mmio_start' = [mmio_start EXCEPT ![h] = [i \in MmioSlots |-> NULL]]
  <2>1. \A i \in MmioSlots : ~(i < mmio_count[h]) => mmio_start[h][i] = NULL
    BY <1>1, Zenon DEF MapsOf
  <2>2. mmio_start' = [mmio_start EXCEPT ![h] = [i \in MmioSlots |-> IF i < mmio_count[h] THEN NULL ELSE mmio_start[h][i]]]
    BY Zenon DEF CloseMmios, IInv, TypeOK
  <2>3. [i \in MmioSlots |-> IF i < mmio_count[h] THEN NULL ELSE mmio_start[h][i]] = [i \in MmioSlots |-> NULL]
    BY <2>1, Zenon
  <2> QED
    BY <2>2, <2>3, Zenon
<1>7. TypeOK'
  <2>1. f \in [Fds -> Files] /\ m \in [Addrs -> Areas]
    BY FilesAndAreas, Zenon DEF IInv, TypeOK
  <2>2. kirqs' \in [Pasids -> SUBSET Offsets] /\ kattached' \subseteq Pasids
    BY <1>4, <2>1, TablesType, KernelTypes, Zenon
  <2> QED
    BY <1>2, <1>5, <1>6, <2>1, <2>2, Labels, Zenon DEF IInv, TypeOK
<1>8. Shapes'
  <2>1. Shape(h)
    BY Zenon DEF IInv, Shapes
  <2>2. \A g \in Handles : g # h => Same(g)
    BY <1>2, <1>6, CallType, FdType, IrqType, MmioType, Zenon DEF Same
  <2>3. Shape(h)'
    BY <1>2, <1>6, <2>1, FdType, MmioType, SMTT(30), Z3T(30) DEF Shape, BlankIrq, IrqSteps
  <2> QED
    BY <2>2, <2>3, OtherShapes, Zenon
<1>9. \A g \in Handles, e \in Fds : g # h /\ OwnsFd(g, e) => fds'[e] = fds[e]
  <2>1. c \in Fds => OwnsFd(h, c)
    BY Zenon DEF OwnsFd
  <2> QED
    BY <1>5, <2>1, Zenon DEF IInv, DescriptorLedger
<1>10. c \in Fds => fd[h] # c /\ epoll_fd[h] # c /\ \A i \in IrqSlots : eventfd[h][i] # c
  BY <1>1, SMTT(30), Z3T(30) DEF FdsOf, Fds
<1>11. DescriptorLedger'
  <2>1. ASSUME NEW g \in Handles, NEW e \in Fds
        PROVE  OwnsFd(g, e)' <=> OwnsFd(g, e) /\ ~(g = h /\ e \in {c})
    <3>1. CASE g # h
      BY <1>2, <3>1, Zenon DEF OwnsFd, IInv, TypeOK
    <3>2. CASE g = h
      BY <1>2, <1>10, <3>2, SMTT(30), Z3T(30) DEF OwnsFd, IInv, TypeOK, Fds
    <3> QED
      BY <3>1, <3>2, Zenon
  <2>2. ASSUME NEW g \in Handles PROVE FdsOf(g)'
    <3>1. CASE g # h
      BY <1>2, <1>9, <3>1, OtherDescriptors, Zenon DEF IInv, TypeOK
    <3>2. CASE g = h
      <4>1. global_mmio_fd'[h] = -1
        BY <1>2, Zenon DEF IInv, TypeOK
      <4>2. \A e \in Fds : e # c => fds'[e] = fds[e]
        BY <1>5, Zenon
      <4>3. /\ fd[h] # -1 => fds'[fd[h]] = fds[fd[h]]
            /\ epoll_fd[h] # -1 => fds'[epoll_fd[h]] = fds[epoll_fd[h]]
            /\ \A i \in IrqSlots : eventfd[h][i] # -1 => fds'[eventfd[h][i]] = fds[eventfd[h][i]]
        BY <1>10, <4>2, SMTT(30), Z3T(30) DEF IInv, TypeOK
      <4> QED
        BY <1>1, <1>2, <3>2, <4>1, <4>3, Zenon DEF FdsOf
    <3> QED
      BY <3>1, <3>2, Zenon
  <2> QED
    BY <1>5, <2>1, <2>2, ReleasedDescriptors, Zenon
<1>12. KeepsContexts
  BY <1>2, <1>5, <1>9, <1>10, ZenonT(60) DEF KeepsContexts, OwnsFd, IInv, TypeOK
<1>13. OwnContext'
  BY <1>12, SameContexts, Zenon
<1>14. \A g \in Handles : fd[g] # -1 => Context(g)' = Context(g)
  BY <1>2, <1>12, KeptContext, Zenon
<1>15. \A i \in IrqSlots : irq_addr[h][i] \notin A
  <2>1. ASSUME NEW i \in IrqSlots, NEW j \in MmioSlots, irq_addr[h][i] \in Addrs, irq_addr[h][i] = mmio_start[h][j]
        PROVE  FALSE
    <3>1. maps[irq_addr[h][i]] = <<"irq", Context(h)>> /\ maps[irq_addr[h][i]] = AreaOf(h, mmio_type[h][j])
      BY <1>1, <2>1, Zenon DEF MapsOf
    <3> QED
      BY <3>1, SMTT(30), Z3T(30) DEF AreaOf
  <2> QED
    BY <2>1, Zenon
<1>16. MappingLedger'
  <2>1. ASSUME NEW g \in Handles, NEW b \in Addrs
        PROVE  OwnsMap(g, b)' <=> OwnsMap(g, b) /\ ~(g = h /\ b \in A)
    <3>1. CASE g # h
      BY <1>2, <1>6, <3>1, Zenon DEF OwnsMap, IInv, TypeOK
    <3>2. CASE g = h
      BY <1>2, <1>6, <1>15, <3>2, Zenon DEF OwnsMap, IInv, TypeOK
    <3> QED
      BY <3>1, <3>2, Zenon
  <2>2. ASSUME NEW g \in Handles PROVE MapsOf(g)'
    <3>1. CASE g # h
      <4>1. \A b \in Addrs : OwnsMap(g, b) => maps'[b] = maps[b]
        BY <1>5, <3>1, SMTT(30), Z3T(30) DEF IInv, MappingLedger, OwnsMap
      <4> QED
        BY <1>2, <1>6, <1>14, <3>1, <4>1, OtherMappings, ZenonT(30) DEF IInv, TypeOK
    <3>2. CASE g = h
      <4>1. \A i \in MmioSlots : mmio_start'[h][i] = NULL
        BY <1>6, Zenon DEF IInv, TypeOK
      <4>2. \A i \in IrqSlots : irq_addr'[h][i] \in Addrs => maps'[irq_addr'[h][i]] = <<"irq", Context(h)'>>
        <5>1. \A i \in IrqSlots : irq_addr[h][i] \in Addrs => maps'[irq_addr[h][i]] = maps[irq_addr[h][i]]
          BY <1>5, <1>15, Zenon
        <5>2. Context(h)' = Context(h)
          BY <1>1, <1>2, <1>14, Zenon DEF Shape
        <5> QED
          BY <1>1, <1>2, <5>1, <5>2, Zenon DEF MapsOf
      <4>3. \A i, j \in IrqSlots : i # j /\ irq_addr'[h][i] \in Addrs => irq_addr'[h][i] # irq_addr'[h][j]
        BY <1>1, <1>2, Zenon DEF MapsOf
      <4> QED
        BY <3>2, <4>1, <4>2, <4>3, Zenon DEF MapsOf
    <3> QED
      BY <3>1, <3>2, Zenon
  <2> QED
    BY <1>5, <2>1, <2>2, ReleasedMappings, Zenon
<1>17. \A b \in Addrs, p \in Pasids : maps'[b] = <<"per_pasid", p>> => maps[b] = <<"per_pasid", p>>
  BY <1>5, Zenon DEF Unmapped
<1> HIDE DEF f, m
<1> QED
  BY <1>2, <1>4, <1>7, <1>8, <1>11, <1>12, <1>13, <1>16, <1>17, OnlyTheLedgers, Zenon DEF Base

\* Releasing the slots S of a handle's IRQ table.
LEMMA DeallocStep ==
  ASSUME IInv, NEW h \in Handles, NEW S \in SUBSET IrqSlots, fd[h] # -1, irq_dealloc(h, S),
         UNCHANGED <<fd, global_mmio_fd, epoll_fd, attached, pasid, mmio_count, mmio_max_count,
                     mmio_start, mmio_type>>, Shapes',
         pc' \in [Handles -> PCs], irq_count' \in [Handles -> 0 .. MaxIrqs],
         irq_max_count' \in [Handles -> Nat], heap' \subseteq Handles \X Blocks
  PROVE  IInv'
<1> USE NamesAssumption
<1> DEFINE D == {eventfd[h][i] : i \in S}
           A == {a \in Addrs : \E i \in S : irq_addr[h][i] = a}
           O == {irq_offset[h][i] : i \in S}
           f == [d \in Fds |-> IF d \in D THEN Closed ELSE fds[d]]
           m == [a \in Addrs |-> IF a \in A THEN Unmapped ELSE maps[a]]
           k == [p \in Pasids |-> IF p = Context(h) THEN kirqs[p] \ O ELSE kirqs[p]]
<1>1. MapsOf(h) /\ FdsOf(h) /\ Shape(h) /\ Context(h) \in Pasids
  BY HasContext, Zenon DEF IInv, MappingLedger, DescriptorLedger, Shapes
<1>2. Kernel(f, m, k, kattached)
  <2>1. f = [d \in Fds |-> IF \E i \in S : eventfd[h][i] = d THEN Closed ELSE fds[d]]
    BY Zenon
  <2>2. m = [a \in Addrs |-> IF \E i \in S : irq_addr[h][i] = a THEN Unmapped ELSE maps[a]]
    BY Zenon
  <2> QED
    BY <2>1, <2>2, Zenon DEF irq_dealloc
<1>3. fds' = f /\ maps' = m
  BY <1>2, Zenon DEF Kernel
<1>4. \A g \in Handles \ {h} : eventfd'[g] = eventfd[g] /\ irq_offset'[g] = irq_offset[g] /\ irq_addr'[g] = irq_addr[g]
  BY Zenon DEF irq_dealloc, IInv, TypeOK
<1>5. \A i \in IrqSlots :
        /\ eventfd'[h][i] = IF i \in S THEN -1 ELSE eventfd[h][i]
        /\ irq_offset'[h][i] = IF i \in S THEN 0 ELSE irq_offset[h][i]
        /\ irq_addr'[h][i] = IF i \in S THEN NULL ELSE irq_addr[h][i]
  BY Zenon DEF irq_dealloc, IInv, TypeOK
<1>6. TypeOK'
  <2>1. f \in [Fds -> Files] /\ m \in [Addrs -> Areas] /\ k \in [Pasids -> SUBSET Offsets]
    BY FilesAndAreas, Zenon DEF IInv, TypeOK
  <2>2. kirqs' \in [Pasids -> SUBSET Offsets] /\ kattached' \subseteq Pasids
    <3> HIDE DEF f, m, k
    <3> QED
      BY <1>2, <2>1, TablesType, KernelTypes, ZenonT(60)
  <2>3. /\ eventfd' \in [Handles -> [IrqSlots -> Fds \cup {-1}]]
        /\ irq_offset' \in [Handles -> [IrqSlots -> Offsets \cup {0}]]
        /\ irq_addr' \in [Handles -> [IrqSlots -> Addrs \cup {NULL, MAP_FAILED}]]
    BY SMTT(30), Z3T(30) DEF irq_dealloc, IInv, TypeOK
  <2> HIDE DEF f, m
  <2> QED
    BY <1>3, <2>1, <2>2, <2>3, Zenon DEF IInv, TypeOK
<1>7. \A g \in Handles, e \in Fds : g # h /\ OwnsFd(g, e) => fds'[e] = fds[e]
  <2>1. \A e \in Fds : e \in D => OwnsFd(h, e)
    BY ZenonT(60) DEF OwnsFd
  <2> QED
    BY <1>3, <2>1, Zenon DEF IInv, DescriptorLedger
<1>8. \A d \in Fds : d \in D => fd[h] # d /\ epoll_fd[h] # d /\ global_mmio_fd[h] # d
  BY <1>1, SMTT(30), Z3T(30) DEF FdsOf, Fds
<1>9. \A i \in IrqSlots \ S : eventfd[h][i] \in Fds => eventfd[h][i] \notin D
  BY <1>1, SMTT(30), Z3T(30) DEF FdsOf, Fds
<1>10. DescriptorLedger'
  <2>1. ASSUME NEW g \in Handles, NEW e \in Fds
        PROVE  OwnsFd(g, e)' <=> OwnsFd(g, e) /\ ~(g = h /\ e \in D)
    <3>1. CASE g # h
      BY <1>4, <3>1, Zenon DEF OwnsFd
    <3>2. CASE g = h
      BY <1>5, <1>8, <1>9, <3>2, SMTT(30), Z3T(30) DEF OwnsFd, Fds
    <3> QED
      BY <3>1, <3>2, Zenon
  <2>2. ASSUME NEW g \in Handles PROVE FdsOf(g)'
    <3>1. CASE g # h
      BY <1>4, <1>7, <3>1, OtherDescriptors, Zenon
    <3>2. CASE g = h
      <4>1. \A e \in Fds : e \notin D => fds'[e] = fds[e]
        BY <1>3, Zenon
      <4>2. /\ fds'[fd[h]] = fds[fd[h]]
            /\ epoll_fd[h] # -1 => fds'[epoll_fd[h]] = fds[epoll_fd[h]]
            /\ global_mmio_fd[h] # -1 => fds'[global_mmio_fd[h]] = fds[global_mmio_fd[h]]
            /\ \A i \in IrqSlots \ S : eventfd[h][i] # -1 => fds'[eventfd[h][i]] = fds[eventfd[h][i]]
        BY <1>8, <1>9, <4>1, SMTT(30), Z3T(30) DEF IInv, TypeOK
      <4>3. \A i \in IrqSlots : eventfd'[h][i] # -1 => i \notin S /\ eventfd'[h][i] = eventfd[h][i]
        BY <1>5, Zenon
      <4>4. \A i, j \in IrqSlots : i # j /\ eventfd'[h][i] # -1 => eventfd'[h][i] # eventfd'[h][j]
        BY <1>1, <1>5, ZenonT(60) DEF FdsOf
      <4> QED
        BY <1>1, <3>2, <4>2, <4>3, <4>4, ZenonT(30) DEF FdsOf
    <3> QED
      BY <3>1, <3>2, Zenon
  <2> HIDE DEF D
  <2> QED
    BY <1>3, <2>1, <2>2, ReleasedDescriptors, Zenon
<1>11. KeepsContexts
  <2>1. ASSUME NEW g \in Handles, fd[g] # -1 PROVE fds'[fd[g]] = fds[fd[g]]
    <3>1. fd[g] \in Fds /\ OwnsFd(g, fd[g])
      BY <2>1, FdType, Zenon DEF OwnsFd
    <3>2. CASE g # h
      BY <1>7, <3>1, <3>2, Zenon
    <3>3. CASE g = h
      BY <1>3, <1>8, <3>1, <3>3, Zenon
    <3> QED
      BY <3>2, <3>3, Zenon
  <2> QED
    BY <2>1, Zenon DEF KeepsContexts
<1>12. OwnContext' /\ \A g \in Handles : fd[g] # -1 => Context(g)' = Context(g)
  BY <1>11, SameContexts, KeptContext, Zenon
<1>13. \A i \in MmioSlots : mmio_start[h][i] \notin A
  <2>1. ASSUME NEW i \in S, NEW j \in MmioSlots, irq_addr[h][i] \in Addrs, irq_addr[h][i] = mmio_start[h][j]
        PROVE  FALSE
    <3>1. maps[irq_addr[h][i]] = <<"irq", Context(h)>> /\ maps[irq_addr[h][i]] = AreaOf(h, mmio_type[h][j])
      BY <1>1, <2>1, Zenon DEF MapsOf
    <3> QED
      BY <3>1, SMTT(30), Z3T(30) DEF AreaOf
  <2> QED
    BY <2>1, Zenon
<1>14. \A i \in IrqSlots \ S : irq_addr[h][i] \notin A
  BY <1>1, Zenon DEF MapsOf
<1>15. MappingLedger'
  <2>1. ASSUME NEW g \in Handles, NEW b \in Addrs
        PROVE  OwnsMap(g, b)' <=> OwnsMap(g, b) /\ ~(g = h /\ b \in A)
    <3>1. CASE g # h
      BY <1>4, <3>1, ZenonT(60) DEF OwnsMap
    <3>2. CASE g = h
      <4>1. b \in A <=> \E i \in S : irq_addr[h][i] = b
        BY Zenon
      <4>2. b # NULL
        BY NamesAssumption, Zenon
      <4>3. (\E i \in IrqSlots : irq_addr'[h][i] = b) <=> (\E i \in IrqSlots \ S : irq_addr[h][i] = b)
        BY <1>5, <4>2, Zenon
      <4>4. (\E i \in IrqSlots : irq_addr[h][i] = b) /\ b \notin A <=> (\E i \in IrqSlots \ S : irq_addr[h][i] = b)
        BY <1>14, <4>1, Zenon
      <4>5. (\E i \in MmioSlots : mmio_start[h][i] = b) => b \notin A
        BY <1>13, Zenon
      <4>6. mmio_start' = mmio_start
        BY Zenon
      <4> HIDE DEF A
      <4> QED
        BY <3>2, <4>3, <4>4, <4>5, <4>6, Zenon DEF OwnsMap
    <3> QED
      BY <3>1, <3>2, Zenon
  <2>2. ASSUME NEW g \in Handles PROVE MapsOf(g)'
    <3>1. CASE g # h
      <4>1. \A b \in Addrs : OwnsMap(g, b) => maps'[b] = maps[b]
        <5>1. \A b \in Addrs : b \in A => OwnsMap(h, b)
          BY Zenon DEF OwnsMap
        <5>2. \A b \in Addrs : OwnsMap(g, b) => b \notin A
          BY <3>1, <5>1, Zenon DEF IInv, MappingLedger
        <5> QED
          BY <1>3, <5>2, Zenon
      <4> QED
        BY <1>4, <1>12, <3>1, <4>1, OtherMappings, Zenon
    <3>2. CASE g = h
      <4>1. \A b \in Addrs : b \notin A => maps'[b] = maps[b]
        BY <1>3, Zenon
      <4>2. \A i \in MmioSlots : mmio_start'[h][i] # NULL =>
              i < mmio_count'[h] /\ maps'[mmio_start'[h][i]] = AreaOf(h, mmio_type[h][i])'
        <5>1. \A i \in MmioSlots : mmio_start[h][i] # NULL => maps'[mmio_start[h][i]] = maps[mmio_start[h][i]]
          BY <1>13, <4>1, SMTT(30), Z3T(30) DEF IInv, TypeOK
        <5> QED
          BY <1>1, <1>12, <5>1, ZenonT(30) DEF MapsOf, AreaOf
      <4>3. \A i \in IrqSlots : irq_addr'[h][i] \in Addrs => maps'[irq_addr'[h][i]] = <<"irq", Context(h)'>>
        <5>1. \A i \in IrqSlots : irq_addr'[h][i] \in Addrs => i \notin S /\ irq_addr'[h][i] = irq_addr[h][i]
          BY <1>5, Zenon
        <5>2. \A i \in IrqSlots \ S : irq_addr[h][i] \in Addrs => maps'[irq_addr[h][i]] = <<"irq", Context(h)>>
          <6> SUFFICES ASSUME NEW i \in IrqSlots \ S, irq_addr[h][i] \in Addrs
                       PROVE  maps'[irq_addr[h][i]] = <<"irq", Context(h)>>
            BY Zenon
          <6>1. maps'[irq_addr[h][i]] = maps[irq_addr[h][i]]
            BY <1>14, <4>1, Zenon
          <6>2. maps[irq_addr[h][i]] = <<"irq", Context(h)>>
            BY <1>1, Zenon DEF MapsOf
          <6> QED
            BY <6>1, <6>2, Zenon
        <5> QED
          BY <1>12, <5>1, <5>2, Zenon
      <4>4. \A i, j \in IrqSlots : i # j /\ irq_addr'[h][i] \in Addrs => irq_addr'[h][i] # irq_addr'[h][j]
        <5>1. \A i \in IrqSlots : irq_addr'[h][i] \in Addrs => irq_addr'[h][i] = irq_addr[h][i]
          BY <1>5, Zenon
        <5>2. \A i, j \in IrqSlots : i # j /\ irq_addr[h][i] \in Addrs => irq_addr[h][i] # irq_addr[h][j]
          BY <1>1, Zenon DEF MapsOf
        <5> QED
          BY <5>1, <5>2, Zenon
      <4>5. \A i, j \in MmioSlots : i # j /\ mmio_start'[h][i] # NULL => mmio_start'[h][i] # mmio_start'[h][j]
        BY <1>1, Zenon DEF MapsOf
      <4> QED
        BY <3>2, <4>2, <4>3, <4>4, <4>5, Zenon DEF MapsOf
    <3> QED
      BY <3>1, <3>2, Zenon
  <2> HIDE DEF A
  <2>3. A \in SUBSET Addrs
    BY Zenon DEF A
  <2> QED
    BY <1>3, <2>1, <2>2, <2>3, ReleasedMappings, Zenon
<1>16. Base'
  BY <1>6, <1>10, <1>12, <1>15, Zenon DEF Base
<1>17. IrqLedger'
  <2>1. ASSUME NEW g \in Handles, fd'[g] # -1
        PROVE  kirqs'[Context(g)'] = {irq_offset'[g][i] : i \in IrqSlots} \ {0}
    <3>1. Context(g)' = Context(g) /\ Context(g) \in Pasids /\ kirqs'[Context(g)] = k[Context(g)]
      <4> HIDE DEF f, m, k
      <4>1. Context(g)' \in Pasids /\ kirqs'[Context(g)'] = k[Context(g)']
        BY <1>2, <1>16, <2>1, KernelRemembers, ZenonT(30)
      <4>2. Context(g)' = Context(g)
        BY <1>12, <2>1, Zenon
      <4> QED
        BY <4>1, <4>2, Zenon
    <3>2. CASE g # h
      <4>1. Context(g) # Context(h)
        BY <2>1, <3>2, Zenon DEF IInv, OwnContext
      <4>2. kirqs'[Context(g)] = kirqs[Context(g)]
        BY <3>1, <4>1, ZenonT(60)
      <4> QED
        <5>1. fd[g] # -1 /\ irq_offset'[g] = irq_offset[g]
          BY <1>4, <1>12, <2>1, <3>2, Zenon
        <5>2. kirqs[Context(g)] = {irq_offset[g][i] : i \in IrqSlots} \ {0}
          BY <5>1, Zenon DEF IInv, IrqLedger
        <5> QED
          BY <3>1, <4>2, <5>1, <5>2, Zenon
    <3>3. CASE g = h
      <4>1. kirqs'[Context(h)] = kirqs[Context(h)] \ O
        BY <3>1, <3>3, Zenon
      <4>2. kirqs[Context(h)] = {irq_offset[h][i] : i \in IrqSlots} \ {0}
        BY Zenon DEF IInv, IrqLedger
      <4>3. {irq_offset'[h][i] : i \in IrqSlots} \ {0} = ({irq_offset[h][i] : i \in IrqSlots} \ {0}) \ O
        <5>1. \A i, j \in IrqSlots : i # j /\ irq_offset[h][i] # 0 => irq_offset[h][i] # irq_offset[h][j]
          BY Zenon DEF IInv, IrqLedger
        <5>2. ASSUME NEW i \in IrqSlots, irq_offset'[h][i] # 0
              PROVE  irq_offset'[h][i] = irq_offset[h][i] /\ irq_offset[h][i] \notin O
          <6>1. i \notin S /\ irq_offset'[h][i] = irq_offset[h][i]
            BY <1>5, <5>2, Zenon
          <6>2. \A j \in S : irq_offset[h][i] # irq_offset[h][j]
            BY <5>1, <5>2, <6>1, Zenon
          <6> QED
            BY <6>1, <6>2, Zenon
        <5>3. ASSUME NEW i \in IrqSlots, irq_offset[h][i] \notin O
              PROVE  irq_offset'[h][i] = irq_offset[h][i]
          BY <1>5, <5>3, Zenon
        <5> HIDE DEF O
        <5>4. ASSUME NEW x, x \in {irq_offset'[h][i] : i \in IrqSlots}, x # 0
              PROVE  x \in {irq_offset[h][i] : i \in IrqSlots} /\ x \notin O
          BY <5>2, <5>4, Zenon
        <5>5. ASSUME NEW x, x \in {irq_offset[h][i] : i \in IrqSlots}, x \notin O
              PROVE  x \in {irq_offset'[h][i] : i \in IrqSlots}
          BY <5>3, <5>5, Zenon
        <5> DEFINE new == {irq_offset'[h][i] : i \in IrqSlots}
                   old == {irq_offset[h][i] : i \in IrqSlots}
        <5>6. \A x : (x \in new /\ x # 0 => x \in old /\ x \notin O) /\ (x \in old /\ x \notin O => x \in new)
          BY <5>4, <5>5, Zenon
        <5>7. new \ {0} = (old \ {0}) \ O
          <6> HIDE DEF new, old
          <6> QED
            BY <5>6, Zenon
        <5> QED
          BY <5>7, Zenon
      <4> DEFINE new == {irq_offset'[h][i] : i \in IrqSlots} \ {0}
                 old == {irq_offset[h][i] : i \in IrqSlots} \ {0}
      <4>4. kirqs'[Context(h)] = kirqs[Context(h)] \ O /\ kirqs[Context(h)] = old /\ new = old \ O
        BY <4>1, <4>2, <4>3, Zenon
      <4>5. kirqs'[Context(h)] = new
        <5> HIDE DEF new, old, O
        <5> QED
          BY <4>4, Zenon
      <4> QED
        BY <3>1, <3>3, <4>5, ZenonT(60)
    <3> QED
      BY <3>2, <3>3, Zenon
  <2>2. ASSUME NEW g \in Handles, NEW i \in IrqSlots, NEW j \in IrqSlots, i # j, irq_offset'[g][i] # 0
        PROVE  irq_offset'[g][i] # irq_offset'[g][j]
    <3>1. CASE g # h
      BY <1>4, <2>2, <3>1, SMTT(30), Z3T(30) DEF IInv, IrqLedger
    <3>2. CASE g = h
      BY <1>5, <2>2, <3>2, SMTT(30), Z3T(30) DEF IInv, IrqLedger
    <3> QED
      BY <3>1, <3>2, Zenon
  <2> QED
    BY <2>1, <2>2, Zenon DEF IrqLedger
<1>18. DeadIsEmpty'
  <2> HIDE DEF f, m, k
  <2> QED
    BY <1>2, KernelForgets, Zenon
<1>19. PerPasidIsAttached'
  <2>1. ASSUME NEW p \in Pasids, NEW a \in Addrs, maps'[a] = <<"per_pasid", p>>
        PROVE  p \in kattached'
    <3>1. maps[a] = <<"per_pasid", p>>
      BY <1>3, <2>1, Zenon DEF Unmapped
    <3> HIDE DEF f, m, k
    <3> QED
      BY <1>2, <2>1, <3>1, PerPasidIsLive, Zenon DEF IInv, PerPasidIsAttached
  <2>2. ASSUME NEW g \in Handles, fd'[g] # -1
        PROVE  attached'[g] <=> Context(g)' \in kattached'
    <3> HIDE DEF f, m, k
    <3>1. Context(g)' = Context(g) /\ (Context(g) \in kattached' <=> Context(g) \in kattached)
      BY <1>2, <1>12, <1>16, <2>2, KernelRemembers, SMTT(30), Z3T(30)
    <3> QED
      BY <2>2, <3>1, Zenon DEF IInv, PerPasidIsAttached
  <2> QED
    BY <2>1, <2>2, Zenon DEF PerPasidIsAttached
<1> QED
  BY <1>16, <1>17, <1>18, <1>19, Zenon DEF Base, IInv

\* The error path of irq_allocate() preserves the invariant.
LEMMA IrqErrendStep ==
  ASSUME IInv, NEW h \in Handles, IrqErrend(h)
  PROVE  IInv'
<1> USE BoundsAssumption
<1>0. /\ pc[h] = "irq_dealloc" /\ pc' = [pc EXCEPT ![h] = "ready"]
      /\ irq_dealloc(h, {irq_count[h]})
      /\ UNCHANGED <<fd, global_mmio_fd, epoll_fd, attached, pasid, irq_count, irq_max_count,
                     mmio_count, mmio_max_count, mmio_start, mmio_type, heap>>
  BY Zenon DEF IrqErrend, Goto, structVars, mmioVars
<1>1. Shape(h) /\ pc[h] \in IrqSteps
  BY <1>0, Zenon DEF IInv, Shapes, IrqSteps
<1>2. fd[h] # -1 /\ irq_count[h] \in IrqSlots
  <2>1. fd[h] # -1 /\ irq_count[h] < MaxIrqs
    BY <1>0, <1>1, Zenon DEF Shape
  <2> QED
    BY <2>1, IrqType, SMTT(30), Z3T(30) DEF IrqSlots
<1>3. Shapes'
  <2>1. \A g \in Handles : g # h => Same(g)
    BY <1>0, CallType, IrqType, Zenon DEF Same, irq_dealloc
  <2>2. \A i \in IrqSlots :
          /\ eventfd'[h][i] = IF i = irq_count[h] THEN -1 ELSE eventfd[h][i]
          /\ irq_offset'[h][i] = IF i = irq_count[h] THEN 0 ELSE irq_offset[h][i]
          /\ irq_addr'[h][i] = IF i = irq_count[h] THEN NULL ELSE irq_addr[h][i]
    BY <1>0, IrqType, Zenon DEF irq_dealloc
  <2>3. \A i \in IrqSlots : i >= irq_count[h] => BlankIrq(h, i)'
    <3>1. \A i \in IrqSlots : i >= irq_count[h] => BlankIrq(h, i) \/ i = irq_count[h]
      BY <1>1, Zenon DEF Shape
    <3> QED
      BY <2>2, <3>1, Zenon DEF BlankIrq
  <2>4. \A i \in IrqSlots : irq_addr'[h][i] # MAP_FAILED
    <3>1. \A i \in IrqSlots : irq_addr[h][i] = MAP_FAILED => i = irq_count[h]
      BY <1>1, Zenon DEF Shape
    <3> QED
      BY <2>2, <3>1, NamesAssumption, Zenon
  <2>5. pc'[h] = "ready" /\ irq_count' = irq_count
    BY <1>0, CallType, Zenon
  <2>6. Shape(h)'
    BY <1>0, <1>1, <2>3, <2>4, <2>5, Zenon DEF Shape, IrqSteps
  <2> QED
    BY <2>1, <2>6, OtherShapes, Zenon
<1>4. pc' \in [Handles -> PCs]
  BY <1>0, Labels, Zenon DEF IInv, TypeOK
<1> QED
  BY <1>0, <1>2, <1>3, <1>4, DeallocStep, Zenon DEF IInv, TypeOK

\* A step of ocxl_afu_close() that gives an IRQ back preserves the invariant.
LEMMA CloseIrqsStep ==
  ASSUME IInv, NEW h \in Handles, CloseIrqs(h)
  PROVE  IInv'
<1> USE BoundsAssumption
<1>0. /\ pc[h] = "close_irqs" /\ pc' = [pc EXCEPT ![h] = "close_epoll"]
      /\ irq_dealloc(h, 0 .. irq_count[h] - 1) /\ heap' = heap \ {<<h, "irqs">>}
      /\ irq_count' = [irq_count EXCEPT ![h] = 0] /\ irq_max_count' = [irq_max_count EXCEPT ![h] = 0]
      /\ UNCHANGED <<fd, global_mmio_fd, epoll_fd, attached, pasid, mmio_count, mmio_max_count,
                     mmio_start, mmio_type>>
  BY Zenon DEF CloseIrqs, Goto, structVars, mmioVars
<1>1. Shape(h) /\ pc[h] \notin IrqSteps /\ irq_count[h] \in 0 .. MaxIrqs
  BY <1>0, Zenon DEF IInv, TypeOK, Shapes, IrqSteps
<1>2. fd[h] # -1 /\ 0 .. irq_count[h] - 1 \in SUBSET IrqSlots
  <2>1. fd[h] # -1
    BY <1>0, <1>1, Zenon DEF Shape
  <2>2. 0 .. irq_count[h] - 1 \in SUBSET IrqSlots
    BY <1>1, SMTT(30), Z3T(30) DEF IrqSlots
  <2> QED
    BY <2>1, <2>2, Zenon
<1>3. Shapes'
  <2>1. \A g \in Handles : g # h => Same(g)
    BY <1>0, CallType, IrqType, Zenon DEF Same, irq_dealloc
  <2>2. \A i \in IrqSlots : BlankIrq(h, i)'
    <3>1. \A i \in IrqSlots : i \in 0 .. irq_count[h] - 1 \/ BlankIrq(h, i)
      <4>1. \A i \in IrqSlots : i >= irq_count[h] => BlankIrq(h, i)
        BY <1>1, Zenon DEF Shape
      <4> QED
        BY <1>1, <4>1, SMTT(30), Z3T(30) DEF IrqSlots
    <3> QED
      BY <1>0, <3>1, IrqType, Zenon DEF irq_dealloc, BlankIrq
  <2>3. irq_count'[h] = 0 /\ pc'[h] = "close_epoll"
    BY <1>0, CallType, IrqType, Zenon
  <2>4. \A i \in IrqSlots : BlankIrq(h, i)' => irq_addr'[h][i] # MAP_FAILED
    BY NamesAssumption, Zenon DEF BlankIrq
  <2>5. Shape(h)'
    BY <1>0, <1>1, <2>2, <2>3, <2>4, Zenon DEF Shape, IrqSteps
  <2> QED
    BY <2>1, <2>5, OtherShapes, Zenon
<1>4. /\ pc' \in [Handles -> PCs] /\ heap' \subseteq Handles \X Blocks
      /\ irq_count' \in [Handles -> 0 .. MaxIrqs] /\ irq_max_count' \in [Handles -> Nat]
  BY <1>0, Labels, SMTT(30), Z3T(30) DEF IInv, TypeOK
<1> QED
  BY <1>0, <1>2, <1>3, <1>4, DeallocStep, Zenon

\* Closing one descriptor c that the handle records in the member fd or epoll_fd.
LEMMA CloseEpollStep ==
  ASSUME IInv, NEW h \in Handles, CloseEpoll(h)
  PROVE  IInv'
<1> DEFINE c == epoll_fd[h]
           f == [d \in Fds |-> IF d = c THEN Closed ELSE fds[d]]
<1>1. FdsOf(h) /\ Shape(h)
  BY Zenon DEF IInv, DescriptorLedger, Shapes
<1>2. /\ pc[h] = "close_epoll" /\ pc' = [pc EXCEPT ![h] = "close_fd"]
      /\ epoll_fd' = [epoll_fd EXCEPT ![h] = -1]
      /\ UNCHANGED <<fd, global_mmio_fd, attached, pasid, irq_count, irq_max_count, eventfd,
                     irq_offset, irq_addr, mmio_count, mmio_max_count, mmio_start, mmio_type>>
      /\ Kernel(f, maps, kirqs, kattached) /\ heap' \subseteq Handles \X Blocks
  BY Zenon DEF CloseEpoll, Goto, IInv, TypeOK, irqVars, mmioVars
<1>3. fds' = f /\ maps' = maps
  BY <1>2, Zenon DEF Kernel
<1>4. TypeOK'
  <2>1. f \in [Fds -> Files]
    BY FilesAndAreas, Zenon DEF IInv, TypeOK
  <2>2. kirqs' \in [Pasids -> SUBSET Offsets] /\ kattached' \subseteq Pasids
    BY <1>2, <2>1, TablesType, KernelTypes, Zenon
  <2> QED
    BY <1>2, <1>3, <2>1, <2>2, Labels, Zenon DEF IInv, TypeOK
<1>5. Shapes'
  <2>1. Shape(h)
    BY Zenon DEF IInv, Shapes
  <2>2. \A g \in Handles : g # h => Same(g)
    BY <1>2, CallType, FdType, Zenon DEF Same
  <2>3. Shape(h)'
    BY <1>2, <2>1, CallType, FdType, Zenon DEF Shape, BlankIrq, IrqSteps
  <2> QED
    BY <2>2, <2>3, OtherShapes, Zenon
<1>6. \A g \in Handles, e \in Fds : g # h /\ OwnsFd(g, e) => fds'[e] = fds[e]
  <2>1. c \in Fds => OwnsFd(h, c)
    BY Zenon DEF OwnsFd
  <2> QED
    BY <1>3, <2>1, Zenon DEF IInv, DescriptorLedger
<1>7. c \in Fds => fd[h] # c /\ global_mmio_fd[h] # c /\ \A i \in IrqSlots : eventfd[h][i] # c
  BY <1>1, SMTT(30), Z3T(30) DEF FdsOf, Fds
<1>8. DescriptorLedger'
  <2>1. ASSUME NEW g \in Handles, NEW e \in Fds
        PROVE  OwnsFd(g, e)' <=> OwnsFd(g, e) /\ ~(g = h /\ e \in {c})
    <3>1. CASE g # h
      BY <1>2, <3>1, ZenonT(30) DEF OwnsFd, IInv, TypeOK
    <3>2. CASE g = h
      BY <1>2, <1>7, <3>2, SMTT(30), Z3T(30) DEF OwnsFd, IInv, TypeOK, Fds
    <3> QED
      BY <3>1, <3>2, Zenon
  <2>2. ASSUME NEW g \in Handles PROVE FdsOf(g)'
    <3>1. CASE g # h
      BY <1>2, <1>6, <3>1, OtherDescriptors, Zenon DEF IInv, TypeOK
    <3>2. CASE g = h
      <4>1. epoll_fd'[h] = -1
        BY <1>2, Zenon DEF IInv, TypeOK
      <4>2. \A e \in Fds : e # c => fds'[e] = fds[e]
        BY <1>3, Zenon
      <4>3. /\ fd[h] # -1 => fds'[fd[h]] = fds[fd[h]]
            /\ global_mmio_fd[h] # -1 => fds'[global_mmio_fd[h]] = fds[global_mmio_fd[h]]
            /\ \A i \in IrqSlots : eventfd[h][i] # -1 => fds'[eventfd[h][i]] = fds[eventfd[h][i]]
        BY <1>7, <4>2, FdType, IrqType, SMTT(30), Z3T(30)
      <4> QED
        BY <1>1, <1>2, <3>2, <4>1, <4>3, Zenon DEF FdsOf
    <3> QED
      BY <3>1, <3>2, Zenon
  <2> QED
    BY <1>3, <2>1, <2>2, ReleasedDescriptors, Zenon
<1>9. KeepsContexts
  BY <1>2, <1>3, <1>6, <1>7, Zenon DEF KeepsContexts, OwnsFd, IInv, TypeOK
<1>10. MappingLedger' /\ OwnContext'
  BY <1>2, <1>3, <1>9, MappingsAside, Zenon
<1> HIDE DEF f
<1> QED
  BY <1>2, <1>3, <1>4, <1>5, <1>8, <1>9, <1>10, OnlyTheLedgers, Zenon DEF Base

\* By now the device descriptor is all the handle records, so its context dies.
LEMMA CloseFdStep ==
  ASSUME IInv, NEW h \in Handles, CloseFd(h)
  PROVE  IInv'
<1> DEFINE c == fd[h]
           f == [d \in Fds |-> IF d = c THEN Closed ELSE fds[d]]
<1>1. FdsOf(h) /\ Shape(h) /\ pc[h] \notin IrqSteps
  BY Zenon DEF IInv, DescriptorLedger, Shapes, CloseFd, IrqSteps
<1>2. /\ pc[h] = "close_fd" /\ pc' = [pc EXCEPT ![h] = "none"]
      /\ fd' = [fd EXCEPT ![h] = -1]
      /\ attached' = [attached EXCEPT ![h] = FALSE]
      /\ pasid' = [pasid EXCEPT ![h] = UINT32_MAX]
      /\ mmio_count' = [mmio_count EXCEPT ![h] = 0]
      /\ mmio_max_count' = [mmio_max_count EXCEPT ![h] = 0]
      /\ mmio_type' = [mmio_type EXCEPT ![h] = [i \in MmioSlots |-> "global"]]
      /\ UNCHANGED <<global_mmio_fd, epoll_fd, irq_count, irq_max_count, eventfd, irq_offset,
                     irq_addr, mmio_start>>
      /\ Kernel(f, maps, kirqs, kattached) /\ FreeAfu(h)
  BY Zenon DEF CloseFd, Goto, irqVars
<1>a. heap' \subseteq Handles \X Blocks
  <2>1. OrphanedMmios(h) \subseteq Handles \X Blocks
    BY SMTT(30), Z3T(30) DEF OrphanedMmios, Blocks, Orphans
  <2> QED
    BY <1>2, <2>1, Zenon DEF FreeAfu, IInv, TypeOK
<1>3. fds' = f /\ maps' = maps
  BY <1>2, Zenon DEF Kernel
<1>4. TypeOK'
  <2>1. f \in [Fds -> Files]
    BY FilesAndAreas, Zenon DEF IInv, TypeOK
  <2>2. kirqs' \in [Pasids -> SUBSET Offsets] /\ kattached' \subseteq Pasids
    BY <1>2, <2>1, TablesType, KernelTypes, Zenon
  <2>3. /\ mmio_count' \in [Handles -> 0 .. MaxMmios] /\ mmio_max_count' \in [Handles -> Nat]
        /\ mmio_type' \in [Handles -> [MmioSlots -> MmioTypes]]
    BY <1>2, BoundsAssumption, SMTT(30), Z3T(30) DEF IInv, TypeOK, MmioTypes
  <2> HIDE DEF f
  <2> QED
    BY <1>2, <1>3, <1>a, <2>1, <2>2, <2>3, Labels, Zenon DEF IInv, TypeOK
<1>5. Shapes'
  <2>1. \A g \in Handles : g # h => Same(g)
    BY <1>2, CallType, FdType, MmioType, ZenonT(30) DEF Same
  <2>2. Shape(h)'
    BY <1>1, <1>2, CallType, FdType, MmioType, Zenon DEF Shape, BlankIrq, IrqSteps
  <2> QED
    BY <2>1, <2>2, OtherShapes, Zenon
<1>6. \A g \in Handles, e \in Fds : g # h /\ OwnsFd(g, e) => fds'[e] = fds[e]
  <2>1. c \in Fds => OwnsFd(h, c)
    BY Zenon DEF OwnsFd
  <2> QED
    BY <1>3, <2>1, Zenon DEF IInv, DescriptorLedger
<1>7. global_mmio_fd[h] = -1 /\ epoll_fd[h] = -1 /\ \A i \in IrqSlots : eventfd[h][i] = -1
  <2>1. global_mmio_fd[h] = -1 /\ epoll_fd[h] = -1 /\ irq_count[h] = 0
    BY <1>1, <1>2, Zenon DEF Shape
  <2>2. \A i \in IrqSlots : i >= irq_count[h]
    BY <2>1, SMTT(30), Z3T(30) DEF IrqSlots
  <2>3. \A i \in IrqSlots : BlankIrq(h, i)
    BY <1>1, <2>2, Zenon DEF Shape
  <2> QED
    BY <2>1, <2>3, Zenon DEF BlankIrq
<1>8. DescriptorLedger'
  <2>1. ASSUME NEW g \in Handles, NEW e \in Fds
        PROVE  OwnsFd(g, e)' <=> OwnsFd(g, e) /\ ~(g = h /\ e \in {c})
    <3>1. CASE g # h
      BY <1>2, <3>1, ZenonT(30) DEF OwnsFd, IInv, TypeOK
    <3>2. CASE g = h
      BY <1>2, <1>7, <3>2, SMTT(30), Z3T(30) DEF OwnsFd, IInv, TypeOK, Fds
    <3> QED
      BY <3>1, <3>2, Zenon
  <2>2. ASSUME NEW g \in Handles PROVE FdsOf(g)'
    <3>1. CASE g # h
      BY <1>2, <1>6, <3>1, OtherDescriptors, Zenon DEF IInv, TypeOK
    <3>2. CASE g = h
      BY <1>2, <1>7, <3>2, ZenonT(30) DEF FdsOf, IInv, TypeOK
    <3> QED
      BY <3>1, <3>2, Zenon
  <2> QED
    BY <1>3, <2>1, <2>2, ReleasedDescriptors, Zenon
<1>9. KeepsContexts
  BY <1>2, <1>3, <1>6, ZenonT(60) DEF KeepsContexts, OwnsFd, IInv, TypeOK
<1>10. OwnContext'
  BY <1>9, SameContexts, Zenon
<1>11. MappingLedger'
  <2>1. \A a \in Addrs : ~OwnsMap(h, a)
    <3>1. \A i \in IrqSlots : BlankIrq(h, i)
      BY <1>1, <1>2, SMTT(30), Z3T(30) DEF Shape, IrqSlots
    <3> QED
      BY <1>1, <1>2, <3>1, NamesAssumption, ZenonT(30) DEF Shape, BlankIrq, OwnsMap
  <2>2. ASSUME NEW g \in Handles, NEW a \in Addrs, OwnsMap(g, a)
        PROVE  Context(g)' = Context(g) /\ mmio_count'[g] = mmio_count[g] /\ mmio_type'[g] = mmio_type[g]
    <3>1. g # h /\ fd[g] # -1
      BY <2>1, <2>2, MappedHasContext, Zenon DEF IInv, Base
    <3>2. fd'[g] # -1
      BY <1>2, <3>1, Zenon DEF IInv, TypeOK
    <3> QED
      BY <1>2, <1>9, <3>1, <3>2, KeptContext, Zenon DEF IInv, TypeOK
  <2> QED
    BY <1>2, <1>3, <2>2, SameMappings, Zenon
<1>12. \A g \in Handles : fd'[g] # -1 => attached'[g] = attached[g]
  BY <1>2, Zenon DEF IInv, TypeOK
<1> HIDE DEF f
<1> QED
  BY <1>2, <1>3, <1>4, <1>5, <1>8, <1>9, <1>10, <1>11, <1>12, OnlyTheLedgers, Zenon DEF Base

-------------------------------------------------------------------------------
(* The invariant, and what follows from it.                                 *)

\* Every step preserves the invariant.
LEMMA NextIInv == IInv /\ [Next]_vars => IInv'
<1> SUFFICES ASSUME IInv, [Next]_vars PROVE IInv'
  BY Zenon
<1>1. CASE Next
  <2>1. PICK h \in Handles :
          \/ OpenSteps(h) \/ Attach(h) \/ MmioCalls(h) \/ GrowEventBuffer(h) \/ IrqCalls(h) \/ CloseCall(h)
    BY <1>1, Zenon DEF Next
  <2>2. CASE OpenSteps(h)
    BY <2>2, CallSteps, OpenDeviceStep, GlobalMmioOpenStep, EpollCreateStep, GetMetadataStep, Zenon DEF OpenSteps
  <2>3. CASE Attach(h)
    BY <2>3, AttachStep, Zenon
  <2>4. CASE MmioCalls(h)
    BY <2>4, MmioMapStep, MmioMapNoMemStep, MmioUnmapStep, Zenon DEF MmioCalls
  <2>5. CASE GrowEventBuffer(h)
    BY <2>5, CallSteps, Zenon
  <2>6. CASE IrqCalls(h)
    BY <2>6, CallSteps, IrqAllocStep, IrqEventfdStep, IrqIoctlAllocStep, IrqMmapStep, IrqEpollCtlStep,
       IrqStepFailsStep, IrqErrendStep, Zenon DEF IrqCalls
  <2>7. CASE CloseCall(h)
    BY <2>7, CallSteps, CloseMmiosStep, CloseIrqsStep, CloseEpollStep, CloseFdStep, Zenon DEF CloseCall
  <2> QED
    BY <2>1, <2>2, <2>3, <2>4, <2>5, <2>6, <2>7, Zenon
<1>2. CASE UNCHANGED vars
  <2>1. TypeOK' /\ Shapes'
    <3>1. TypeOK'
      BY <1>2, ZenonT(60) DEF vars, structVars, irqVars, mmioVars, kernelVars, IInv, TypeOK
    <3>2. Shapes'
      BY <1>2, ZenonT(60) DEF vars, structVars, irqVars, mmioVars, kernelVars, IInv, Shapes, Shape, BlankIrq
    <3> QED
      BY <3>1, <3>2, Zenon
  <2> QED
    BY <1>2, <2>1, OnlyTheCall, ZenonT(30) DEF vars, structVars, irqVars, mmioVars, kernelVars
<1> QED
  BY <1>1, <1>2, Zenon

\* The inductive invariant holds always: through open, attach, mapping, IRQs and close.
THEOREM Invariant == Spec => []IInv
<1> QED
  BY InitIInv, NextIInv, PTL DEF Spec

\* The variables have their types, and table counts stay within the bounds.
THEOREM TypesHold == Spec => []TypeOK
<1>1. IInv => TypeOK
  BY Zenon DEF IInv
<1> QED
  BY <1>1, Invariant, PTL

\* However the system calls of afu_open(), irq_allocate() and ocxl_afu_close()
\* fail and interleave, every open descriptor is recorded by exactly one
\* handle, and every recorded descriptor is open and of the right kind.
THEOREM DescriptorsAreAccountedFor == Spec => []DescriptorLedger
<1>1. IInv => DescriptorLedger
  BY Zenon DEF IInv
<1> QED
  BY <1>1, Invariant, PTL

\* The same for mappings, MMIO areas and IRQ pages alike.
THEOREM MappingsAreAccountedFor == Spec => []MappingLedger
<1>1. IInv => MappingLedger
  BY Zenon DEF IInv
<1> QED
  BY <1>1, Invariant, PTL

\* irq_allocate() and irq_dealloc() leave no IRQ behind in the kernel.
THEOREM IrqsAreAccountedFor == Spec => []IrqLedger
<1>1. IInv => IrqLedger
  BY Zenon DEF IInv
<1> QED
  BY <1>1, Invariant, PTL

\* A context is alive exactly while one handle has its device descriptor.
THEOREM ContextsAreAccountedFor == Spec => []ContextsAreHeld
<1> QED
  BY IInvHeld, Invariant, PTL

\* mmio_map() refuses a per-PASID area until ocxl_afu_attach() has succeeded.
THEOREM AttachedBeforePerPasid == Spec => []PerPasidIsAttached
<1>1. IInv => PerPasidIsAttached
  BY Zenon DEF IInv
<1> QED
  BY <1>1, Invariant, PTL

-------------------------------------------------------------------------------
(* The handle functions implement ContextPool.                              *)

Holder == [h \in Handles |-> IF fd[h] = -1 THEN UINT32_MAX ELSE Context(h)]
Free   == {p \in Pasids : ~Live(fds, maps, p)}

Unheld == Free = Pasids \ {Holder[h] : h \in Handles}

\* A context that is not alive is held by no handle.
LEMMA FreeIsUnheld == IInv => Unheld
<1> SUFFICES ASSUME IInv PROVE Unheld
  BY Zenon
<1>1. ContextsAreHeld
  BY IInvHeld, ZenonT(30)
<1> QED
  BY <1>1, NamesAssumption, Zenon DEF Unheld, Free, Holder, ContextsAreHeld

\* Every step but three opens no device descriptor and closes none.
LEMMA QuietSteps ==
  ASSUME IInv, NEW h \in Handles,
         \/ GetAfuByPath(h) \/ NoSysfsPath(h) \/ OpenDeviceFails(h) \/ GlobalMmioOpen(h)
         \/ EpollCreate(h) \/ EpollCtl(h) \/ GetMetadata(h) \/ OpenStepFails(h)
         \/ MmioCalls(h) \/ GrowEventBuffer(h) \/ IrqCalls(h)
         \/ Close(h) \/ CloseMmios(h) \/ CloseIrqs(h) \/ CloseEpoll(h)
  PROVE  /\ UNCHANGED <<fd, attached>>
         /\ \A d \in Fds, p \in Pasids : fds'[d] = <<"context", p>> => fds[d] = <<"context", p>>
<1> USE DEF structVars, kernelVars, Kernel, Closed
<1> USE DEF IInv, TypeOK
<1>1. CASE GetAfuByPath(h) \/ NoSysfsPath(h) \/ OpenDeviceFails(h) \/ EpollCtl(h) \/ GetMetadata(h) \/ OpenStepFails(h)
           \/ GrowEventBuffer(h) \/ Close(h)
  BY <1>1, ZenonT(30) DEF GetAfuByPath, NoSysfsPath, OpenDeviceFails, EpollCtl, GetMetadata, OpenStepFails, GrowEventBuffer, Close
<1>2. CASE GlobalMmioOpen(h)
  BY <1>2, SMTT(30), Z3T(30) DEF GlobalMmioOpen
<1>3. CASE EpollCreate(h)
  BY <1>3, SMTT(30), Z3T(30) DEF EpollCreate
<1>4. CASE MmioCalls(h)
  BY <1>4, ZenonT(30) DEF MmioCalls, MmioMap, MmioMapNoMem, MmioUnmap
<1>5. CASE IrqEventfd(h)
  BY <1>5, SMTT(30), Z3T(30) DEF IrqEventfd
<1>6. CASE IrqErrend(h) \/ CloseIrqs(h)
  <2>1. PICK S : irq_dealloc(h, S) /\ UNCHANGED structVars
    BY <1>6, ZenonT(30) DEF IrqErrend, CloseIrqs
  <2>2. fds' = [d \in Fds |-> IF \E i \in S : eventfd[h][i] = d THEN Closed ELSE fds[d]]
    BY <2>1, Zenon DEF irq_dealloc
  <2> QED
    BY <2>1, <2>2, Zenon
<1>7. CASE IrqAlloc(h) \/ IrqIoctlAlloc(h) \/ IrqIoctlSetFd(h) \/ IrqMmap(h) \/ IrqEpollCtl(h) \/ IrqStepFails(h)
  BY <1>7, ZenonT(30) DEF IrqAlloc, IrqIoctlAlloc, IrqIoctlSetFd, IrqMmap, IrqEpollCtl, IrqStepFails
<1>8. CASE CloseMmios(h)
  <2>1. fds' = [d \in Fds |-> IF d = global_mmio_fd[h] THEN Closed ELSE fds[d]] /\ UNCHANGED <<fd, attached>>
    BY <1>8, Zenon DEF CloseMmios
  <2> QED
    BY <2>1, ZenonT(30)
<1>9. CASE CloseEpoll(h)
  <2>1. fds' = [d \in Fds |-> IF d = epoll_fd[h] THEN Closed ELSE fds[d]] /\ UNCHANGED <<fd, attached>>
    BY <1>9, Zenon DEF CloseEpoll
  <2> QED
    BY <2>1, Zenon
<1> QED
  BY <1>1, <1>2, <1>3, <1>4, <1>5, <1>6, <1>7, <1>8, <1>9, Zenon DEF IrqCalls

\* The initial states are those of the pool.
LEMMA InitPool == Init => Pool!Init
<1> SUFFICES ASSUME Init PROVE Pool!Init
  BY Zenon
<1>1. \A p \in Pasids : ~Live(fds, maps, p)
  BY Zenon DEF Init, Live, Closed, Unmapped
<1> QED
  BY <1>1, Zenon DEF Init, Pool!Init

\* Every step is a step of the pool of contexts, or none.
LEMMA NextPool ==
  ASSUME IInv, IInv', [Next]_vars
  PROVE  [Pool!Next]_(Pool!poolVars)
<1> USE NamesAssumption
<1>1. Free = Pasids \ {Holder[g] : g \in Handles}
  BY FreeIsUnheld, Zenon DEF Unheld
<1>2. Free' = Pasids \ {Holder'[g] : g \in Handles}
  <2>1. Unheld'
    BY FreeIsUnheld, PTL
  <2> QED
    BY <2>1, Zenon DEF Unheld
<1>3. ASSUME UNCHANGED <<fd, attached>>,
             \A d \in Fds, p \in Pasids : fds'[d] = <<"context", p>> => fds[d] = <<"context", p>>
      PROVE  UNCHANGED Pool!poolVars
  <2>1. ASSUME NEW g \in Handles, fd[g] # -1 PROVE Context(g)' = Context(g)
    <3>1. fd[g] \in Fds /\ \E p \in Pasids : fds'[fd[g]] = <<"context", p>>
      <4>1. FdsOf(g)'
        BY Zenon DEF IInv, DescriptorLedger
      <4>2. fd[g] \in Fds
        BY <2>1, HasContext, Zenon
      <4> QED
        BY <1>3, <2>1, <4>1, <4>2, Zenon DEF FdsOf
    <3>2. fds'[fd'[g]] = fds[fd[g]]
      BY <1>3, <3>1, Zenon
    <3> QED
      BY <3>2, ZenonT(30) DEF Context
  <2>2. Holder' = Holder
    BY <1>3, <2>1, Zenon DEF Holder
  <2>3. Free' = Free
    BY <1>1, <1>2, <2>2, Zenon
  <2> QED
    BY <1>3, <2>2, <2>3, Zenon DEF Pool!poolVars, Holder, Free
<1>4. CASE UNCHANGED vars
  BY <1>3, <1>4, Zenon DEF vars, structVars, kernelVars
<1>5. ASSUME NEW h \in Handles, OpenDevice(h) PROVE Pool!Next
  <2>1. PICK d \in Fds, p \in Pasids :
          /\ LowestFree(d) /\ ~Live(fds, maps, p) /\ fd' = [fd EXCEPT ![h] = d]
          /\ fds' = [fds EXCEPT ![d] = <<"context", p>>]
    BY <1>5, Zenon DEF OpenDevice, Kernel
  <2>2. fd[h] = -1 /\ UNCHANGED attached /\ p \in Free
    <3>1. Shape(h) /\ pc[h] = "open" /\ UNCHANGED attached
      BY <1>5, Zenon DEF OpenDevice, IInv, Shapes
    <3> QED
      BY <2>1, <3>1, Zenon DEF Shape, Free
  <2>3. ASSUME NEW g \in Handles, g # h
        PROVE  fd'[g] = fd[g] /\ (fd[g] # -1 => Context(g)' = Context(g))
    <3>1. fd'[g] = fd[g]
      BY <2>1, <2>3, Zenon DEF IInv, TypeOK
    <3>2. fd[g] # -1 => fd[g] # d /\ fd[g] \in Fds
      BY <2>1, HasContext, SMTT(30), Z3T(30) DEF LowestFree, Closed
    <3>3. fd[g] # -1 => fds'[fd'[g]] = fds[fd[g]]
      BY <2>1, <3>1, <3>2, TablesType, ZenonT(30)
    <3> QED
      BY <3>1, <3>3, ZenonT(30) DEF Context
  <2>4. fd'[h] # -1 /\ Context(h)' = p
    <3>1. fd'[h] = d /\ fds'[d] = <<"context", p>>
      BY <2>1, FdType, TablesType, Zenon
    <3>2. d # -1 /\ <<"context", p>>[2] = p
      BY SMTT(30), Z3T(30) DEF Fds
    <3> QED
      BY <3>1, <3>2, Zenon DEF Context
  <2>5. Holder' = [Holder EXCEPT ![h] = p]
    BY <2>3, <2>4, Zenon DEF Holder
  <2>6. Free' = Free \ {p}
    BY <1>1, <1>2, <2>2, <2>5, ZenonT(30) DEF Holder
  <2>7. Holder[h] = UINT32_MAX
    BY <2>2, ZenonT(30) DEF Holder
  <2>8. Pool!Acquire(h)
    BY <2>2, <2>5, <2>6, <2>7, Zenon DEF Pool!Acquire, Holder, Free
  <2> QED
    BY <2>8, Zenon DEF Pool!Next
<1>6. ASSUME NEW h \in Handles, Attach(h) PROVE Pool!Next
  <2>1. fd' = fd /\ fds' = fds /\ maps' = maps /\ attached' = [attached EXCEPT ![h] = TRUE]
    BY <1>6, Zenon DEF Attach, Kernel
  <2>2. Holder' = Holder /\ Free' = Free
    BY <2>1, Zenon DEF Holder, Context, Free, Live
  <2>3. Holder[h] # UINT32_MAX
    BY <1>6, HasContext, Zenon DEF Attach, Holder
  <2>4. Pool!Attach(h)
    BY <2>1, <2>2, <2>3, Zenon DEF Pool!Attach, Holder, Free
  <2> QED
    BY <2>4, Zenon DEF Pool!Next
<1>7. ASSUME NEW h \in Handles, CloseFd(h) PROVE Pool!Next
  <2>1. /\ fds' = [d \in Fds |-> IF d = fd[h] THEN Closed ELSE fds[d]]
        /\ fd' = [fd EXCEPT ![h] = -1]
        /\ attached' = [attached EXCEPT ![h] = FALSE]
    BY <1>7, Zenon DEF CloseFd, Kernel
  <2>2. fd[h] # -1 /\ fd[h] \in Fds /\ Context(h) \in Pasids
    BY <1>7, HasContext, ZenonT(30) DEF CloseFd, IInv, Shapes, Shape
  <2>3. ASSUME NEW g \in Handles, g # h
        PROVE  fd'[g] = fd[g] /\ (fd[g] # -1 => Context(g)' = Context(g) /\ Context(g) # Context(h))
    <3>1. fd'[g] = fd[g]
      BY <2>1, <2>3, Zenon DEF IInv, TypeOK
    <3>2. fd[g] # -1 => Context(g) # Context(h) /\ fd[g] \in Fds
      BY <2>2, <2>3, Zenon DEF IInv, OwnContext, TypeOK
    <3> QED
      BY <2>1, <3>1, <3>2, ZenonT(30) DEF Context
  <2>4. Holder' = [Holder EXCEPT ![h] = UINT32_MAX]
    BY <2>1, <2>3, Zenon DEF Holder, IInv, TypeOK
  <2>5. Holder[h] = Context(h) /\ Holder[h] # UINT32_MAX
    BY <2>2, Zenon DEF Holder
  <2>6. \A g \in Handles : g # h => Holder[g] # Holder[h]
    BY <2>3, <2>5, Zenon DEF Holder
  <2>7. Free' = Free \cup {Holder[h]}
    BY <1>1, <1>2, <2>2, <2>4, <2>5, <2>6, ZenonT(30) DEF Holder
  <2>8. Pool!Release(h)
    BY <2>1, <2>4, <2>5, <2>7, ZenonT(30) DEF Pool!Release, Holder, Free
  <2> QED
    BY <2>8, Zenon DEF Pool!Next
<1>8. CASE Next
  <2>1. PICK h \in Handles :
          \/ OpenSteps(h) \/ Attach(h) \/ MmioCalls(h) \/ GrowEventBuffer(h) \/ IrqCalls(h) \/ CloseCall(h)
    BY <1>8, Zenon DEF Next
  <2>2. OpenDevice(h) \/ Attach(h) \/ CloseFd(h) \/ UNCHANGED Pool!poolVars
    BY <1>3, <2>1, QuietSteps, Zenon DEF OpenSteps, CloseCall
  <2> QED
    BY <1>5, <1>6, <1>7, <2>2, Zenon
<1> QED
  BY <1>3, <1>4, <1>8, Zenon

\* Opening, attaching and closing handles, with every partial failure on the
\* way, is a pool of contexts in which each handle holds one or none.
THEOREM ContextPoolImplemented == Spec => ImplementsContextPool
<1> QED
  BY InitPool, NextPool, Invariant, PTL DEF Spec, ImplementsContextPool, Pool!Spec

-------------------------------------------------------------------------------
(* The heap, and the two tables that grow.                                  *)

\* HeapLedger of one handle, with what ocxl_afu_close() has freed already.
HeapShape(h) ==
  /\ pc[h] = "none" => <<h, "afu">> \notin heap /\ <<h, "device_path">> \notin heap /\ <<h, "sysfs_path">> \notin heap
  /\ pc[h] # "none" => <<h, "afu">> \in heap /\ <<h, "device_path">> \in heap /\ <<h, "sysfs_path">> \in heap
  /\ pc[h] \in {"none", "open", "lost", "close_epoll", "close_fd"} =>
       irq_max_count[h] = 0 /\ <<h, "irqs">> \notin heap
  /\ pc[h] \in {"none", "open", "lost", "close_fd"} => <<h, "epoll_events">> \notin heap
  /\ pc[h] \in {"none", "open", "lost"} => mmio_max_count[h] = 0 /\ <<h, "mmios">> \notin heap
  /\ irq_max_count[h] # 0 => <<h, "irqs">> \in heap
  /\ mmio_max_count[h] # 0 => <<h, "mmios">> \in heap

HeapShapes == \A h \in Handles : HeapShape(h)

\* A step of the handle h leaves the blocks of every other one alone.
OnlyItsBlocks(h) ==
  \A g \in Handles : g # h =>
    /\ pc'[g] = pc[g] /\ irq_max_count'[g] = irq_max_count[g] /\ mmio_max_count'[g] = mmio_max_count[g]
    /\ \A b \in Blocks : <<g, b>> \in heap' <=> <<g, b>> \in heap

\* Allocating or freeing a block of one handle leaves those of the others alone.
LEMMA OneBlock ==
  ASSUME NEW h \in Handles, NEW b,
         heap' \in {heap, heap \cup {<<h, b>>}, heap \ {<<h, b>>}}
  PROVE  \A g \in Handles : g # h => \A c \in Blocks : <<g, c>> \in heap' <=> <<g, c>> \in heap
  OBVIOUS

\* A step on the blocks of one handle keeps the heap shapes of the others.
LEMMA OtherHeaps ==
  ASSUME HeapShapes, NEW h \in Handles, OnlyItsBlocks(h), HeapShape(h)'
  PROVE  HeapShapes'
<1> SUFFICES ASSUME NEW g \in Handles, g # h PROVE HeapShape(g)'
  BY Zenon DEF HeapShapes
<1>1. HeapShape(g)
  BY Zenon DEF HeapShapes
<1> QED
  BY <1>1, ZenonT(30) DEF OnlyItsBlocks, HeapShape, Blocks

\* Steps that allocate and free nothing.
LEMMA QuietHeap ==
  ASSUME TypeOK, HeapShapes, NEW h \in Handles, NEW l \in PCs,
         pc[h] # "none", pc' = [pc EXCEPT ![h] = l],
         \/ l \notin {"none", "open", "lost", "close_epoll", "close_fd"}
         \/ pc[h] = "open" /\ l = "lost"
         \/ pc[h] = l,
         UNCHANGED <<heap, irq_max_count, mmio_max_count>>
  PROVE  HeapShapes'
<1>1. HeapShape(h) /\ pc'[h] = l
  BY Zenon DEF HeapShapes, TypeOK
<1>2. OnlyItsBlocks(h)
  BY Zenon DEF OnlyItsBlocks, TypeOK
<1>3. HeapShape(h)'
  BY <1>1, ZenonT(30) DEF HeapShape
<1> QED
  BY <1>2, <1>3, OtherHeaps, Zenon

\* The steps of the open calls preserve the heap shapes.
LEMMA OpenHeap ==
  ASSUME TypeOK, HeapShapes, NEW h \in Handles, OpenSteps(h)
  PROVE  HeapShapes'
<1> USE DEF irqVars, mmioVars
<1>0. HeapShape(h)
  BY Zenon DEF HeapShapes
<1>1. CASE GetAfuByPath(h)
  <2>1. /\ pc[h] = "none" /\ pc' = [pc EXCEPT ![h] = "open"]
        /\ heap' = heap \cup {<<h, "afu">>, <<h, "device_path">>, <<h, "sysfs_path">>}
        /\ UNCHANGED <<irq_max_count, mmio_max_count>>
    BY <1>1, Zenon DEF GetAfuByPath, Goto
  <2>2. pc'[h] = "open"
    BY <2>1, Zenon DEF TypeOK
  <2>3. OnlyItsBlocks(h)
    BY <2>1, ZenonT(30) DEF OnlyItsBlocks, TypeOK
  <2>4. HeapShape(h)'
    BY <1>0, <2>1, <2>2, Zenon DEF HeapShape
  <2> QED
    BY <2>3, <2>4, OtherHeaps, Zenon
<1>2. CASE NoSysfsPath(h)
  <2>1. /\ pc[h] = "none" /\ heap' = heap \cup {<<h, "orphan_device_path">>}
        /\ UNCHANGED <<pc, irq_max_count, mmio_max_count>>
    BY <1>2, Zenon DEF NoSysfsPath
  <2>2. OnlyItsBlocks(h)
    BY <2>1, Zenon DEF OnlyItsBlocks
  <2>3. HeapShape(h)'
    BY <1>0, <2>1, Zenon DEF HeapShape
  <2> QED
    BY <2>2, <2>3, OtherHeaps, Zenon
<1>3. CASE OpenDevice(h) \/ OpenDeviceFails(h) \/ GlobalMmioOpen(h) \/ EpollCreate(h)
           \/ EpollCtl(h) \/ GetMetadata(h) \/ OpenStepFails(h)
  <2>1. /\ pc[h] # "none" /\ UNCHANGED <<heap, irq_max_count, mmio_max_count>>
        /\ \E l \in {"global_mmio_open", "lost", "epoll_create", "epoll_ctl", "get_metadata",
                     "ready", "close_mmios"} :
             pc' = [pc EXCEPT ![h] = l] /\ (l = "lost" => pc[h] = "open")
    BY <1>3, Zenon DEF OpenDevice, OpenDeviceFails, GlobalMmioOpen, EpollCreate,
       EpollCtl, GetMetadata, OpenStepFails, Goto, Opening
  <2> QED
    BY <2>1, QuietHeap, Labels, ZenonT(30)
<1> QED
  BY <1>1, <1>2, <1>3, Zenon DEF OpenSteps

\* Attaching, mapping and growing the event buffer preserve the heap shapes.
LEMMA CallHeap ==
  ASSUME TypeOK, HeapShapes, NEW h \in Handles,
         \/ Attach(h) \/ GrowEventBuffer(h) \/ MmioCalls(h)
  PROVE  HeapShapes'
<1> USE DEF irqVars
<1>0. HeapShape(h) /\ pc[h] = "ready" /\ UNCHANGED pc
  BY Zenon DEF HeapShapes, Attach, GrowEventBuffer, MmioCalls, MmioMap, MmioMapNoMem, MmioUnmap
<1>1. CASE GrowEventBuffer(h)
  <2>1. /\ heap' \in {heap \cup {<<h, "epoll_events">>}, heap \ {<<h, "epoll_events">>}}
        /\ UNCHANGED <<irq_max_count, mmio_max_count>>
    BY <1>1, Zenon DEF GrowEventBuffer, mmioVars
  <2>2. OnlyItsBlocks(h)
    <3>1. \A g \in Handles : g # h => \A b \in Blocks : <<g, b>> \in heap' <=> <<g, b>> \in heap
      BY <2>1, SMTT(30), Z3T(30)
    <3>2. pc' = pc /\ irq_max_count' = irq_max_count /\ mmio_max_count' = mmio_max_count
      BY <1>0, <2>1, Zenon
    <3> QED
      BY <3>1, <3>2, Zenon DEF OnlyItsBlocks
  <2>3. HeapShape(h)'
    BY <1>0, <2>1, Zenon DEF HeapShape
  <2> QED
    BY <2>2, <2>3, OtherHeaps, Zenon
<1>2. ASSUME NEW type \in MmioTypes, MmioMap(h, type) PROVE HeapShapes'
  <2> DEFINE n == IF MustGrowMmios(h) THEN ToUint16(new_count(mmio_max_count[h], INITIAL_MMIO_COUNT))
                  ELSE mmio_max_count[h]
  <2>1. /\ mmio_max_count' = [mmio_max_count EXCEPT ![h] = n]
        /\ heap' = IF MustGrowMmios(h) THEN heap \cup {<<h, "mmios">>} ELSE heap
    BY <1>2, Zenon DEF MmioMap
  <2>a. ~MustGrowMmios(h) => n = mmio_max_count[h]
    BY Zenon
  <2> HIDE DEF n
  <2>2. UNCHANGED irq_max_count
    BY <1>2, Zenon DEF MmioMap
  <2>3. OnlyItsBlocks(h)
    <3>1. heap' \in {heap, heap \cup {<<h, "mmios">>}, heap \ {<<h, "mmios">>}}
      BY <2>1, Zenon
    <3> QED
      BY <1>0, <2>1, <2>2, <3>1, OneBlock, ZenonT(30) DEF OnlyItsBlocks, TypeOK
  <2>4. HeapShape(h)'
    <3>1. mmio_max_count'[h] = n
      BY <2>1, Zenon DEF TypeOK
    <3>2. CASE MustGrowMmios(h)
      BY <1>0, <2>1, <2>2, <3>2, Zenon DEF HeapShape
    <3>3. CASE ~MustGrowMmios(h)
      BY <1>0, <2>1, <2>2, <2>a, <3>1, <3>3, ZenonT(30) DEF HeapShape
    <3> QED
      BY <3>2, <3>3, Zenon
  <2> QED
    BY <2>3, <2>4, OtherHeaps, Zenon
<1>3. CASE UNCHANGED <<heap, irq_max_count, mmio_max_count>>
  BY <1>0, <1>3, Zenon DEF HeapShapes, HeapShape
<1>4. Attach(h) \/ (\E type \in MmioTypes : MmioMapNoMem(h, type)) \/ (\E i \in MmioSlots : MmioUnmap(h, i))
        => UNCHANGED <<heap, irq_max_count, mmio_max_count>>
  BY Zenon DEF Attach, MmioMapNoMem, MmioUnmap, mmioVars
<1> QED
  BY <1>1, <1>2, <1>3, <1>4, Zenon DEF MmioCalls

\* The steps of ocxl_irq_alloc() preserve the heap shapes.
LEMMA IrqHeap ==
  ASSUME TypeOK, HeapShapes, NEW h \in Handles, IrqCalls(h)
  PROVE  HeapShapes'
<1> USE DEF mmioVars
<1>0. HeapShape(h)
  BY Zenon DEF HeapShapes
<1>1. CASE IrqAlloc(h)
  <2> DEFINE n == IF MustGrowIrqs(h) THEN ToUint16(new_count(irq_max_count[h], INITIAL_IRQ_COUNT))
                  ELSE irq_max_count[h]
  <2>1. /\ irq_max_count' = [irq_max_count EXCEPT ![h] = n]
        /\ heap' = IF MustGrowIrqs(h) THEN heap \cup {<<h, "irqs">>} ELSE heap
    BY <1>1, Zenon DEF IrqAlloc
  <2>a. ~MustGrowIrqs(h) => n = irq_max_count[h]
    BY Zenon
  <2> HIDE DEF n
  <2>2. pc[h] = "ready" /\ pc' = [pc EXCEPT ![h] = "eventfd"] /\ UNCHANGED mmio_max_count
    BY <1>1, Zenon DEF IrqAlloc, Goto
  <2>3. OnlyItsBlocks(h)
    <3>1. heap' \in {heap, heap \cup {<<h, "irqs">>}, heap \ {<<h, "irqs">>}}
      BY <2>1, Zenon
    <3> QED
      BY <2>1, <2>2, <3>1, OneBlock, ZenonT(30) DEF OnlyItsBlocks, TypeOK
  <2>4. HeapShape(h)'
    <3>1. irq_max_count'[h] = n /\ pc'[h] = "eventfd"
      BY <2>1, <2>2, Zenon DEF TypeOK
    <3>2. CASE MustGrowIrqs(h)
      BY <1>0, <2>1, <2>2, <3>1, <3>2, Zenon DEF HeapShape
    <3>3. CASE ~MustGrowIrqs(h)
      BY <1>0, <2>1, <2>2, <2>a, <3>1, <3>3, Zenon DEF HeapShape
    <3> QED
      BY <3>2, <3>3, Zenon
  <2> QED
    BY <2>3, <2>4, OtherHeaps, Zenon
<1>2. CASE IrqEventfd(h) \/ IrqIoctlAlloc(h) \/ IrqIoctlSetFd(h) \/ IrqMmap(h) \/ IrqEpollCtl(h)
           \/ IrqStepFails(h) \/ IrqErrend(h)
  <2>1. /\ pc[h] # "none" /\ UNCHANGED <<heap, irq_max_count, mmio_max_count>>
        /\ \E l \in IrqSteps \cup {"ready"} : pc' = [pc EXCEPT ![h] = l]
    BY <1>2, Zenon DEF IrqEventfd, IrqIoctlAlloc, IrqIoctlSetFd, IrqMmap, IrqEpollCtl, IrqStepFails, IrqErrend,
       Goto, IrqSteps, irqVars
  <2>2. /\ IrqSteps \cup {"ready"} \subseteq PCs
        /\ \A l \in IrqSteps \cup {"ready"} : l \notin {"none", "open", "lost", "close_epoll", "close_fd"}
    BY Zenon DEF PCs, IrqSteps
  <2> QED
    BY <2>1, <2>2, QuietHeap, ZenonT(30)
<1> QED
  BY <1>1, <1>2, Zenon DEF IrqCalls

\* The steps of ocxl_afu_close() preserve the heap shapes.
LEMMA CloseHeap ==
  ASSUME TypeOK, HeapShapes, NEW h \in Handles, CloseCall(h)
  PROVE  HeapShapes'
<1>0. HeapShape(h)
  BY Zenon DEF HeapShapes
<1>1. CASE Close(h) \/ CloseMmios(h)
  <2>1. /\ pc[h] # "none" /\ UNCHANGED <<heap, irq_max_count, mmio_max_count>>
        /\ \E l \in {"close_mmios", "close_irqs"} : pc' = [pc EXCEPT ![h] = l]
    BY <1>1, Zenon DEF Close, CloseMmios, Goto, irqVars, mmioVars
  <2> QED
    BY <2>1, QuietHeap, Labels, ZenonT(30)
<1>2. CASE CloseIrqs(h)
  <2>1. /\ pc[h] = "close_irqs" /\ pc' = [pc EXCEPT ![h] = "close_epoll"]
        /\ heap' = heap \ {<<h, "irqs">>} /\ irq_max_count' = [irq_max_count EXCEPT ![h] = 0]
        /\ UNCHANGED mmio_max_count
    BY <1>2, Zenon DEF CloseIrqs, Goto, mmioVars
  <2>2. pc'[h] = "close_epoll" /\ irq_max_count'[h] = 0
    BY <2>1, Zenon DEF TypeOK
  <2>3. OnlyItsBlocks(h)
    BY <2>1, ZenonT(30) DEF OnlyItsBlocks, TypeOK
  <2>4. HeapShape(h)'
    BY <1>0, <2>1, <2>2, Zenon DEF HeapShape
  <2> QED
    BY <2>3, <2>4, OtherHeaps, Zenon
<1>3. CASE CloseEpoll(h)
  <2>1. /\ pc[h] = "close_epoll" /\ pc' = [pc EXCEPT ![h] = "close_fd"]
        /\ heap' = heap \ {<<h, "epoll_events">>} /\ UNCHANGED <<irq_max_count, mmio_max_count>>
    BY <1>3, Zenon DEF CloseEpoll, Goto, irqVars, mmioVars
  <2>2. pc'[h] = "close_fd"
    BY <2>1, Zenon DEF TypeOK
  <2>3. OnlyItsBlocks(h)
    BY <2>1, ZenonT(30) DEF OnlyItsBlocks, TypeOK
  <2>4. HeapShape(h)'
    BY <1>0, <2>1, <2>2, Zenon DEF HeapShape
  <2> QED
    BY <2>3, <2>4, OtherHeaps, Zenon
<1>4. CASE CloseFd(h)
  <2>1. /\ pc[h] = "close_fd" /\ pc' = [pc EXCEPT ![h] = "none"]
        /\ UNCHANGED irq_max_count /\ mmio_max_count' = [mmio_max_count EXCEPT ![h] = 0]
    BY <1>4, Zenon DEF CloseFd, Goto, irqVars
  <2>2. pc'[h] = "none" /\ mmio_max_count'[h] = 0
    BY <2>1, Zenon DEF TypeOK
  <2>5. \A g, b : <<g, b>> \in heap' <=>
          IF g = h /\ b \in {"afu", "device_path", "sysfs_path", "mmios"} THEN FALSE
          ELSE \/ <<g, b>> \in heap
               \/ g = h /\ b = "orphan_mmios" /\ <<h, "mmios">> \in heap
    BY <1>4, SMTT(30), Z3T(30) DEF CloseFd, FreeAfu, OrphanedMmios
  <2>3. OnlyItsBlocks(h)
    BY <2>1, <2>5, ZenonT(30) DEF OnlyItsBlocks, TypeOK
  <2>4. HeapShape(h)'
    BY <1>0, <2>1, <2>2, <2>5, ZenonT(30) DEF HeapShape
  <2> QED
    BY <2>3, <2>4, OtherHeaps, Zenon
<1> QED
  BY <1>1, <1>2, <1>3, <1>4, Zenon DEF CloseCall

\* Whatever fails, what the members of a handle point to is allocated while it
\* is used, and nothing outlives it but what HeapLedger names.
THEOREM HeapIsAccountedFor == Spec => []HeapLedger
<1>1. Init => HeapShapes
  BY SMTT(30), Z3T(30) DEF Init, HeapShapes, HeapShape
<1>2. TypeOK /\ HeapShapes /\ [Next]_vars => HeapShapes'
  <2> SUFFICES ASSUME TypeOK, HeapShapes, [Next]_vars PROVE HeapShapes'
    BY Zenon
  <2>1. CASE UNCHANGED vars
    BY <2>1, Zenon DEF vars, irqVars, mmioVars, HeapShapes, HeapShape
  <2> QED
    BY <2>1, OpenHeap, CallHeap, IrqHeap, CloseHeap, Zenon DEF Next
<1>3. HeapShapes => HeapLedger
  <2> SUFFICES ASSUME HeapShapes, NEW h \in Handles
               PROVE  HeapLedger!(h)
    BY Zenon DEF HeapLedger
  <2>1. HeapShape(h)
    BY Zenon DEF HeapShapes
  <2> QED
    BY <2>1, ZenonT(30) DEF HeapShape, Allocated, Blocks, Orphans
<1> QED
  BY <1>1, <1>2, <1>3, TypesHold, PTL DEF Spec

-------------------------------------------------------------------------------
(* The tables.  grow_buffer() doubles a uint16_t, so that a table is large   *)
(* enough only as long as half the range of one is: up to 32768 elements.    *)

FitsUint16 ==
  /\ INITIAL_IRQ_COUNT < UINT16_RANGE /\ 2 * (MaxIrqs - 1) < UINT16_RANGE
  /\ INITIAL_MMIO_COUNT < UINT16_RANGE /\ 2 * (MaxMmios - 1) < UINT16_RANGE

\* grow_buffer() makes a table larger as long as twice its count fits in a uint16_t.
LEMMA GrownIsLarger ==
  ASSUME NEW c \in Nat, NEW i \in Nat \ {0}, i < UINT16_RANGE, 2 * c < UINT16_RANGE
  PROVE  c < ToUint16(new_count(c, i))
<1>1. \A n \in Nat : n < UINT16_RANGE => ToUint16(n) = n
  BY RangeAssumption, SMTT(30), Z3T(30) DEF ToUint16
<1>2. new_count(c, i) \in Nat /\ new_count(c, i) < UINT16_RANGE /\ c < new_count(c, i)
  BY RangeAssumption, SMTT(30), Z3T(30) DEF new_count
<1> QED
  BY <1>1, <1>2, Zenon

TableShape(h) ==
  /\ irq_count[h] <= irq_max_count[h]
  /\ pc[h] \in IrqSteps => irq_count[h] < irq_max_count[h]
  /\ mmio_count[h] <= mmio_max_count[h]

\* The IRQ table holds the IRQ that is added to it.
LEMMA IrqTable ==
  ASSUME FitsUint16, TypeOK, TablesHoldTheirEntries, NEW h \in Handles, IrqAlloc(h) \/ IrqEpollCtl(h)
  PROVE  TablesHoldTheirEntries'
<1> SUFFICES ASSUME NEW g \in Handles PROVE TableShape(g)'
  BY Zenon DEF TablesHoldTheirEntries, TableShape
<1> USE BoundsAssumption
<1>0. TableShape(g) /\ TableShape(h) /\ UNCHANGED mmioVars
  BY Zenon DEF TablesHoldTheirEntries, TableShape, IrqAlloc, IrqEpollCtl
<1>1. irq_count[h] \in Nat /\ irq_max_count[h] \in Nat /\ irq_count[h] <= irq_max_count[h]
  BY <1>0, SMTT(30), Z3T(30) DEF TypeOK, TableShape
<1>2. CASE IrqAlloc(h)
  <2>1. irq_count[h] < irq_max_count'[h] /\ irq_count' = irq_count
    <3>0. irq_count[h] < MaxIrqs
      BY <1>2, Zenon DEF IrqAlloc
    <3>1. CASE MustGrowIrqs(h)
      <4>1. 2 * irq_max_count[h] < UINT16_RANGE
        BY <1>1, <3>0, <3>1, RangeAssumption, SMTT(30), Z3T(30) DEF MustGrowIrqs, FitsUint16
      <4>2. irq_max_count'[h] = ToUint16(new_count(irq_max_count[h], INITIAL_IRQ_COUNT))
        BY <1>2, <3>1, Zenon DEF IrqAlloc, TypeOK
      <4>3. irq_max_count[h] < irq_max_count'[h]
        BY <1>1, <4>1, <4>2, GrownIsLarger, Zenon DEF FitsUint16
      <4> QED
        BY <1>2, <3>1, <4>3, Zenon DEF IrqAlloc, MustGrowIrqs
    <3>2. CASE ~MustGrowIrqs(h)
      <4>1. irq_max_count'[h] = irq_max_count[h] /\ irq_count' = irq_count
        BY <1>2, <3>2, Zenon DEF IrqAlloc, TypeOK
      <4> QED
        BY <1>1, <3>2, <4>1, SMTT(30), Z3T(30) DEF MustGrowIrqs
    <3> QED
      BY <3>1, <3>2, Zenon
  <2>2. g # h => irq_max_count'[g] = irq_max_count[g] /\ pc'[g] = pc[g]
    BY <1>2, Zenon DEF IrqAlloc, Goto, TypeOK
  <2>3. irq_max_count'[h] \in Nat
    <3>1. irq_max_count'[h] \in {irq_max_count[h], ToUint16(new_count(irq_max_count[h], INITIAL_IRQ_COUNT))}
      BY <1>2, Zenon DEF IrqAlloc, TypeOK
    <3> QED
      BY <1>1, <3>1, GrownIsNat, Zenon
  <2> QED
    BY <1>0, <1>1, <2>1, <2>2, <2>3, SMTT(30), Z3T(30) DEF mmioVars, TableShape
<1>3. CASE IrqEpollCtl(h)
  <2>1. irq_count[h] < irq_max_count[h]
    BY <1>0, <1>3, Zenon DEF IrqEpollCtl, IrqSteps, TableShape
  <2>2. irq_max_count' = irq_max_count /\ irq_count' = [irq_count EXCEPT ![h] = @ + 1]
        /\ pc' = [pc EXCEPT ![h] = "ready"]
    BY <1>3, Zenon DEF IrqEpollCtl, Goto
  <2>3. /\ irq_count'[h] = irq_count[h] + 1 /\ pc'[h] = "ready"
        /\ g # h => irq_count'[g] = irq_count[g] /\ pc'[g] = pc[g]
    BY <2>2, Zenon DEF TypeOK
  <2> QED
    BY <1>0, <1>1, <2>1, <2>2, <2>3, SMTT(30), Z3T(30) DEF mmioVars, IrqSteps, TableShape
<1> QED
  BY <1>2, <1>3, Zenon

\* The MMIO table holds the area that is added to it.
LEMMA MmioTable ==
  ASSUME FitsUint16, TypeOK, TablesHoldTheirEntries, NEW h \in Handles, NEW type \in MmioTypes, MmioMap(h, type)
  PROVE  TablesHoldTheirEntries'
<1> SUFFICES ASSUME NEW g \in Handles PROVE TableShape(g)'
  BY Zenon DEF TablesHoldTheirEntries, TableShape
<1> USE BoundsAssumption
<1>0. TableShape(g) /\ TableShape(h) /\ UNCHANGED <<pc, irqVars>>
  BY Zenon DEF TablesHoldTheirEntries, TableShape, MmioMap
<1>1. mmio_count[h] \in Nat /\ mmio_max_count[h] \in Nat /\ mmio_count[h] <= mmio_max_count[h]
  BY <1>0, SMTT(30), Z3T(30) DEF TypeOK, TableShape
<1>2. PICK i \in MmioSlots :
        /\ RegisterSlot(h, i)
        /\ mmio_count' = [mmio_count EXCEPT ![h] = NextMmioCount(h, i)]
        /\ mmio_max_count' = [mmio_max_count EXCEPT ![h] =
             IF MustGrowMmios(h) THEN ToUint16(new_count(@, INITIAL_MMIO_COUNT)) ELSE @]
  BY Zenon DEF MmioMap
<1>3. /\ mmio_count'[h] = NextMmioCount(h, i)
      /\ mmio_max_count'[h] = IF MustGrowMmios(h) THEN ToUint16(new_count(mmio_max_count[h], INITIAL_MMIO_COUNT))
                              ELSE mmio_max_count[h]
      /\ g # h => mmio_count'[g] = mmio_count[g] /\ mmio_max_count'[g] = mmio_max_count[g]
  BY <1>2, Zenon DEF TypeOK
<1>4. mmio_max_count'[h] \in Nat /\ mmio_count'[h] <= mmio_max_count'[h]
  <2>1. CASE MustGrowMmios(h)
    <3>1. i = mmio_count[h] /\ mmio_count[h] = mmio_max_count[h]
      BY <1>1, <1>2, <2>1, SMTT(30), Z3T(30) DEF MustGrowMmios, NoHole, RegisterSlot, MmioSlots
    <3>2. 2 * mmio_max_count[h] < UINT16_RANGE
      BY <1>1, <3>1, RangeAssumption, SMTT(30), Z3T(30) DEF FitsUint16, MmioSlots
    <3>3. mmio_max_count[h] < ToUint16(new_count(mmio_max_count[h], INITIAL_MMIO_COUNT))
      BY <1>1, <3>2, GrownIsLarger, Zenon DEF FitsUint16
    <3>4. ToUint16(new_count(mmio_max_count[h], INITIAL_MMIO_COUNT)) \in Nat
      BY <1>1, GrownIsNat, Zenon
    <3>5. mmio_count'[h] = mmio_max_count[h] + 1
      BY <1>3, <3>1, Zenon DEF NextMmioCount
    <3> QED
      BY <1>1, <1>3, <2>1, <3>3, <3>4, <3>5, SMTT(30), Z3T(30)
  <2>2. CASE ~MustGrowMmios(h)
    <3>1. i = mmio_count[h] => mmio_count[h] # mmio_max_count[h]
      BY <1>1, <1>2, <2>2, SMTT(30), Z3T(30) DEF MustGrowMmios, RegisterSlot
    <3> QED
      BY <1>1, <1>3, <2>2, <3>1, SMTT(30), Z3T(30) DEF NextMmioCount
  <2> QED
    BY <2>1, <2>2, Zenon
<1> QED
  BY <1>0, <1>3, <1>4, Zenon DEF irqVars, TableShape

\* The entries keep their room in every other step.
LEMMA OtherTables ==
  ASSUME TypeOK, TablesHoldTheirEntries, NEW h \in Handles,
         \/ OpenSteps(h) \/ Attach(h) \/ GrowEventBuffer(h) \/ CloseCall(h)
         \/ \E type \in MmioTypes : MmioMapNoMem(h, type)
         \/ \E i \in MmioSlots : MmioUnmap(h, i)
         \/ IrqEventfd(h) \/ IrqIoctlAlloc(h) \/ IrqIoctlSetFd(h) \/ IrqMmap(h)
         \/ IrqStepFails(h) \/ IrqErrend(h)
  PROVE  TablesHoldTheirEntries'
<1> SUFFICES ASSUME NEW g \in Handles PROVE TableShape(g)'
  BY Zenon DEF TablesHoldTheirEntries, TableShape
<1>0. TableShape(g) /\ irq_count[g] \in Nat /\ irq_max_count[g] \in Nat /\ mmio_count[g] \in Nat
      /\ mmio_max_count[g] \in Nat
  BY BoundsAssumption, SMTT(30), Z3T(30) DEF TablesHoldTheirEntries, TableShape, TypeOK
<1>1. /\ pc'[g] \in IrqSteps => pc[g] \in IrqSteps
      /\ \/ irq_count'[g] = irq_count[g] /\ irq_max_count'[g] = irq_max_count[g]
         \/ irq_count'[g] = 0 /\ irq_max_count'[g] = 0 /\ pc'[g] \notin IrqSteps
      /\ \/ mmio_count'[g] = mmio_count[g] /\ mmio_max_count'[g] = mmio_max_count[g]
         \/ mmio_count'[g] = 0 /\ mmio_max_count'[g] = 0
  <2> USE DEF irqVars, mmioVars, Goto
  <2>1. CASE OpenSteps(h)
    <3>1. /\ UNCHANGED <<irqVars, mmioVars>>
          /\ pc' = pc \/ \E l \in {"open", "lost", "ready", "close_mmios"} \cup Opening : pc' = [pc EXCEPT ![h] = l]
      BY <2>1, Zenon DEF OpenSteps, GetAfuByPath, NoSysfsPath, OpenDevice, OpenDeviceFails, GlobalMmioOpen,
         EpollCreate, EpollCtl, GetMetadata, OpenStepFails, Opening
    <3> QED
      BY <3>1, Zenon DEF Opening, IrqSteps, TypeOK
  <2>2. CASE \/ Attach(h) \/ GrowEventBuffer(h)
             \/ \E type \in MmioTypes : MmioMapNoMem(h, type)
             \/ \E i \in MmioSlots : MmioUnmap(h, i)
    <3>1. UNCHANGED <<pc, irq_count, irq_max_count, mmio_count, mmio_max_count>>
      BY <2>2, Zenon DEF Attach, GrowEventBuffer, MmioMapNoMem, MmioUnmap
    <3> QED
      BY <3>1, Zenon
  <2>3. CASE \/ IrqEventfd(h) \/ IrqIoctlAlloc(h) \/ IrqIoctlSetFd(h) \/ IrqMmap(h)
             \/ IrqStepFails(h) \/ IrqErrend(h)
    <3>1. /\ UNCHANGED <<irq_count, irq_max_count, mmio_count, mmio_max_count>>
          /\ pc[h] \in IrqSteps /\ \E l \in PCs : pc' = [pc EXCEPT ![h] = l]
      BY <2>3, Zenon DEF IrqEventfd, IrqIoctlAlloc, IrqIoctlSetFd, IrqMmap, IrqStepFails, IrqErrend, IrqSteps, PCs
    <3> QED
      BY <3>1, Zenon DEF TypeOK
  <2>4. CASE Close(h) \/ CloseMmios(h) \/ CloseEpoll(h)
    <3>1. /\ UNCHANGED <<irq_count, irq_max_count, mmio_count, mmio_max_count>>
          /\ \E l \in Closing : pc' = [pc EXCEPT ![h] = l]
      BY <2>4, Zenon DEF Close, CloseMmios, CloseEpoll, Closing
    <3> QED
      BY <3>1, Zenon DEF Closing, IrqSteps, TypeOK
  <2>5. CASE CloseIrqs(h)
    <3>1. /\ UNCHANGED <<mmio_count, mmio_max_count>> /\ pc' = [pc EXCEPT ![h] = "close_epoll"]
          /\ irq_count' = [irq_count EXCEPT ![h] = 0] /\ irq_max_count' = [irq_max_count EXCEPT ![h] = 0]
      BY <2>5, Zenon DEF CloseIrqs
    <3> QED
      BY <3>1, Zenon DEF IrqSteps, TypeOK
  <2>6. CASE CloseFd(h)
    <3>1. /\ UNCHANGED <<irq_count, irq_max_count>> /\ pc' = [pc EXCEPT ![h] = "none"]
          /\ mmio_count' = [mmio_count EXCEPT ![h] = 0] /\ mmio_max_count' = [mmio_max_count EXCEPT ![h] = 0]
      BY <2>6, Zenon DEF CloseFd
    <3> QED
      BY <3>1, Zenon DEF IrqSteps, TypeOK
  <2> QED
    BY <2>1, <2>2, <2>3, <2>4, <2>5, <2>6, Zenon DEF CloseCall
<1> QED
  BY <1>0, <1>1, SMTT(30), Z3T(30) DEF TableShape

\* Up to half the range of a uint16_t, no entry of the IRQ table or the MMIO
\* table lies beyond what grow_buffer() has allocated.
THEOREM TablesAreLargeEnough ==
  ASSUME FitsUint16 PROVE Spec => []TablesHoldTheirEntries
<1>1. Init => TablesHoldTheirEntries
  BY SMTT(30), Z3T(30) DEF Init, TablesHoldTheirEntries, IrqSteps
<1>2. TypeOK /\ TablesHoldTheirEntries /\ [Next]_vars => TablesHoldTheirEntries'
  <2> SUFFICES ASSUME TypeOK, TablesHoldTheirEntries, [Next]_vars PROVE TablesHoldTheirEntries'
    BY Zenon
  <2>1. CASE UNCHANGED vars
    BY <2>1, Zenon DEF vars, irqVars, mmioVars, TablesHoldTheirEntries
  <2> QED
    BY <2>1, IrqTable, MmioTable, OtherTables, Zenon DEF Next, MmioCalls, IrqCalls
<1> QED
  BY <1>1, <1>2, TypesHold, PTL DEF Spec

==============================================================================

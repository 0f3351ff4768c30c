------------------------- MODULE AfuContextInvariant --------------------------
(***************************************************************************)
(* The handle functions, for any number of handles, contexts, descriptors, *)
(* addresses, IRQs and MMIO areas: the inductive invariant, and that it is *)
(* kept by the steps that do not talk to the kernel and by those that only *)
(* take a descriptor, open() of the device included.                       *)
(***************************************************************************)
EXTENDS AfuContext, TLAPS

-------------------------------------------------------------------------------
(* The invariant.                                                           *)

BlankIrq(h, i) == eventfd[h][i] = -1 /\ irq_offset[h][i] = 0 /\ irq_addr[h][i] = NULL

\* Which members can be set where: the tables only grow on an open handle,
\* only the slot being allocated lies beyond irq_count, and ocxl_afu_close()
\* has emptied one table after the other.
Shape(h) ==
  /\ pc[h] \in {"none", "open", "lost"} => fd[h] = -1 /\ mmio_count[h] = 0
  /\ pc[h] \notin {"none", "open", "lost"} => fd[h] # -1
  /\ pc[h] \in {"none", "open", "lost", "global_mmio_open", "close_irqs", "close_epoll", "close_fd"}
       => global_mmio_fd[h] = -1
  /\ pc[h] \in {"none", "open", "lost", "global_mmio_open", "epoll_create", "close_fd"}
       => epoll_fd[h] = -1
  /\ pc[h] \in {"none", "open", "lost", "close_irqs", "close_epoll", "close_fd"}
       => \A i \in MmioSlots : mmio_start[h][i] = NULL
  /\ pc[h] \in {"none", "open", "lost", "close_epoll", "close_fd"} => irq_count[h] = 0
  /\ pc[h] \in IrqSteps => irq_count[h] < MaxIrqs
  /\ \A i \in IrqSlots : i >= irq_count[h] =>
       \/ BlankIrq(h, i)
       \/ pc[h] \in IrqSteps /\ i = irq_count[h]
  /\ pc[h] = "eventfd" => BlankIrq(h, irq_count[h])
  /\ pc[h] = "irq_alloc" => irq_offset[h][irq_count[h]] = 0
  /\ pc[h] \in IrqSteps \ {"irq_epoll", "irq_dealloc"} => irq_addr[h][irq_count[h]] = NULL
  /\ \A i \in IrqSlots : irq_addr[h][i] = MAP_FAILED => pc[h] = "irq_dealloc" /\ i = irq_count[h]
  /\ attached[h] => fd[h] # -1

Shapes == \A h \in Handles : Shape(h)

\* No two handles have the same context.
OwnContext ==
  \A g, h \in Handles : g # h /\ fd[g] # -1 /\ fd[h] # -1 => Context(g) # Context(h)

\* The kernel keeps nothing of a context that is not alive.
DeadIsEmpty ==
  \A p \in Pasids : ~Live(fds, maps, p) => kirqs[p] = {} /\ p \notin kattached

IInv ==
  /\ TypeOK
  /\ Shapes
  /\ DescriptorLedger
  /\ MappingLedger
  /\ IrqLedger
  /\ OwnContext
  /\ DeadIsEmpty
  /\ PerPasidIsAttached

-------------------------------------------------------------------------------
(* Types.                                                                   *)

\* What the code opens and maps are files and areas of the model.
LEMMA FilesAndAreas ==
  /\ Closed \in Files /\ Unmapped \in Areas
  /\ \A k \in {"global_mmio", "epoll", "eventfd"} : <<k, UINT32_MAX>> \in Files
  /\ \A p \in Pasids : <<"context", p>> \in Files /\ <<"per_pasid", p>> \in Areas /\ <<"irq", p>> \in Areas
  /\ <<"global", UINT32_MAX>> \in Areas
  BY SMTT(30), Z3T(30) DEF Closed, Unmapped, Files, Areas

\* A count narrowed to 16 bits is a natural number.
LEMMA Uint16IsNat == \A n \in Nat : ToUint16(n) \in Nat
  BY RangeAssumption, SMTT(30), Z3T(30) DEF ToUint16

\* So is the count that grow_buffer() stores.
LEMMA GrownIsNat ==
  \A c, i \in Nat : ToUint16(new_count(c, i)) \in Nat
<1> TAKE c, i \in Nat
<1>1. new_count(c, i) \in Nat
  BY SMTT(30), Z3T(30) DEF new_count
<1> QED
  BY <1>1, Uint16IsNat, Zenon

\* The types of the kernel's tables.
LEMMA TablesType ==
  IInv => /\ fds \in [Fds -> Files] /\ maps \in [Addrs -> Areas]
          /\ kirqs \in [Pasids -> SUBSET Offsets] /\ kattached \in SUBSET Pasids
  BY Zenon DEF IInv, TypeOK

\* The type of the place in a call, and of attached.
LEMMA CallType == IInv => pc \in [Handles -> PCs] /\ attached \in [Handles -> BOOLEAN]
  BY Zenon DEF IInv, TypeOK

\* The types of the descriptors a handle records.
LEMMA FdType ==
  IInv => /\ fd \in [Handles -> Fds \cup {-1}]
          /\ global_mmio_fd \in [Handles -> Fds \cup {-1}]
          /\ epoll_fd \in [Handles -> Fds \cup {-1}]
  BY Zenon DEF IInv, TypeOK

\* The types of a handle's IRQ table.
LEMMA IrqType ==
  IInv => /\ irq_count \in [Handles -> 0 .. MaxIrqs]
          /\ eventfd \in [Handles -> [IrqSlots -> Fds \cup {-1}]]
          /\ irq_offset \in [Handles -> [IrqSlots -> Offsets \cup {0}]]
          /\ irq_addr \in [Handles -> [IrqSlots -> Addrs \cup {NULL, MAP_FAILED}]]
  BY Zenon DEF IInv, TypeOK

\* The types of a handle's MMIO table.
LEMMA MmioType ==
  IInv => /\ mmio_count \in [Handles -> 0 .. MaxMmios]
          /\ mmio_start \in [Handles -> [MmioSlots -> Addrs \cup {NULL}]]
          /\ mmio_type \in [Handles -> [MmioSlots -> MmioTypes]]
  BY Zenon DEF IInv, TypeOK

\* The places in a call that the code passes through.
LEMMA Labels ==
  /\ {"none", "open", "lost", "ready"} \subseteq PCs
  /\ {"global_mmio_open", "epoll_create", "epoll_ctl", "get_metadata"} \subseteq PCs
  /\ {"eventfd", "irq_alloc", "irq_set_fd", "irq_mmap", "irq_epoll", "irq_dealloc"} \subseteq PCs
  /\ {"close_mmios", "close_irqs", "close_epoll", "close_fd"} \subseteq PCs
  BY Zenon DEF PCs, Opening, IrqSteps, Closing

\* The members of a handle that Shape speaks of keep their values.
Same(g) ==
  /\ pc'[g] = pc[g] /\ fd'[g] = fd[g] /\ global_mmio_fd'[g] = global_mmio_fd[g]
  /\ epoll_fd'[g] = epoll_fd[g] /\ attached'[g] = attached[g]
  /\ irq_count'[g] = irq_count[g] /\ eventfd'[g] = eventfd[g]
  /\ irq_offset'[g] = irq_offset[g] /\ irq_addr'[g] = irq_addr[g]
  /\ mmio_count'[g] = mmio_count[g] /\ mmio_start'[g] = mmio_start[g]

\* A step of one handle keeps the shapes of the others.
LEMMA OtherShapes ==
  ASSUME IInv, NEW h \in Handles, Shape(h)', \A g \in Handles : g # h => Same(g)
  PROVE  Shapes'
<1> SUFFICES ASSUME NEW g \in Handles, g # h PROVE Shape(g)'
  BY Zenon DEF Shapes
<1>1. Shape(g) /\ Same(g)
  BY Zenon DEF IInv, Shapes
<1> QED
  BY <1>1, SMTT(30), Z3T(30) DEF Shape, Same, BlankIrq

\* What the kernel's variables may hold after Kernel().
LEMMA KernelTypes ==
  ASSUME NEW f \in [Fds -> Files], NEW m \in [Addrs -> Areas],
         NEW k \in [Pasids -> SUBSET Offsets], NEW att \in SUBSET Pasids,
         Kernel(f, m, k, att)
  PROVE  /\ fds' \in [Fds -> Files]
         /\ maps' \in [Addrs -> Areas]
         /\ kirqs' \in [Pasids -> SUBSET Offsets]
         /\ kattached' \subseteq Pasids
  BY Zenon DEF Kernel

\* A handle with a device descriptor has a context.
LEMMA HasContext ==
  ASSUME IInv, NEW h \in Handles, fd[h] # -1
  PROVE  fd[h] \in Fds /\ Context(h) \in Pasids /\ fds[fd[h]] = <<"context", Context(h)>>
  BY SMTT(30), Z3T(30) DEF IInv, TypeOK, DescriptorLedger, FdsOf, Context

\* The invariant holds before the first open.
LEMMA InitIInv == Init => IInv
<1> SUFFICES ASSUME Init PROVE IInv
  BY Zenon
<1> USE NamesAssumption, BoundsAssumption
<1>1. TypeOK
  BY FilesAndAreas, SMTT(30), Z3T(30) DEF Init, TypeOK, PCs, MmioTypes, Fds
<1>2. Shapes
  BY Zenon DEF Init, Shapes, Shape, BlankIrq, IrqSteps
<1>3. \A p \in Pasids : ~Live(fds, maps, p)
  BY Zenon DEF Init, Live, Closed, Unmapped
<1>4. DescriptorLedger
  BY SMTT(30), Z3T(30) DEF Init, DescriptorLedger, FdsOf, OwnsFd, Fds
<1>5. MappingLedger
  BY Zenon DEF Init, MappingLedger, MapsOf, OwnsMap
<1>6. IrqLedger /\ OwnContext /\ DeadIsEmpty
  BY Zenon DEF Init, IrqLedger, OwnContext, DeadIsEmpty
<1>7. PerPasidIsAttached
  BY Zenon DEF Init, PerPasidIsAttached, Unmapped
<1> QED
  BY <1>1, <1>2, <1>4, <1>5, <1>6, <1>7, Zenon DEF IInv

-------------------------------------------------------------------------------
(* Who keeps a context alive.                                               *)

\* The part of the invariant that does not speak of IRQs and attachment.
Base == TypeOK /\ Shapes /\ DescriptorLedger /\ MappingLedger /\ OwnContext

\* A handle with a mapping has its context open.
LEMMA MappedHasContext ==
  ASSUME Base, NEW h \in Handles, NEW a \in Addrs, OwnsMap(h, a)
  PROVE  fd[h] # -1
<1> USE NamesAssumption, BoundsAssumption
<1> SUFFICES ASSUME fd[h] = -1 PROVE FALSE
  BY Zenon
<1>1. pc[h] \in {"none", "open", "lost"}
  BY Zenon DEF Base, Shapes, Shape
<1>2. irq_count[h] = 0 /\ pc[h] \notin IrqSteps /\ \A i \in MmioSlots : mmio_start[h][i] = NULL
  BY <1>1, Zenon DEF Base, Shapes, Shape, IrqSteps
<1>3. \A i \in IrqSlots : irq_addr[h][i] = NULL
  BY <1>2, SMTT(30), Z3T(30) DEF Base, Shapes, Shape, BlankIrq, IrqSlots
<1> QED
  BY <1>2, <1>3, Zenon DEF OwnsMap

\* The contexts that are alive are the contexts of the open handles.
LEMMA BaseHeld == Base => ContextsAreHeld
<1> SUFFICES ASSUME Base PROVE ContextsAreHeld
  BY Zenon
<1> USE NamesAssumption
<1>1. ASSUME NEW p \in Pasids, NEW d \in Fds, fds[d] = <<"context", p>>
      PROVE  \E h \in Handles : fd[h] # -1 /\ Context(h) = p
  <2>1. PICK h \in Handles : OwnsFd(h, d)
    BY <1>1, SMTT(30), Z3T(30) DEF Base, DescriptorLedger, FdsOf, Closed
  <2>2. fd[h] = d
    BY <2>1, <1>1, SMTT(30), Z3T(30) DEF Base, DescriptorLedger, FdsOf, OwnsFd, Fds
  <2> QED
    BY <2>2, <1>1, SMTT(30), Z3T(30) DEF Context, Fds
<1>2. ASSUME NEW p \in Pasids, NEW a \in Addrs, maps[a] \in {<<"per_pasid", p>>, <<"irq", p>>}
      PROVE  \E h \in Handles : fd[h] # -1 /\ Context(h) = p
  <2>1. PICK h \in Handles : OwnsMap(h, a)
    BY <1>2, SMTT(30), Z3T(30) DEF Base, MappingLedger, MapsOf, Unmapped
  <2>2. fd[h] # -1
    BY <2>1, MappedHasContext, Zenon
  <2>3. maps[a] \in {<<"global", UINT32_MAX>>, <<"per_pasid", Context(h)>>, <<"irq", Context(h)>>}
    <3>1. CASE \E i \in MmioSlots : mmio_start[h][i] = a
      <4>1. PICK i \in MmioSlots : mmio_start[h][i] = a
        BY <3>1, Zenon
      <4>2. maps[a] = AreaOf(h, mmio_type[h][i])
        BY <4>1, Zenon DEF Base, MappingLedger, MapsOf
      <4> QED
        BY <4>2, Zenon DEF AreaOf
    <3>2. CASE \E i \in IrqSlots : irq_addr[h][i] = a
      BY <3>2, ZenonT(30) DEF Base, MappingLedger, MapsOf
    <3> QED
      BY <2>1, <3>1, <3>2, ZenonT(30) DEF OwnsMap
  <2>4. Context(h) = p
    BY <2>3, <1>2, SMTT(30), Z3T(30)
  <2> QED
    BY <2>2, <2>4, Zenon
<1>3. ASSUME NEW h \in Handles, fd[h] # -1
      PROVE  Live(fds, maps, Context(h))
  <2>1. PICK p \in Pasids : fds[fd[h]] = <<"context", p>>
    BY <1>3, Zenon DEF Base, DescriptorLedger, FdsOf
  <2>2. fd[h] \in Fds
    BY <1>3, Zenon DEF Base, TypeOK
  <2> QED
    BY <2>1, <2>2, SMTT(30), Z3T(30) DEF Context, Live
<1> QED
  BY <1>1, <1>2, <1>3, Zenon DEF ContextsAreHeld, Live, Base, OwnContext

\* The invariant gives ContextsAreHeld.
LEMMA IInvHeld == IInv => ContextsAreHeld
  BY BaseHeld, Zenon DEF IInv, Base

\* Nothing that the handles record changes in a step that only moves a call on.
LEMMA OnlyTheCall ==
  ASSUME IInv, TypeOK', Shapes',
         UNCHANGED <<fd, global_mmio_fd, epoll_fd, attached, eventfd, irq_offset, irq_addr>>,
         UNCHANGED <<mmio_count, mmio_start, mmio_type, fds, maps, kirqs, kattached>>
  PROVE  IInv'
<1> USE DEF IInv
<1>1. DescriptorLedger' /\ OwnContext'
  BY SMTT(30), Z3T(30) DEF DescriptorLedger, FdsOf, OwnsFd, OwnContext, Context
<1>2. \A h \in Handles : Context(h)' = Context(h)
  BY Zenon DEF Context
<1>3. \A h \in Handles, type \in MmioTypes : AreaOf(h, type)' = AreaOf(h, type)
  BY <1>2, Zenon DEF AreaOf
<1>4. MappingLedger'
  BY <1>2, <1>3, SMTT(30), Z3T(30) DEF MappingLedger, MapsOf, OwnsMap, TypeOK
<1>5. IrqLedger' 
  BY <1>2, SMTT(30), Z3T(30) DEF IrqLedger
<1>6. DeadIsEmpty' 
  BY Zenon DEF DeadIsEmpty, Live
<1>7. PerPasidIsAttached'
  BY <1>2, Zenon DEF PerPasidIsAttached
<1> QED
  BY <1>1, <1>4, <1>5, <1>6, <1>7, Zenon

\* Handles keep the context they had.
KeepsContexts ==
  \A h \in Handles : fd'[h] # -1 => fd'[h] = fd[h] /\ fds'[fd[h]] = fds[fd[h]]

\* Under KeepsContexts an open context is the one that was open before.
LEMMA KeptContext ==
  ASSUME KeepsContexts, NEW h \in Handles, fd'[h] # -1
  PROVE  fd[h] # -1 /\ Context(h)' = Context(h)
  BY Zenon DEF KeepsContexts, Context

\* After the kernel's release a context that is not alive has nothing left.
LEMMA KernelForgets ==
  ASSUME NEW f, NEW m, NEW k, NEW att, Kernel(f, m, k, att)
  PROVE  DeadIsEmpty'
  BY Zenon DEF Kernel, DeadIsEmpty

\* The release takes nothing from a context that a handle has open.
LEMMA KernelRemembers ==
  ASSUME Base', NEW f, NEW m, NEW k, NEW att, Kernel(f, m, k, att), NEW h \in Handles, fd'[h] # -1
  PROVE  /\ Context(h)' \in Pasids
         /\ kirqs'[Context(h)'] = k[Context(h)']
         /\ Context(h)' \in kattached' <=> Context(h)' \in att
<1>1. fd'[h] \in Fds /\ \E p \in Pasids : fds'[fd'[h]] = <<"context", p>>
  BY SMTT(30), Z3T(30) DEF Base, TypeOK, DescriptorLedger, FdsOf
<1>2. Context(h)' \in Pasids
  BY <1>1, SMTT(30), Z3T(30) DEF Context
<1>3. Live(f, m, Context(h)')
  BY <1>1, SMTT(30), Z3T(30) DEF Kernel, Live, Context
<1> QED
  BY <1>2, <1>3, Zenon DEF Kernel

\* A context with a per-PASID area mapped stays attached.
LEMMA PerPasidIsLive ==
  ASSUME NEW f, NEW m, NEW k, NEW att, Kernel(f, m, k, att), NEW p \in Pasids, NEW a \in Addrs,
         maps'[a] = <<"per_pasid", p>>, p \in att
  PROVE  p \in kattached'
  BY Zenon DEF Kernel, Live

\* Steps that open or close a descriptor or a mapping and leave the contexts,
\* their IRQs and their attachment alone.
LEMMA OnlyTheLedgers ==
  ASSUME IInv, Base', KeepsContexts, NEW f, NEW m, Kernel(f, m, kirqs, kattached),
         UNCHANGED irq_offset,
         \A h \in Handles : fd'[h] # -1 => attached'[h] = attached[h],
         \A a \in Addrs, p \in Pasids :
           maps'[a] = <<"per_pasid", p>> => maps[a] = <<"per_pasid", p>> \/ p \in kattached
  PROVE  IInv'
<1>1. IrqLedger'
  BY KernelRemembers, KeptContext, SMTT(30), Z3T(30) DEF IInv, IrqLedger
<1>2. DeadIsEmpty'
  BY KernelForgets, Zenon
<1>3. PerPasidIsAttached'
  <2>1. ASSUME NEW p \in Pasids, NEW a \in Addrs, maps'[a] = <<"per_pasid", p>>
        PROVE  p \in kattached'
    BY <2>1, PerPasidIsLive, Zenon DEF IInv, PerPasidIsAttached
  <2>2. ASSUME NEW h \in Handles, fd'[h] # -1
        PROVE  attached'[h] <=> Context(h)' \in kattached'
    BY <2>2, KernelRemembers, KeptContext, SMTT(30), Z3T(30) DEF IInv, PerPasidIsAttached
  <2> QED
    BY <2>1, <2>2, Zenon DEF PerPasidIsAttached
<1> QED
  BY <1>1, <1>2, <1>3, Zenon DEF IInv, Base

\* Steps that keep the contexts keep them apart.
LEMMA SameContexts ==
  ASSUME IInv, KeepsContexts
  PROVE  OwnContext'
  BY KeptContext, Zenon DEF IInv, OwnContext

\* Steps that touch no descriptor keep the ledger of descriptors.
LEMMA SameDescriptors ==
  ASSUME IInv, UNCHANGED <<fd, global_mmio_fd, epoll_fd, eventfd, fds>>
  PROVE  DescriptorLedger' /\ KeepsContexts
  BY SMTT(30), Z3T(30) DEF IInv, DescriptorLedger, FdsOf, OwnsFd, KeepsContexts

\* Steps that touch no mapping keep the ledger of mappings.
LEMMA SameMappings ==
  ASSUME IInv, UNCHANGED <<mmio_start, maps>>,
         \A h \in Handles, i \in IrqSlots, a \in Addrs : irq_addr'[h][i] = a <=> irq_addr[h][i] = a,
         \A h \in Handles, a \in Addrs : OwnsMap(h, a) =>
           Context(h)' = Context(h) /\ mmio_count'[h] = mmio_count[h] /\ mmio_type'[h] = mmio_type[h]
  PROVE  MappingLedger'
<1> USE NamesAssumption
<1>1. \A h \in Handles, a \in Addrs : OwnsMap(h, a)' <=> OwnsMap(h, a)
  BY SMTT(30), Z3T(30) DEF OwnsMap
<1>2. ASSUME NEW h \in Handles, NEW i \in MmioSlots, mmio_start'[h][i] # NULL
      PROVE  i < mmio_count'[h] /\ maps'[mmio_start'[h][i]] = AreaOf(h, mmio_type[h][i])'
  <2>1. OwnsMap(h, mmio_start[h][i]) /\ mmio_start[h][i] \in Addrs
    BY <1>2, MmioType, SMTT(30), Z3T(30) DEF OwnsMap
  <2> QED
    BY <2>1, <1>2, SMTT(30), Z3T(30) DEF IInv, MappingLedger, MapsOf, AreaOf
<1>3. ASSUME NEW h \in Handles, NEW i \in IrqSlots, irq_addr'[h][i] \in Addrs
      PROVE  maps'[irq_addr'[h][i]] = <<"irq", Context(h)'>>
  <2>1. OwnsMap(h, irq_addr[h][i]) /\ irq_addr'[h][i] = irq_addr[h][i]
    BY <1>3, Zenon DEF OwnsMap
  <2> QED
    BY <2>1, <1>3, SMTT(30), Z3T(30) DEF IInv, MappingLedger, MapsOf
<1>4. ASSUME NEW h \in Handles, NEW i \in IrqSlots, irq_addr'[h][i] \in Addrs,
             NEW j \in IrqSlots, i # j
      PROVE  irq_addr'[h][i] # irq_addr'[h][j]
  BY <1>4, SMTT(30), Z3T(30) DEF IInv, MappingLedger, MapsOf
<1>5. ASSUME NEW h \in Handles, NEW i \in MmioSlots, mmio_start'[h][i] # NULL,
             NEW j \in MmioSlots, i # j
      PROVE  mmio_start'[h][i] # mmio_start'[h][j]
  BY <1>5, ZenonT(60) DEF IInv, MappingLedger, MapsOf
<1>6. \A a \in Addrs : maps'[a] # Unmapped => \E h \in Handles : OwnsMap(h, a)'
  BY <1>1, Zenon DEF IInv, MappingLedger, MapsOf
<1>7. \A g, h \in Handles, a \in Addrs : OwnsMap(g, a)' /\ OwnsMap(h, a)' => g = h
  BY <1>1, Zenon DEF IInv, MappingLedger, MapsOf
<1>8. ASSUME NEW h \in Handles PROVE MapsOf(h)'
  BY <1>2, <1>3, <1>4, <1>5, SMTT(30), Z3T(30) DEF MapsOf
<1> QED
  BY <1>6, <1>7, <1>8, Zenon DEF MappingLedger

-------------------------------------------------------------------------------
(* Steps that touch no descriptor and no mapping.                           *)

\* The steps that change no table of the kernel preserve the invariant.
LEMMA CallSteps ==
  ASSUME IInv, NEW h \in Handles,
         \/ GetAfuByPath(h) \/ NoSysfsPath(h) \/ OpenDeviceFails(h) \/ EpollCtl(h)
         \/ OpenStepFails(h) \/ GrowEventBuffer(h) \/ IrqIoctlSetFd(h) \/ Close(h)
  PROVE  IInv'
<1> USE BoundsAssumption
<1>1. UNCHANGED <<fd, global_mmio_fd, epoll_fd, attached, pasid, irq_count, irq_max_count,
                  eventfd, irq_offset, irq_addr, mmio_count, mmio_max_count, mmio_start,
                  mmio_type, fds, maps, kirqs, kattached>>
  BY Zenon DEF GetAfuByPath, NoSysfsPath, OpenDeviceFails, EpollCtl, OpenStepFails, GrowEventBuffer,
         IrqIoctlSetFd, Close, structVars, irqVars, mmioVars, kernelVars
<1>2. heap' \subseteq Handles \X Blocks
  BY SMTT(30), Z3T(30) DEF GetAfuByPath, NoSysfsPath, OpenDeviceFails, EpollCtl, OpenStepFails, GrowEventBuffer,
         IrqIoctlSetFd, Close, IInv, TypeOK, Blocks, Orphans, vars
<1>3. \E q \in PCs :
        /\ pc' = [pc EXCEPT ![h] = q]
        /\ pc[h] = q \/ <<pc[h], q>> \in {<<"none", "open">>, <<"open", "lost">>, <<"epoll_ctl", "get_metadata">>,
             <<"irq_set_fd", "irq_mmap">>, <<"ready", "close_mmios">>} \cup (Opening \X {"close_mmios"})
  BY ZenonT(30) DEF GetAfuByPath, NoSysfsPath, OpenDeviceFails, EpollCtl, OpenStepFails, GrowEventBuffer,
         IrqIoctlSetFd, Close, Goto, PCs, Opening, IrqSteps, Closing, IInv, TypeOK
<1>4. PICK q \in PCs :
        /\ pc' = [pc EXCEPT ![h] = q]
        /\ pc[h] = q \/ <<pc[h], q>> \in {<<"none", "open">>, <<"open", "lost">>, <<"epoll_ctl", "get_metadata">>,
             <<"irq_set_fd", "irq_mmap">>, <<"ready", "close_mmios">>} \cup (Opening \X {"close_mmios"})
  BY <1>3, Zenon
<1>5. TypeOK'
  BY <1>1, <1>2, <1>4, Zenon DEF IInv, TypeOK
<1>6. Shapes'
  <2>1. Shape(h)
    BY Zenon DEF IInv, Shapes
  <2>2. \A g \in Handles : g # h => Same(g)
    BY <1>1, <1>4, CallType, Zenon DEF Same
  <2>3. Shape(h)'
    BY <1>1, <1>4, <2>1, SMTT(30), Z3T(30) DEF Shape, BlankIrq, Opening, IrqSteps
  <2> QED
    BY <2>2, <2>3, OtherShapes, Zenon
<1> QED
  BY <1>1, <1>5, <1>6, OnlyTheCall, Zenon

\* The end of get_afu_by_path(), where the handle is ready, preserves the invariant.
LEMMA GetMetadataStep ==
  ASSUME IInv, NEW h \in Handles, GetMetadata(h)
  PROVE  IInv'
<1>0. /\ pc[h] = "get_metadata" /\ pc' = [pc EXCEPT ![h] = "ready"]
      /\ pasid' = [pasid EXCEPT ![h] = Context(h)]
      /\ UNCHANGED <<fd, global_mmio_fd, epoll_fd, attached, irq_count, irq_max_count, eventfd,
                     irq_offset, irq_addr, mmio_count, mmio_max_count, mmio_start, mmio_type,
                     heap, fds, maps, kirqs, kattached>>
  BY Zenon DEF GetMetadata, Goto, irqVars, mmioVars, kernelVars
<1>1. Context(h) \in Pasids
  BY <1>0, HasContext, Zenon DEF IInv, Shapes, Shape
<1>2. TypeOK'
  BY <1>0, <1>1, Labels, Zenon DEF IInv, TypeOK
<1>3. Shapes'
  <2>1. Shape(h)
    BY ZenonT(30) DEF IInv, Shapes
  <2>2. \A g \in Handles : g # h => Same(g)
    BY <1>0, SMTT(30), Z3T(30) DEF Same
  <2>3. Shape(h)'
    BY <1>0, <2>1, CallType, Zenon DEF Shape, BlankIrq, IrqSteps
  <2> QED
    BY <2>2, <2>3, OtherShapes, Zenon
<1> QED
  BY <1>0, <1>2, <1>3, OnlyTheCall, Zenon

\* The end of ocxl_irq_alloc(), where irq_count grows, preserves the invariant.
LEMMA IrqEpollCtlStep ==
  ASSUME IInv, NEW h \in Handles, IrqEpollCtl(h)
  PROVE  IInv'
<1> USE BoundsAssumption
<1>0. /\ pc[h] = "irq_epoll" /\ pc' = [pc EXCEPT ![h] = "ready"]
      /\ irq_count' = [irq_count EXCEPT ![h] = @ + 1]
      /\ UNCHANGED <<fd, global_mmio_fd, epoll_fd, attached, pasid, irq_max_count, eventfd,
                     irq_offset, irq_addr, mmio_count, mmio_max_count, mmio_start, mmio_type,
                     heap, fds, maps, kirqs, kattached>>
  BY Zenon DEF IrqEpollCtl, Goto, structVars, mmioVars, kernelVars
<1>1. Shape(h) /\ irq_count[h] \in 0 .. MaxIrqs - 1
  <2>1. Shape(h)
    BY Zenon DEF IInv, Shapes
  <2> QED
    BY <1>0, <2>1, IrqType, SMTT(30), Z3T(30) DEF Shape, IrqSteps
<1>2. TypeOK'
  <2>1. pc' \in [Handles -> PCs] /\ irq_count' \in [Handles -> 0 .. MaxIrqs]
    BY <1>0, <1>1, CallType, IrqType, Labels, SMTT(30), Z3T(30)
  <2> QED
    BY <1>0, <2>1, Zenon DEF IInv, TypeOK
<1>3. Shapes'
  <2>1. \A g \in Handles : g # h => Same(g)
    BY <1>0, SMTT(30), Z3T(30) DEF Same
  <2>2. irq_count'[h] = irq_count[h] + 1 /\ pc'[h] = "ready"
    BY <1>0, CallType, IrqType, Zenon
  <2>3. ASSUME NEW i \in IrqSlots, i >= irq_count'[h] PROVE BlankIrq(h, i)
    <3>1. i >= irq_count[h] /\ i # irq_count[h]
      BY <1>1, <2>2, <2>3, SMTT(30), Z3T(30) DEF IrqSlots
    <3> QED
      BY <1>1, <3>1, Zenon DEF Shape
  <2>4. \A i \in IrqSlots : BlankIrq(h, i)' <=> BlankIrq(h, i)
    BY <1>0, Zenon DEF BlankIrq
  <2>5. Shape(h)'
    BY <1>0, <1>1, <2>2, <2>3, <2>4, Zenon DEF Shape, IrqSteps
  <2> QED
    BY <2>1, <2>5, OtherShapes, Zenon
<1> QED
  BY <1>0, <1>2, <1>3, OnlyTheCall, Zenon

\* A failed mmap() leaves MAP_FAILED, which is not an address.
LEMMA IrqStepFailsStep ==
  ASSUME IInv, NEW h \in Handles, IrqStepFails(h)
  PROVE  IInv'
<1> USE BoundsAssumption, NamesAssumption
<1>0. /\ pc[h] \in IrqSteps \ {"irq_dealloc"} /\ pc' = [pc EXCEPT ![h] = "irq_dealloc"]
      /\ irq_addr' = [irq_addr EXCEPT ![h][irq_count[h]] = IF pc[h] = "irq_mmap" THEN MAP_FAILED ELSE @]
      /\ UNCHANGED <<fd, global_mmio_fd, epoll_fd, attached, pasid, irq_count, irq_max_count,
                     eventfd, irq_offset, mmio_count, mmio_max_count, mmio_start, mmio_type,
                     heap, fds, maps, kirqs, kattached>>
  BY Zenon DEF IrqStepFails, Goto, structVars, mmioVars, kernelVars
<1>1. irq_count[h] \in IrqSlots
  BY <1>0, SMTT(30), Z3T(30) DEF IInv, Shapes, Shape, TypeOK, IrqSlots
<1>2. TypeOK'
  BY <1>0, <1>1, Labels, SMTT(30), Z3T(30) DEF IInv, TypeOK
<1>3. Shapes'
  <2>1. Shape(h)
    BY Zenon DEF IInv, Shapes
  <2>2. \A g \in Handles : g # h => Same(g)
    BY <1>0, <1>1, CallType, FdType, IrqType, Zenon DEF Same
  <2>3. Shape(h)'
    BY <1>0, <1>1, <2>1, CallType, SMTT(30), Z3T(30) DEF Shape, BlankIrq, IrqSteps
  <2> QED
    BY <2>2, <2>3, OtherShapes, Zenon
<1>4. DescriptorLedger' /\ KeepsContexts
  BY <1>0, SameDescriptors, Zenon DEF IInv
<1>5. \A g \in Handles, i \in IrqSlots, a \in Addrs : irq_addr'[g][i] = a <=> irq_addr[g][i] = a
  BY <1>0, <1>1, SMTT(30), Z3T(30) DEF IInv, Shapes, Shape, TypeOK, IrqSteps
<1>6. \A g \in Handles : Context(g)' = Context(g) /\ \A type \in MmioTypes : AreaOf(g, type)' = AreaOf(g, type)
  BY <1>0, Zenon DEF Context, AreaOf
<1>7. MappingLedger'
  BY <1>0, <1>5, <1>6, SameMappings, Zenon
<1>8. IrqLedger' /\ OwnContext' /\ PerPasidIsAttached'
  BY <1>0, <1>6, SMTT(30), Z3T(30) DEF IInv, IrqLedger, OwnContext, PerPasidIsAttached
<1>9. DeadIsEmpty'
  BY <1>0, Zenon DEF IInv, DeadIsEmpty, Live
<1> QED
  BY <1>2, <1>3, <1>4, <1>7, <1>8, <1>9, Zenon DEF IInv

\* The slot after the last is blank already: irq_dealloc() left it so, or no
\* IRQ was ever in it.
LEMMA IrqAllocStep ==
  ASSUME IInv, NEW h \in Handles, IrqAlloc(h)
  PROVE  IInv'
<1> USE BoundsAssumption, NamesAssumption
<1>0. /\ pc[h] = "ready" /\ irq_count[h] < MaxIrqs /\ pc' = [pc EXCEPT ![h] = "eventfd"]
      /\ irq_offset' = [irq_offset EXCEPT ![h][irq_count[h]] = 0]
      /\ eventfd' = [eventfd EXCEPT ![h][irq_count[h]] = -1]
      /\ irq_addr' = [irq_addr EXCEPT ![h][irq_count[h]] = NULL]
      /\ UNCHANGED <<fd, global_mmio_fd, epoll_fd, attached, pasid, irq_count, mmio_count,
                     mmio_max_count, mmio_start, mmio_type, fds, maps, kirqs, kattached>>
  BY Zenon DEF IrqAlloc, Goto, structVars, mmioVars, kernelVars
<1>1. irq_count[h] \in IrqSlots
  BY <1>0, IrqType, SMTT(30), Z3T(30) DEF IrqSlots
<1>2. Shape(h) /\ BlankIrq(h, irq_count[h])
  <2>1. Shape(h) /\ irq_count[h] >= irq_count[h]
    BY <1>1, SMTT(30), Z3T(30) DEF IInv, Shapes, IrqSlots
  <2> QED
    BY <1>0, <1>1, <2>1, Zenon DEF Shape, IrqSteps
<1>3. UNCHANGED <<eventfd, irq_offset, irq_addr>>
  BY <1>0, <1>1, <1>2, IrqType, SMTT(30), Z3T(30) DEF BlankIrq
<1>4. irq_max_count' \in [Handles -> Nat]
  <2>1. irq_max_count \in [Handles -> Nat]
    BY Zenon DEF IInv, TypeOK
  <2>2. ToUint16(new_count(irq_max_count[h], INITIAL_IRQ_COUNT)) \in Nat
    BY <2>1, GrownIsNat, Zenon
  <2> QED
    BY <2>1, <2>2, Zenon DEF IrqAlloc
<1>5. heap' \subseteq Handles \X Blocks
  BY SMTT(30), Z3T(30) DEF IInv, TypeOK, Blocks, IrqAlloc
<1>6. TypeOK'
  <2>1. pc' \in [Handles -> PCs]
    BY <1>0, CallType, Labels, Zenon
  <2> QED
    BY <1>0, <1>3, <1>4, <1>5, <2>1, Zenon DEF IInv, TypeOK
<1>7. Shapes'
  <2>1. \A g \in Handles : g # h => Same(g)
    BY <1>0, <1>3, SMTT(30), Z3T(30) DEF Same
  <2>2. Shape(h)'
    BY <1>0, <1>2, <1>3, CallType, Zenon DEF Shape, BlankIrq, IrqSteps
  <2> QED
    BY <2>1, <2>2, OtherShapes, Zenon
<1> QED
  BY <1>0, <1>3, <1>6, <1>7, OnlyTheCall, Zenon

-------------------------------------------------------------------------------
(* Steps that open a descriptor.                                            *)

\* No handle records a descriptor that is closed.
LEMMA ClosedUnowned ==
  ASSUME IInv, NEW d \in Fds, fds[d] = Closed, NEW g \in Handles
  PROVE  ~OwnsFd(g, d)
<1>1. d # -1
  BY SMTT(30), Z3T(30) DEF Fds
<1>2. FdsOf(g)
  BY Zenon DEF IInv, DescriptorLedger
<1> QED
  BY <1>1, <1>2, SMTT(30), Z3T(30) DEF OwnsFd, FdsOf, Closed

\* A free descriptor that one member of one handle comes to record.
LEMMA NewDescriptor ==
  ASSUME IInv, NEW h \in Handles, NEW d \in Fds, fds[d] = Closed, NEW file \in Files,
         fds' = [fds EXCEPT ![d] = file],
         \A g \in Handles, e \in Fds : OwnsFd(g, e)' <=> OwnsFd(g, e) \/ (g = h /\ e = d),
         \A g \in Handles : FdsOf(g)'
  PROVE  DescriptorLedger'
<1>1. \A e \in Fds : fds'[e] # Closed => \E g \in Handles : OwnsFd(g, e)'
  BY Zenon DEF IInv, DescriptorLedger, TypeOK
<1>2. \A f, g \in Handles, e \in Fds : OwnsFd(f, e)' /\ OwnsFd(g, e)' => f = g
  BY ClosedUnowned, Zenon DEF IInv, DescriptorLedger
<1> QED
  BY <1>1, <1>2, Zenon DEF DescriptorLedger

\* Opening a closed descriptor keeps the contexts of all handles.
LEMMA KeepsOpenContexts ==
  ASSUME IInv, NEW d \in Fds, fds[d] = Closed, NEW file, fds' = [fds EXCEPT ![d] = file], UNCHANGED fd
  PROVE  KeepsContexts
  BY HasContext, SMTT(30), Z3T(30) DEF KeepsContexts, IInv, TypeOK, Closed

\* Mappings are not concerned when only descriptors and calls change.
LEMMA MappingsAside ==
  ASSUME IInv, KeepsContexts, UNCHANGED <<fd, mmio_count, mmio_max_count, mmio_start,
                                          mmio_type, irq_addr, maps>>
  PROVE  MappingLedger' /\ OwnContext'
<1>1. \A h \in Handles, a \in Addrs : OwnsMap(h, a) => Context(h)' = Context(h)
  BY MappedHasContext, KeptContext, Zenon DEF IInv, Base
<1>2. MappingLedger'
  BY <1>1, SameMappings, Zenon
<1> QED
  BY <1>2, SameContexts, Zenon

\* Opening the global MMIO file preserves the invariant.
LEMMA GlobalMmioOpenStep ==
  ASSUME IInv, NEW h \in Handles, GlobalMmioOpen(h)
  PROVE  IInv'
<1>0. /\ pc[h] = "global_mmio_open" /\ pc' = [pc EXCEPT ![h] = "epoll_create"]
      /\ UNCHANGED <<fd, epoll_fd, attached, pasid, irq_count, irq_max_count, eventfd,
                     irq_offset, irq_addr, mmio_count, mmio_max_count, mmio_start, mmio_type,
                     heap>>
  BY Zenon DEF GlobalMmioOpen, Goto, irqVars, mmioVars, structVars
<1>1. PICK d \in Fds :
        /\ LowestFree(d)
        /\ global_mmio_fd' = [global_mmio_fd EXCEPT ![h] = d]
        /\ Kernel([fds EXCEPT ![d] = <<"global_mmio", UINT32_MAX>>], maps, kirqs, kattached)
  BY Zenon DEF GlobalMmioOpen
<1>2. /\ fds[d] = Closed /\ maps' = maps
      /\ fds' = [fds EXCEPT ![d] = <<"global_mmio", UINT32_MAX>>]
      /\ <<"global_mmio", UINT32_MAX>> \in Files
  BY <1>1, FilesAndAreas, Zenon DEF LowestFree, Kernel
<1>3. global_mmio_fd[h] = -1
  <2>1. Shape(h)
    BY Zenon DEF IInv, Shapes
  <2> QED
    BY <1>0, <2>1, Zenon DEF Shape
<1>4. TypeOK'
  <2>1. [fds EXCEPT ![d] = <<"global_mmio", UINT32_MAX>>] \in [Fds -> Files]
    BY <1>2, TablesType, Zenon
  <2>2. kirqs' \in [Pasids -> SUBSET Offsets] /\ kattached' \subseteq Pasids
    BY <1>1, <2>1, TablesType, KernelTypes, Zenon
  <2> QED
    BY <1>0, <1>1, <1>2, <2>1, <2>2, Labels, Zenon DEF IInv, TypeOK
<1>5. Shapes'
  <2>1. Shape(h)
    BY Zenon DEF IInv, Shapes
  <2>2. \A g \in Handles : g # h => Same(g)
    BY <1>0, <1>1, CallType, FdType, Zenon DEF Same
  <2>3. Shape(h)'
    BY <1>0, <1>1, <2>1, CallType, Zenon DEF Shape, BlankIrq, IrqSteps
  <2> QED
    BY <2>2, <2>3, OtherShapes, Zenon
<1>6. KeepsContexts
  BY <1>0, <1>2, KeepsOpenContexts, Zenon
<1>7. DescriptorLedger'
  <2>1. \A g \in Handles, e \in Fds : OwnsFd(g, e)' <=> OwnsFd(g, e) \/ (g = h /\ e = d)
    BY <1>0, <1>1, <1>3, FdType, SMTT(30), Z3T(30) DEF OwnsFd, Fds
  <2>2. ASSUME NEW g \in Handles PROVE FdsOf(g)'
    <3>1. FdsOf(g) /\ ~OwnsFd(g, d)
      BY <1>2, ClosedUnowned, Zenon DEF IInv, DescriptorLedger
    <3>2. fds'[d] = <<"global_mmio", UINT32_MAX>> /\ \A e \in Fds : e # d => fds'[e] = fds[e]
      BY <1>2, TablesType, Zenon
    <3>3. \A e \in Fds : OwnsFd(g, e) => fds'[e] = fds[e]
      BY <3>1, <3>2, Zenon
    <3>4. /\ fd'[g] # -1 => \E p \in Pasids : fds'[fd'[g]] = <<"context", p>>
          /\ global_mmio_fd'[g] # -1 => fds'[global_mmio_fd'[g]] = <<"global_mmio", UINT32_MAX>>
          /\ epoll_fd'[g] # -1 => fds'[epoll_fd'[g]] = <<"epoll", UINT32_MAX>>
      BY <1>0, <1>1, <3>1, <3>2, <3>3, FdType, Zenon DEF FdsOf, OwnsFd
    <3>5. ASSUME NEW i \in IrqSlots, eventfd'[g][i] # -1
          PROVE  fds'[eventfd'[g][i]] = <<"eventfd", UINT32_MAX>>
      <4>1. eventfd'[g][i] = eventfd[g][i] /\ eventfd[g][i] \in Fds
        BY <1>0, <1>1, <3>5, IrqType, Zenon
      <4> QED
        BY <3>1, <3>3, <3>5, <4>1, Zenon DEF FdsOf, OwnsFd
    <3>6. \A i, j \in IrqSlots : i # j /\ eventfd'[g][i] # -1 => eventfd'[g][i] # eventfd'[g][j]
      BY <1>0, <1>1, <3>1, IrqType, Zenon DEF FdsOf, OwnsFd
    <3> QED
      BY <3>4, <3>5, <3>6, Zenon DEF FdsOf
  <2> QED
    BY <1>2, <2>1, <2>2, NewDescriptor, ZenonT(30)
<1>8. MappingLedger' /\ OwnContext'
  BY <1>0, <1>2, <1>6, MappingsAside, Zenon
<1> QED
  BY <1>0, <1>1, <1>2, <1>4, <1>5, <1>6, <1>7, <1>8, OnlyTheLedgers, Zenon DEF Base

\* epoll_create1() preserves the invariant.
LEMMA EpollCreateStep ==
  ASSUME IInv, NEW h \in Handles, EpollCreate(h)
  PROVE  IInv'
<1>0. /\ pc[h] = "epoll_create" /\ pc' = [pc EXCEPT ![h] = "epoll_ctl"]
      /\ UNCHANGED <<fd, global_mmio_fd, attached, pasid, irq_count, irq_max_count, eventfd,
                     irq_offset, irq_addr, mmio_count, mmio_max_count, mmio_start, mmio_type,
                     heap>>
  BY Zenon DEF EpollCreate, Goto, irqVars, mmioVars, structVars
<1>1. PICK d \in Fds :
        /\ LowestFree(d)
        /\ epoll_fd' = [epoll_fd EXCEPT ![h] = d]
        /\ Kernel([fds EXCEPT ![d] = <<"epoll", UINT32_MAX>>], maps, kirqs, kattached)
  BY Zenon DEF EpollCreate
<1>2. /\ fds[d] = Closed /\ maps' = maps
      /\ fds' = [fds EXCEPT ![d] = <<"epoll", UINT32_MAX>>]
      /\ <<"epoll", UINT32_MAX>> \in Files
  BY <1>1, FilesAndAreas, Zenon DEF LowestFree, Kernel
<1>3. epoll_fd[h] = -1
  <2>1. Shape(h)
    BY Zenon DEF IInv, Shapes
  <2> QED
    BY <1>0, <2>1, Zenon DEF Shape
<1>4. TypeOK'
  <2>1. [fds EXCEPT ![d] = <<"epoll", UINT32_MAX>>] \in [Fds -> Files]
    BY <1>2, TablesType, Zenon
  <2>2. kirqs' \in [Pasids -> SUBSET Offsets] /\ kattached' \subseteq Pasids
    BY <1>1, <2>1, TablesType, KernelTypes, Zenon
  <2> QED
    BY <1>0, <1>1, <1>2, <2>1, <2>2, Labels, Zenon DEF IInv, TypeOK
<1>5. Shapes'
  <2>1. Shape(h)
    BY Zenon DEF IInv, Shapes
  <2>2. \A g \in Handles : g # h => Same(g)
    BY <1>0, <1>1, CallType, FdType, Zenon DEF Same
  <2>3. Shape(h)'
    BY <1>0, <1>1, <2>1, CallType, Zenon DEF Shape, BlankIrq, IrqSteps
  <2> QED
    BY <2>2, <2>3, OtherShapes, Zenon
<1>6. KeepsContexts
  BY <1>0, <1>2, KeepsOpenContexts, Zenon
<1>7. DescriptorLedger'
  <2>1. \A g \in Handles, e \in Fds : OwnsFd(g, e)' <=> OwnsFd(g, e) \/ (g = h /\ e = d)
    BY <1>0, <1>1, <1>3, FdType, SMTT(30), Z3T(30) DEF OwnsFd, Fds
  <2>2. ASSUME NEW g \in Handles PROVE FdsOf(g)'
    <3>1. FdsOf(g) /\ ~OwnsFd(g, d)
      BY <1>2, ClosedUnowned, Zenon DEF IInv, DescriptorLedger
    <3>2. fds'[d] = <<"epoll", UINT32_MAX>> /\ \A e \in Fds : e # d => fds'[e] = fds[e]
      BY <1>2, TablesType, Zenon
    <3>3. \A e \in Fds : OwnsFd(g, e) => fds'[e] = fds[e]
      BY <3>1, <3>2, Zenon
    <3>4. /\ fd'[g] # -1 => \E p \in Pasids : fds'[fd'[g]] = <<"context", p>>
          /\ global_mmio_fd'[g] # -1 => fds'[global_mmio_fd'[g]] = <<"global_mmio", UINT32_MAX>>
          /\ epoll_fd'[g] # -1 => fds'[epoll_fd'[g]] = <<"epoll", UINT32_MAX>>
      BY <1>0, <1>1, <3>1, <3>2, <3>3, FdType, Zenon DEF FdsOf, OwnsFd
    <3>5. ASSUME NEW i \in IrqSlots, eventfd'[g][i] # -1
          PROVE  fds'[eventfd'[g][i]] = <<"eventfd", UINT32_MAX>>
      <4>1. eventfd'[g][i] = eventfd[g][i] /\ eventfd[g][i] \in Fds
        BY <1>0, <1>1, <3>5, IrqType, Zenon
      <4> QED
        BY <3>1, <3>3, <3>5, <4>1, Zenon DEF FdsOf, OwnsFd
    <3>6. \A i, j \in IrqSlots : i # j /\ eventfd'[g][i] # -1 => eventfd'[g][i] # eventfd'[g][j]
      BY <1>0, <1>1, <3>1, IrqType, Zenon DEF FdsOf, OwnsFd
    <3> QED
      BY <3>4, <3>5, <3>6, Zenon DEF FdsOf
  <2> QED
    BY <1>2, <2>1, <2>2, NewDescriptor, Zenon
<1>8. MappingLedger' /\ OwnContext'
  BY <1>0, <1>2, <1>6, MappingsAside, Zenon
<1> QED
  BY <1>0, <1>1, <1>2, <1>4, <1>5, <1>6, <1>7, <1>8, OnlyTheLedgers, Zenon DEF Base

\* eventfd() in irq_allocate() preserves the invariant.
LEMMA IrqEventfdStep ==
  ASSUME IInv, NEW h \in Handles, IrqEventfd(h)
  PROVE  IInv'
<1>0. /\ pc[h] = "eventfd" /\ pc' = [pc EXCEPT ![h] = "irq_alloc"]
      /\ UNCHANGED <<fd, global_mmio_fd, epoll_fd, attached, pasid, irq_count, irq_max_count,
                     irq_offset, irq_addr, mmio_count, mmio_max_count, mmio_start, mmio_type,
                     heap>>
  BY Zenon DEF IrqEventfd, Goto, irqVars, mmioVars, structVars
<1>1. PICK d \in Fds :
        /\ LowestFree(d)
        /\ eventfd' = [eventfd EXCEPT ![h][irq_count[h]] = d]
        /\ Kernel([fds EXCEPT ![d] = <<"eventfd", UINT32_MAX>>], maps, kirqs, kattached)
  BY Zenon DEF IrqEventfd
<1>2. /\ fds[d] = Closed /\ maps' = maps
      /\ fds' = [fds EXCEPT ![d] = <<"eventfd", UINT32_MAX>>]
      /\ <<"eventfd", UINT32_MAX>> \in Files
  BY <1>1, FilesAndAreas, ZenonT(30) DEF LowestFree, Kernel
<1>3. irq_count[h] \in IrqSlots /\ eventfd[h][irq_count[h]] = -1
  BY <1>0, BoundsAssumption, IrqType, SMTT(30), Z3T(30) DEF IInv, Shapes, Shape, BlankIrq, IrqSlots, IrqSteps
<1>4. TypeOK'
  <2>1. [fds EXCEPT ![d] = <<"eventfd", UINT32_MAX>>] \in [Fds -> Files]
    BY <1>2, TablesType, Zenon
  <2>2. kirqs' \in [Pasids -> SUBSET Offsets] /\ kattached' \subseteq Pasids
    BY <1>1, <2>1, TablesType, KernelTypes, Zenon
  <2> QED
    BY <1>0, <1>1, <1>2, <1>3, <2>1, <2>2, Labels, Zenon DEF IInv, TypeOK
<1>5. Shapes'
  <2>1. Shape(h)
    BY Zenon DEF IInv, Shapes
  <2>2. \A g \in Handles : g # h => Same(g)
    BY <1>0, <1>1, <1>3, CallType, IrqType, MmioType, ZenonT(30) DEF Same
  <2>3. Shape(h)'
    BY <1>0, <1>1, <1>3, <2>1, CallType, SMTT(30), Z3T(30) DEF Shape, BlankIrq, IrqSteps
  <2> QED
    BY <2>2, <2>3, OtherShapes, Zenon
<1>6. KeepsContexts
  BY <1>0, <1>2, KeepsOpenContexts, Zenon
<1>7. DescriptorLedger'
  <2>1. \A g \in Handles, e \in Fds : OwnsFd(g, e)' <=> OwnsFd(g, e) \/ (g = h /\ e = d)
    BY <1>0, <1>1, <1>3, IrqType, SMTT(30), Z3T(30) DEF OwnsFd, Fds
  <2>2. ASSUME NEW g \in Handles PROVE FdsOf(g)'
    <3>1. FdsOf(g) /\ ~OwnsFd(g, d)
      BY <1>2, ClosedUnowned, Zenon DEF IInv, DescriptorLedger
    <3>2. fds'[d] = <<"eventfd", UINT32_MAX>> /\ \A e \in Fds : e # d => fds'[e] = fds[e]
      BY <1>2, TablesType, Zenon
    <3>3. \A e \in Fds : OwnsFd(g, e) => fds'[e] = fds[e]
      BY <3>1, <3>2, Zenon
    <3>4. /\ fd'[g] # -1 => \E p \in Pasids : fds'[fd'[g]] = <<"context", p>>
          /\ global_mmio_fd'[g] # -1 => fds'[global_mmio_fd'[g]] = <<"global_mmio", UINT32_MAX>>
          /\ epoll_fd'[g] # -1 => fds'[epoll_fd'[g]] = <<"epoll", UINT32_MAX>>
      BY <1>0, <1>1, <1>3, <3>1, <3>2, <3>3, FdType, Zenon DEF FdsOf, OwnsFd
    <3>5. ASSUME NEW i \in IrqSlots, eventfd'[g][i] # -1
          PROVE  fds'[eventfd'[g][i]] = <<"eventfd", UINT32_MAX>>
      <4>1. CASE eventfd'[g][i] = d
        BY <3>2, <4>1, Zenon
      <4>2. CASE eventfd'[g][i] # d
        <5>0. eventfd'[g][i] = eventfd[g][i]
          BY <1>0, <1>1, <1>3, <4>2, IrqType, Zenon
        <5>1. eventfd'[g][i] = eventfd[g][i] /\ eventfd[g][i] \in Fds
          BY <3>5, <5>0, IrqType, Zenon
        <5> QED
          BY <3>1, <3>3, <3>5, <5>1, Zenon DEF FdsOf, OwnsFd
      <4> QED
        BY <4>1, <4>2, Zenon
    <3>6. \A i, j \in IrqSlots : i # j /\ eventfd'[g][i] # -1 => eventfd'[g][i] # eventfd'[g][j]
      <4>1. \A i \in IrqSlots : eventfd'[g][i] = eventfd[g][i] \/ (i = irq_count[h] /\ eventfd'[g][i] = d)
        BY <1>0, <1>1, <1>3, IrqType, Zenon
      <4>2. \A i \in IrqSlots : eventfd[g][i] # d
        BY <3>1, Zenon DEF OwnsFd
      <4> QED
        BY <3>1, <4>1, <4>2, Zenon DEF FdsOf
    <3> QED
      BY <3>4, <3>5, <3>6, Zenon DEF FdsOf
  <2> QED
    BY <1>2, <2>1, <2>2, NewDescriptor, Zenon
<1>8. MappingLedger' /\ OwnContext'
  BY <1>0, <1>2, <1>6, MappingsAside, Zenon
<1> QED
  BY <1>0, <1>1, <1>2, <1>4, <1>5, <1>6, <1>7, <1>8, OnlyTheLedgers, Zenon DEF Base

-------------------------------------------------------------------------------
(* The steps that take something, and giving one mapping back.              *)

\* open() gives the handle a context that was dead: no IRQs, not attached.
LEMMA OpenDeviceStep ==
  ASSUME IInv, NEW h \in Handles, OpenDevice(h)
  PROVE  IInv'
<1>0. /\ pc[h] = "open" /\ pc' = [pc EXCEPT ![h] = "global_mmio_open"]
      /\ UNCHANGED <<global_mmio_fd, epoll_fd, attached, pasid, irq_count, irq_max_count,
                     eventfd, irq_offset, irq_addr, mmio_count, mmio_max_count, mmio_start,
                     mmio_type, heap>>
  BY Zenon DEF OpenDevice, Goto, irqVars, mmioVars
<1>1. PICK d \in Fds, p \in Pasids :
        /\ LowestFree(d)
        /\ ~Live(fds, maps, p)
        /\ fd' = [fd EXCEPT ![h] = d]
        /\ Kernel([fds EXCEPT ![d] = <<"context", p>>], maps, kirqs, kattached)
  BY Zenon DEF OpenDevice
<1>2. /\ fds[d] = Closed /\ maps' = maps
      /\ fds' = [fds EXCEPT ![d] = <<"context", p>>]
      /\ <<"context", p>> \in Files
  BY <1>1, FilesAndAreas, Zenon DEF LowestFree, Kernel
<1>3. fd[h] = -1 /\ ~attached[h] /\ \A i \in IrqSlots : irq_offset[h][i] = 0
  <2>1. Shape(h) /\ pc[h] \notin IrqSteps
    BY <1>0, Zenon DEF IInv, Shapes, IrqSteps
  <2>2. fd[h] = -1 /\ irq_count[h] = 0 /\ (attached[h] => fd[h] # -1)
    BY <1>0, <2>1, Zenon DEF Shape
  <2>3. \A i \in IrqSlots : i >= 0
    BY SMTT(30), Z3T(30) DEF IrqSlots
  <2>4. \A i \in IrqSlots : i >= irq_count[h] => BlankIrq(h, i)
    BY <2>1, Zenon DEF Shape
  <2> QED
    BY <2>2, <2>3, <2>4, Zenon DEF BlankIrq
<1>4. TypeOK'
  <2>1. [fds EXCEPT ![d] = <<"context", p>>] \in [Fds -> Files]
    BY <1>2, Zenon DEF IInv, TypeOK
  <2>2. kirqs' \in [Pasids -> SUBSET Offsets] /\ kattached' \subseteq Pasids
    BY <1>1, <2>1, TablesType, KernelTypes, Zenon
  <2> QED
    BY <1>0, <1>1, <1>2, <2>1, <2>2, Labels, Zenon DEF IInv, TypeOK
<1>5. Shapes'
  <2>1. Shape(h)
    BY Zenon DEF IInv, Shapes
  <2>2. \A g \in Handles : g # h => Same(g)
    BY <1>0, <1>1, CallType, FdType, MmioType, Zenon DEF Same
  <2>3. Shape(h)'
    <3>1. pc'[h] = "global_mmio_open" /\ fd'[h] = d
      BY <1>0, <1>1, CallType, FdType, Zenon
    <3>2. d # -1
      BY SMTT(30), Z3T(30) DEF Fds
    <3> QED
      BY <1>0, <2>1, <3>1, <3>2, Zenon DEF Shape, BlankIrq, IrqSteps
  <2> QED
    BY <2>2, <2>3, OtherShapes, Zenon
<1>6. Context(h)' = p /\ fd'[h] = d
  BY <1>1, <1>2, Zenon DEF Context, IInv, TypeOK
<1>7. ASSUME NEW g \in Handles, g # h
      PROVE  fd'[g] = fd[g] /\ (fd[g] # -1 => Context(g)' = Context(g) /\ Context(g) # p)
  <2>1. fd'[g] = fd[g]
    BY <1>0, <1>1, <1>7, Zenon DEF IInv, TypeOK
  <2>2. ASSUME fd[g] # -1 PROVE fds'[fd[g]] = fds[fd[g]] /\ Context(g) # p
    BY <1>1, <1>2, <2>2, HasContext, SMTT(30), Z3T(30) DEF IInv, TypeOK, Closed, Live
  <2> QED
    BY <2>1, <2>2, Zenon DEF Context
<1>8. DescriptorLedger'
  <2>1. \A g \in Handles, e \in Fds : OwnsFd(g, e)' <=> OwnsFd(g, e) \/ (g = h /\ e = d)
    <3> SUFFICES ASSUME NEW g \in Handles, NEW e \in Fds
                 PROVE  OwnsFd(g, e)' <=> OwnsFd(g, e) \/ (g = h /\ e = d)
      BY Zenon
    <3>1. /\ global_mmio_fd'[g] = global_mmio_fd[g] /\ epoll_fd'[g] = epoll_fd[g]
          /\ \A i : eventfd'[g][i] = eventfd[g][i]
      BY <1>0, Zenon
    <3>2. fd'[g] = IF g = h THEN d ELSE fd[g]
      BY <1>1, FdType, Zenon
    <3>3. e # -1
      BY SMTT(30), Z3T(30) DEF Fds
    <3> QED
      BY <1>3, <3>1, <3>2, <3>3, Zenon DEF OwnsFd
  <2>2. ASSUME NEW g \in Handles PROVE FdsOf(g)'
    <3>1. FdsOf(g) /\ ~OwnsFd(g, d)
      BY <1>2, ClosedUnowned, Zenon DEF IInv, DescriptorLedger
    <3> QED
      BY <1>0, <1>1, <1>2, <3>1, SMTT(30), Z3T(30) DEF FdsOf, OwnsFd, IInv, TypeOK
  <2> QED
    BY <1>2, <2>1, <2>2, NewDescriptor, Zenon
<1>9. OwnContext'
  BY <1>6, <1>7, Zenon DEF IInv, OwnContext
<1>10. MappingLedger'
  <2>1. \A g \in Handles, a \in Addrs : OwnsMap(g, a) => Context(g)' = Context(g)
    BY <1>3, <1>7, MappedHasContext, Zenon DEF IInv, Base
  <2> QED
    BY <1>0, <1>2, <2>1, SameMappings, Zenon
<1>11. Base'
  BY <1>4, <1>5, <1>8, <1>9, <1>10, Zenon DEF Base
<1>12. kirqs[p] = {} /\ p \notin kattached
  BY <1>1, Zenon DEF IInv, DeadIsEmpty
<1>13. IrqLedger'
  <2>1. ASSUME NEW g \in Handles, fd'[g] # -1
        PROVE  kirqs'[Context(g)'] = {irq_offset'[g][i] : i \in IrqSlots} \ {0}
    <3>1. kirqs'[Context(g)'] = kirqs[Context(g)']
      BY <1>1, <1>11, <2>1, KernelRemembers, SMTT(30), Z3T(30)
    <3>2. CASE g = h
      BY <1>0, <1>3, <1>6, <1>12, <3>1, <3>2, Zenon
    <3>3. CASE g # h
      <4>1. fd[g] # -1 /\ Context(g)' = Context(g) /\ irq_offset' = irq_offset
        BY <1>0, <1>7, <2>1, <3>3, Zenon
      <4>2. kirqs[Context(g)] = {irq_offset[g][i] : i \in IrqSlots} \ {0}
        BY <4>1, Zenon DEF IInv, IrqLedger
      <4> QED
        BY <3>1, <4>1, <4>2, Zenon
    <3> QED
      BY <3>2, <3>3, Zenon
  <2> QED
    BY <1>0, <2>1, Zenon DEF IInv, IrqLedger
<1>14. DeadIsEmpty'
  BY <1>1, KernelForgets, Zenon
<1>15. PerPasidIsAttached'
  <2>1. ASSUME NEW q \in Pasids, NEW a \in Addrs, maps'[a] = <<"per_pasid", q>>
        PROVE  q \in kattached'
    BY <1>1, <1>2, <2>1, PerPasidIsLive, Zenon DEF IInv, PerPasidIsAttached
  <2>2. ASSUME NEW g \in Handles, fd'[g] # -1
        PROVE  attached'[g] <=> Context(g)' \in kattached'
    <3>1. Context(g)' \in kattached' <=> Context(g)' \in kattached
      BY <1>1, <1>11, <2>2, KernelRemembers, Zenon
    <3>2. CASE g = h
      BY <1>0, <1>3, <1>6, <1>12, <3>1, <3>2, Zenon
    <3>3. CASE g # h
      BY <1>0, <1>7, <2>2, <3>1, <3>3, Zenon DEF IInv, PerPasidIsAttached
    <3> QED
      BY <3>2, <3>3, Zenon
  <2> QED
    BY <2>1, <2>2, Zenon DEF PerPasidIsAttached
<1> QED
  BY <1>11, <1>13, <1>14, <1>15, Zenon DEF Base, IInv

===============================================================================

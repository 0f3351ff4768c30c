------------------------------ MODULE AfuContext ------------------------------
(***************************************************************************)
(* The life of AFU handles in one process: what ocxl_afu_open_from_dev(),  *)
(* ocxl_afu_attach(), ocxl_mmio_map(), ocxl_mmio_unmap(), ocxl_irq_alloc() *)
(* and ocxl_afu_close() do to the members of the ocxl_afu structure and to *)
(* the kernel's descriptors, mappings, contexts and IRQs, one system call  *)
(* at a time, each call free to fail.  Handles are used by different       *)
(* threads, so the calls of two handles interleave.                        *)
(***************************************************************************)
EXTENDS GrowBuffer

CONSTANTS
  Handles,             \* addresses malloc() may return for an ocxl_afu
  Pasids,              \* the contexts the device can run at a time
  Addrs,               \* addresses mmap() may return
  MaxFd,               \* bound: descriptors the process may have open
  MaxIrqs,             \* bound: IRQs allocated per handle
  MaxMmios,            \* bound: MMIO areas mapped per handle
  INITIAL_IRQ_COUNT, INITIAL_MMIO_COUNT,
  NULL, MAP_FAILED,    \* the two results that are not an address
  UINT32_MAX           \* the PASID of a handle whose metadata is not known

ASSUME BoundsAssumption ==
  /\ MaxFd \in Nat /\ MaxIrqs \in Nat /\ MaxMmios \in Nat
  /\ INITIAL_IRQ_COUNT \in Nat \ {0} /\ INITIAL_MMIO_COUNT \in Nat \ {0}

ASSUME NamesAssumption ==
  /\ NULL \notin Addrs /\ MAP_FAILED \notin Addrs /\ NULL # MAP_FAILED
  /\ UINT32_MAX \notin Pasids

VARIABLES
  pc,                                                 \* where each handle's call stands
  fd, global_mmio_fd, epoll_fd, attached, pasid,      \* members of ocxl_afu
  irq_count, irq_max_count,                           \* the IRQ table and, per slot,
  eventfd, irq_offset, irq_addr,                      \* event.eventfd, event.irq_offset, addr
  mmio_count, mmio_max_count, mmio_start, mmio_type,  \* the MMIO table
  heap,                                               \* blocks malloc() has handed out
  fds, maps, kirqs, kattached                         \* the kernel's side

structVars == <<fd, global_mmio_fd, epoll_fd, attached, pasid>>
irqVars    == <<irq_count, irq_max_count, eventfd, irq_offset, irq_addr>>
mmioVars   == <<mmio_count, mmio_max_count, mmio_start, mmio_type>>
kernelVars == <<fds, maps, kirqs, kattached>>
vars       == <<pc, structVars, irqVars, mmioVars, heap, kernelVars>>

-------------------------------------------------------------------------------
Fds       == 0 .. MaxFd - 1
IrqSlots  == 0 .. MaxIrqs - 1
MmioSlots == 0 .. MaxMmios - 1
Offsets   == 1 .. MaxIrqs
MmioTypes == {"global", "per_pasid"}

\* What an open descriptor refers to, and what a mapped page shows.
Closed   == <<"closed", UINT32_MAX>>
Unmapped == <<"unmapped", UINT32_MAX>>
Files    == {<<k, UINT32_MAX>> : k \in {"closed", "global_mmio", "epoll", "eventfd"}}
            \cup {<<"context", p>> : p \in Pasids}
Areas    == {<<k, UINT32_MAX>> : k \in {"unmapped", "global"}}
            \cup {<<k, p>> : k \in {"per_pasid", "irq"}, p \in Pasids}

\* The blocks a handle points to, and those that nothing points to any more.
Orphans == {"orphan_device_path", "orphan_mmios"}
Blocks  == {"afu", "device_path", "sysfs_path", "irqs", "mmios", "epoll_events"} \cup Orphans

Opening  == {"global_mmio_open", "epoll_create", "epoll_ctl", "get_metadata"}
IrqSteps == {"eventfd", "irq_alloc", "irq_set_fd", "irq_mmap", "irq_epoll", "irq_dealloc"}
Closing  == {"close_mmios", "close_irqs", "close_epoll", "close_fd"}
PCs      == {"none", "open", "lost", "ready"} \cup Opening \cup IrqSteps \cup Closing

-------------------------------------------------------------------------------
(* The kernel: open() hands out the lowest free descriptor, mmap() any free *)
(* address.  A context lives as long as a descriptor or a mapping refers to *)
(* it; when the last one goes its IRQs and its attachment go with it.       *)

Live(f, m, p) ==
  \/ \E d \in Fds : f[d] = <<"context", p>>
  \/ \E a \in Addrs : m[a] \in {<<"per_pasid", p>>, <<"irq", p>>}

Kernel(f, m, k, att) ==
  /\ fds' = f
  /\ maps' = m
  /\ kirqs' = [p \in Pasids |-> IF Live(f, m, p) THEN k[p] ELSE {}]
  /\ kattached' = {p \in att : Live(f, m, p)}

LowestFree(d) ==
  /\ fds[d] = Closed
  /\ \A e \in Fds : fds[e] = Closed => d <= e

\* The context behind the handle's device descriptor.
Context(h) == fds[fd[h]][2]

Goto(h, label) == pc' = [pc EXCEPT ![h] = label]

-------------------------------------------------------------------------------
(* ocxl_afu_open_from_dev(): get_afu_by_path(), then afu_open().            *)

\* afu_alloc(), stat() and populate_metadata() succeed.  (When malloc() of the
\* structure, stat() or the directory search fails nothing is left behind.)
GetAfuByPath(h) ==
  /\ pc[h] = "none"
  /\ heap' = heap \cup {<<h, "afu">>, <<h, "device_path">>, <<h, "sysfs_path">>}
  /\ Goto(h, "open")
  /\ UNCHANGED <<structVars, irqVars, mmioVars, kernelVars>>

\* populate_metadata() cannot allocate sysfs_path: only the structure is freed,
\* and device_path is left with nothing pointing to it.
NoSysfsPath(h) ==
  /\ pc[h] = "none"
  /\ heap' = heap \cup {<<h, "orphan_device_path">>}
  /\ UNCHANGED <<pc, structVars, irqVars, mmioVars, kernelVars>>

OpenDevice(h) ==
  /\ pc[h] = "open"
  /\ \E d \in Fds, p \in Pasids :
       /\ LowestFree(d)
       /\ ~Live(fds, maps, p)
       /\ fd' = [fd EXCEPT ![h] = d]
       /\ Kernel([fds EXCEPT ![d] = <<"context", p>>], maps, kirqs, kattached)
  /\ Goto(h, "global_mmio_open")
  /\ UNCHANGED <<global_mmio_fd, epoll_fd, attached, pasid, irqVars, mmioVars, heap>>

\* open() fails, with ENOSPC when every context is in use or otherwise; then
\* ocxl_afu_close() finds fd < 0 and returns without freeing anything.
OpenDeviceFails(h) ==
  /\ pc[h] = "open"
  /\ Goto(h, "lost")
  /\ UNCHANGED <<structVars, irqVars, mmioVars, heap, kernelVars>>

GlobalMmioOpen(h) ==
  /\ pc[h] = "global_mmio_open"
  /\ \E d \in Fds :
       /\ LowestFree(d)
       /\ global_mmio_fd' = [global_mmio_fd EXCEPT ![h] = d]
       /\ Kernel([fds EXCEPT ![d] = <<"global_mmio", UINT32_MAX>>], maps, kirqs, kattached)
  /\ Goto(h, "epoll_create")
  /\ UNCHANGED <<fd, epoll_fd, attached, pasid, irqVars, mmioVars, heap>>

EpollCreate(h) ==
  /\ pc[h] = "epoll_create"
  /\ \E d \in Fds :
       /\ LowestFree(d)
       /\ epoll_fd' = [epoll_fd EXCEPT ![h] = d]
       /\ Kernel([fds EXCEPT ![d] = <<"epoll", UINT32_MAX>>], maps, kirqs, kattached)
  /\ Goto(h, "epoll_ctl")
  /\ UNCHANGED <<fd, global_mmio_fd, attached, pasid, irqVars, mmioVars, heap>>

\* epoll_ctl(ADD) of the device descriptor, whose registration is in module AfuEvents.
EpollCtl(h) ==
  /\ pc[h] = "epoll_ctl"
  /\ Goto(h, "get_metadata")
  /\ UNCHANGED <<structVars, irqVars, mmioVars, heap, kernelVars>>

GetMetadata(h) ==
  /\ pc[h] = "get_metadata"
  /\ pasid' = [pasid EXCEPT ![h] = Context(h)]
  /\ Goto(h, "ready")
  /\ UNCHANGED <<fd, global_mmio_fd, epoll_fd, attached, irqVars, mmioVars, heap, kernelVars>>

\* Mutant of OpenStepFails: the handle is dropped without ocxl_afu_close().
OpenStepFailsNoClose(h) ==
  /\ pc[h] \in Opening
  /\ Goto(h, "none")
  /\ UNCHANGED <<structVars, irqVars, mmioVars, heap, kernelVars>>

\* A step of afu_open() after open() fails: ocxl_afu_open_from_dev() closes the handle.
OpenStepFails(h) ==
  /\ pc[h] \in Opening
  /\ Goto(h, "close_mmios")
  /\ UNCHANGED <<structVars, irqVars, mmioVars, heap, kernelVars>>

-------------------------------------------------------------------------------
(* Calls on an open handle.                                                 *)

Attach(h) ==
  /\ pc[h] = "ready"
  /\ fd[h] # -1
  /\ attached' = [attached EXCEPT ![h] = TRUE]
  /\ Kernel(fds, maps, kirqs, kattached \cup {Context(h)})
  /\ UNCHANGED <<pc, fd, global_mmio_fd, epoll_fd, pasid, irqVars, mmioVars, heap>>

\* The page mmap() shows for each type of MMIO area.
AreaOf(h, type) ==
  IF type = "global" THEN <<"global", UINT32_MAX>> ELSE <<"per_pasid", Context(h)>>

\* Mutant of MayMap: mmio_map() does not look at attached.
MayMapUnattached(h, type) ==
  type = "per_pasid" => fd[h] >= 0

\* What global_mmio_map() and mmio_map() require before they call mmap().
MayMap(h, type) ==
  type = "per_pasid" => fd[h] >= 0 /\ attached[h]

\* register_mmio() takes the first unmapped slot, or else the one after the last.
NoHole(h) == \A i \in 0 .. mmio_count[h] - 1 : mmio_start[h][i] # NULL

\* Mutant of RegisterSlot: the search stops at the first slot, mapped or not.
RegisterFirst(h, i) ==
  IF mmio_count[h] > 0 THEN i = 0 ELSE i = mmio_count[h]

RegisterSlot(h, i) ==
  \/ /\ i < mmio_count[h]
     /\ mmio_start[h][i] = NULL
     /\ \A j \in 0 .. i - 1 : mmio_start[h][j] # NULL
  \/ NoHole(h) /\ i = mmio_count[h]

NextMmioCount(h, i) == IF i = mmio_count[h] THEN mmio_count[h] + 1 ELSE mmio_count[h]

MustGrowMmios(h) == NoHole(h) /\ mmio_count[h] = mmio_max_count[h]

MmioMap(h, type) ==
  /\ pc[h] = "ready"
  /\ MayMap(h, type)
  /\ \E a \in Addrs, i \in MmioSlots :
       /\ maps[a] = Unmapped
       /\ RegisterSlot(h, i)
       /\ Kernel(fds, [maps EXCEPT ![a] = AreaOf(h, type)], kirqs, kattached)
       /\ mmio_start' = [mmio_start EXCEPT ![h][i] = a]
       /\ mmio_type' = [mmio_type EXCEPT ![h][i] = type]
       /\ mmio_count' = [mmio_count EXCEPT ![h] = NextMmioCount(h, i)]
       /\ mmio_max_count' = [mmio_max_count EXCEPT ![h] =
            IF MustGrowMmios(h) THEN ToUint16(new_count(@, INITIAL_MMIO_COUNT)) ELSE @]
       /\ heap' = IF MustGrowMmios(h) THEN heap \cup {<<h, "mmios">>} ELSE heap
  /\ UNCHANGED <<pc, structVars, irqVars>>

\* mmap() succeeds, the table cannot grow, and the area is unmapped again.
MmioMapNoMem(h, type) ==
  /\ pc[h] = "ready"
  /\ MayMap(h, type)
  /\ MustGrowMmios(h)
  /\ \E a \in Addrs :
       /\ maps[a] = Unmapped
       /\ LET mapped == [maps EXCEPT ![a] = AreaOf(h, type)]
          IN  Kernel(fds, [mapped EXCEPT ![a] = Unmapped], kirqs, kattached)
  /\ UNCHANGED <<pc, structVars, irqVars, mmioVars, heap>>

MmioUnmap(h, i) ==
  /\ pc[h] = "ready"
  /\ i < mmio_count[h]
  /\ mmio_start[h][i] # NULL
  /\ Kernel(fds, [maps EXCEPT ![mmio_start[h][i]] = Unmapped], kirqs, kattached)
  /\ mmio_start' = [mmio_start EXCEPT ![h][i] = NULL]
  /\ UNCHANGED <<pc, structVars, irqVars, mmio_count, mmio_max_count, mmio_type, heap>>

\* ocxl_afu_event_check_versioned() allocates a larger epoll_events buffer, or
\* frees the old one and finds no memory for the larger one.
GrowEventBuffer(h) ==
  /\ pc[h] = "ready"
  /\ heap' \in {heap \cup {<<h, "epoll_events">>}, heap \ {<<h, "epoll_events">>}}
  /\ UNCHANGED <<pc, structVars, irqVars, mmioVars, kernelVars>>

-------------------------------------------------------------------------------
(* ocxl_irq_alloc(): grow the table, then irq_allocate() fills the slot     *)
(* after the last; an error releases what the slot records.                 *)

MustGrowIrqs(h) == irq_count[h] = irq_max_count[h]

IrqAlloc(h) ==
  /\ pc[h] = "ready"
  /\ irq_count[h] < MaxIrqs
  /\ irq_max_count' = [irq_max_count EXCEPT ![h] =
       IF MustGrowIrqs(h) THEN ToUint16(new_count(@, INITIAL_IRQ_COUNT)) ELSE @]
  /\ heap' = IF MustGrowIrqs(h) THEN heap \cup {<<h, "irqs">>} ELSE heap
  /\ irq_offset' = [irq_offset EXCEPT ![h][irq_count[h]] = 0]
  /\ eventfd' = [eventfd EXCEPT ![h][irq_count[h]] = -1]
  /\ irq_addr' = [irq_addr EXCEPT ![h][irq_count[h]] = NULL]
  /\ Goto(h, "eventfd")
  /\ UNCHANGED <<structVars, irq_count, mmioVars, kernelVars>>

IrqEventfd(h) ==
  /\ pc[h] = "eventfd"
  /\ \E d \in Fds :
       /\ LowestFree(d)
       /\ eventfd' = [eventfd EXCEPT ![h][irq_count[h]] = d]
       /\ Kernel([fds EXCEPT ![d] = <<"eventfd", UINT32_MAX>>], maps, kirqs, kattached)
  /\ Goto(h, "irq_alloc")
  /\ UNCHANGED <<structVars, irq_count, irq_max_count, irq_offset, irq_addr, mmioVars, heap>>

IrqIoctlAlloc(h) ==
  /\ pc[h] = "irq_alloc"
  /\ \E o \in Offsets \ kirqs[Context(h)] :
       /\ irq_offset' = [irq_offset EXCEPT ![h][irq_count[h]] = o]
       /\ Kernel(fds, maps, [kirqs EXCEPT ![Context(h)] = @ \cup {o}], kattached)
  /\ Goto(h, "irq_set_fd")
  /\ UNCHANGED <<structVars, irq_count, irq_max_count, eventfd, irq_addr, mmioVars, heap>>

IrqIoctlSetFd(h) ==
  /\ pc[h] = "irq_set_fd"
  /\ Goto(h, "irq_mmap")
  /\ UNCHANGED <<structVars, irqVars, mmioVars, heap, kernelVars>>

IrqMmap(h) ==
  /\ pc[h] = "irq_mmap"
  /\ \E a \in Addrs :
       /\ maps[a] = Unmapped
       /\ irq_addr' = [irq_addr EXCEPT ![h][irq_count[h]] = a]
       /\ Kernel(fds, [maps EXCEPT ![a] = <<"irq", Context(h)>>], kirqs, kattached)
  /\ Goto(h, "irq_epoll")
  /\ UNCHANGED <<structVars, irq_count, irq_max_count, eventfd, irq_offset, mmioVars, heap>>

IrqEpollCtl(h) ==
  /\ pc[h] = "irq_epoll"
  /\ irq_count' = [irq_count EXCEPT ![h] = @ + 1]
  /\ Goto(h, "ready")
  /\ UNCHANGED <<structVars, irq_max_count, eventfd, irq_offset, irq_addr, mmioVars, heap, kernelVars>>

\* A step of irq_allocate() fails; mmap() stores MAP_FAILED in addr when it does.
IrqStepFails(h) ==
  /\ pc[h] \in IrqSteps \ {"irq_dealloc"}
  /\ irq_addr' = [irq_addr EXCEPT ![h][irq_count[h]] = IF pc[h] = "irq_mmap" THEN MAP_FAILED ELSE @]
  /\ Goto(h, "irq_dealloc")
  /\ UNCHANGED <<structVars, irq_count, irq_max_count, eventfd, irq_offset, mmioVars, heap, kernelVars>>

\* Mutant of irq_dealloc: the IRQ is not freed in the kernel.
irq_dealloc_no_free(h, S) ==
  /\ Kernel([d \in Fds |-> IF \E i \in S : eventfd[h][i] = d THEN Closed ELSE fds[d]],
            [a \in Addrs |-> IF \E i \in S : irq_addr[h][i] = a THEN Unmapped ELSE maps[a]],
            kirqs, kattached)
  /\ eventfd' = [eventfd EXCEPT ![h] = [i \in IrqSlots |-> IF i \in S THEN -1 ELSE @[i]]]
  /\ irq_offset' = [irq_offset EXCEPT ![h] = [i \in IrqSlots |-> IF i \in S THEN 0 ELSE @[i]]]
  /\ irq_addr' = [irq_addr EXCEPT ![h] = [i \in IrqSlots |-> IF i \in S THEN NULL ELSE @[i]]]

\* Mutant of irq_dealloc: the eventfd is forgotten without close().
irq_dealloc_no_close(h, S) ==
  /\ Kernel(fds, [a \in Addrs |-> IF \E i \in S : irq_addr[h][i] = a THEN Unmapped ELSE maps[a]],
            [p \in Pasids |-> IF p = Context(h) THEN kirqs[p] \ {irq_offset[h][i] : i \in S}
                              ELSE kirqs[p]],
            kattached)
  /\ eventfd' = [eventfd EXCEPT ![h] = [i \in IrqSlots |-> IF i \in S THEN -1 ELSE @[i]]]
  /\ irq_offset' = [irq_offset EXCEPT ![h] = [i \in IrqSlots |-> IF i \in S THEN 0 ELSE @[i]]]
  /\ irq_addr' = [irq_addr EXCEPT ![h] = [i \in IrqSlots |-> IF i \in S THEN NULL ELSE @[i]]]

\* irq_dealloc() of the slots S: munmap(), OCXL_IOCTL_IRQ_FREE and close() of
\* whatever each of them records.
irq_dealloc(h, S) ==
  /\ Kernel([d \in Fds |-> IF \E i \in S : eventfd[h][i] = d THEN Closed ELSE fds[d]],
            [a \in Addrs |-> IF \E i \in S : irq_addr[h][i] = a THEN Unmapped ELSE maps[a]],
            [p \in Pasids |-> IF p = Context(h) THEN kirqs[p] \ {irq_offset[h][i] : i \in S}
                              ELSE kirqs[p]],
            kattached)
  /\ eventfd' = [eventfd EXCEPT ![h] = [i \in IrqSlots |-> IF i \in S THEN -1 ELSE @[i]]]
  /\ irq_offset' = [irq_offset EXCEPT ![h] = [i \in IrqSlots |-> IF i \in S THEN 0 ELSE @[i]]]
  /\ irq_addr' = [irq_addr EXCEPT ![h] = [i \in IrqSlots |-> IF i \in S THEN NULL ELSE @[i]]]

IrqErrend(h) ==
  /\ pc[h] = "irq_dealloc"
  /\ irq_dealloc(h, {irq_count[h]})
  /\ Goto(h, "ready")
  /\ UNCHANGED <<structVars, irq_count, irq_max_count, mmioVars, heap>>

-------------------------------------------------------------------------------
(* ocxl_afu_close() of a handle whose device descriptor is open.            *)

Close(h) ==
  /\ pc[h] = "ready"
  /\ Goto(h, "close_mmios")
  /\ UNCHANGED <<structVars, irqVars, mmioVars, heap, kernelVars>>

\* Mutant of CloseMmios: the areas are forgotten without munmap().
CloseMmiosNoUnmap(h) ==
  /\ pc[h] = "close_mmios"
  /\ Kernel([d \in Fds |-> IF d = global_mmio_fd[h] THEN Closed ELSE fds[d]], maps, kirqs, kattached)
  /\ mmio_start' = [mmio_start EXCEPT ![h] = [i \in MmioSlots |-> NULL]]
  /\ global_mmio_fd' = [global_mmio_fd EXCEPT ![h] = -1]
  /\ Goto(h, "close_irqs")
  /\ UNCHANGED <<fd, epoll_fd, attached, pasid, irqVars, mmio_count, mmio_max_count, mmio_type, heap>>

\* Every mapped area is unmapped and the global MMIO descriptor closed; the
\* table itself stays allocated.
CloseMmios(h) ==
  /\ pc[h] = "close_mmios"
  /\ Kernel([d \in Fds |-> IF d = global_mmio_fd[h] THEN Closed ELSE fds[d]],
            [a \in Addrs |-> IF \E i \in 0 .. mmio_count[h] - 1 : mmio_start[h][i] = a
                             THEN Unmapped ELSE maps[a]],
            kirqs, kattached)
  /\ mmio_start' = [mmio_start EXCEPT ![h] = [i \in MmioSlots |-> IF i < mmio_count[h] THEN NULL ELSE @[i]]]
  /\ global_mmio_fd' = [global_mmio_fd EXCEPT ![h] = -1]
  /\ Goto(h, "close_irqs")
  /\ UNCHANGED <<fd, epoll_fd, attached, pasid, irqVars, mmio_count, mmio_max_count, mmio_type, heap>>

CloseIrqs(h) ==
  /\ pc[h] = "close_irqs"
  /\ irq_dealloc(h, 0 .. irq_count[h] - 1)
  /\ heap' = heap \ {<<h, "irqs">>}
  /\ irq_count' = [irq_count EXCEPT ![h] = 0]
  /\ irq_max_count' = [irq_max_count EXCEPT ![h] = 0]
  /\ Goto(h, "close_epoll")
  /\ UNCHANGED <<structVars, mmioVars>>

\* close(epoll_fd) of -1, after a failed epoll_create1(), does nothing.
CloseEpoll(h) ==
  /\ pc[h] = "close_epoll"
  /\ heap' = heap \ {<<h, "epoll_events">>}
  /\ Kernel([d \in Fds |-> IF d = epoll_fd[h] THEN Closed ELSE fds[d]], maps, kirqs, kattached)
  /\ epoll_fd' = [epoll_fd EXCEPT ![h] = -1]
  /\ Goto(h, "close_fd")
  /\ UNCHANGED <<fd, global_mmio_fd, attached, pasid, irqVars, mmioVars>>

\* The table of MMIO areas, once the structure that points to it is gone.
OrphanedMmios(h) == IF <<h, "mmios">> \in heap THEN {<<h, "orphan_mmios">>} ELSE {}

\* Mutant of FreeAfu: device_path is forgotten.
FreeAfuNotPath(h) ==
  heap' = (heap \ {<<h, "afu">>, <<h, "sysfs_path">>, <<h, "mmios">>}) \cup OrphanedMmios(h)

\* free() of the paths and of the structure.
FreeAfu(h) ==
  heap' = (heap \ {<<h, "afu">>, <<h, "device_path">>, <<h, "sysfs_path">>, <<h, "mmios">>})
          \cup OrphanedMmios(h)

\* Mutant of CloseFd: the handle is freed before its device descriptor is closed.
CloseFdFirstFreed(h) ==
  /\ pc[h] = "close_fd"
  /\ fd' = [fd EXCEPT ![h] = -1]
  /\ attached' = [attached EXCEPT ![h] = FALSE]
  /\ pasid' = [pasid EXCEPT ![h] = UINT32_MAX]
  /\ mmio_count' = [mmio_count EXCEPT ![h] = 0]
  /\ mmio_max_count' = [mmio_max_count EXCEPT ![h] = 0]
  /\ FreeAfu(h)
  /\ Goto(h, "none")
  /\ UNCHANGED <<global_mmio_fd, epoll_fd, irqVars, mmio_start, mmio_type, kernelVars>>

\* The device descriptor is closed and the paths and the structure are freed;
\* what the next afu_init() at this address will find is reset with them.
CloseFd(h) ==
  /\ pc[h] = "close_fd"
  /\ Kernel([d \in Fds |-> IF d = fd[h] THEN Closed ELSE fds[d]], maps, kirqs, kattached)
  /\ fd' = [fd EXCEPT ![h] = -1]
  /\ attached' = [attached EXCEPT ![h] = FALSE]
  /\ pasid' = [pasid EXCEPT ![h] = UINT32_MAX]
  /\ mmio_count' = [mmio_count EXCEPT ![h] = 0]
  /\ mmio_max_count' = [mmio_max_count EXCEPT ![h] = 0]
  /\ mmio_type' = [mmio_type EXCEPT ![h] = [i \in MmioSlots |-> "global"]]
  /\ FreeAfu(h)
  /\ Goto(h, "none")
  /\ UNCHANGED <<global_mmio_fd, epoll_fd, irqVars, mmio_start>>

-------------------------------------------------------------------------------
Init ==
  /\ pc = [h \in Handles |-> "none"]
  /\ fd = [h \in Handles |-> -1]
  /\ global_mmio_fd = [h \in Handles |-> -1]
  /\ epoll_fd = [h \in Handles |-> -1]
  /\ attached = [h \in Handles |-> FALSE]
  /\ pasid = [h \in Handles |-> UINT32_MAX]
  /\ irq_count = [h \in Handles |-> 0]
  /\ irq_max_count = [h \in Handles |-> 0]
  /\ eventfd = [h \in Handles |-> [i \in IrqSlots |-> -1]]
  /\ irq_offset = [h \in Handles |-> [i \in IrqSlots |-> 0]]
  /\ irq_addr = [h \in Handles |-> [i \in IrqSlots |-> NULL]]
  /\ mmio_count = [h \in Handles |-> 0]
  /\ mmio_max_count = [h \in Handles |-> 0]
  /\ mmio_start = [h \in Handles |-> [i \in MmioSlots |-> NULL]]
  /\ mmio_type = [h \in Handles |-> [i \in MmioSlots |-> "global"]]
  /\ heap = {}
  /\ fds = [d \in Fds |-> Closed]
  /\ maps = [a \in Addrs |-> Unmapped]
  /\ kirqs = [p \in Pasids |-> {}]
  /\ kattached = {}

OpenSteps(h) ==
  \/ GetAfuByPath(h) \/ NoSysfsPath(h) \/ OpenDevice(h) \/ OpenDeviceFails(h)
  \/ GlobalMmioOpen(h) \/ EpollCreate(h) \/ EpollCtl(h) \/ GetMetadata(h) \/ OpenStepFails(h)

MmioCalls(h) ==
  \/ \E type \in MmioTypes : MmioMap(h, type) \/ MmioMapNoMem(h, type)
  \/ \E i \in MmioSlots : MmioUnmap(h, i)

IrqCalls(h) ==
  \/ IrqAlloc(h) \/ IrqEventfd(h) \/ IrqIoctlAlloc(h) \/ IrqIoctlSetFd(h)
  \/ IrqMmap(h) \/ IrqEpollCtl(h) \/ IrqStepFails(h) \/ IrqErrend(h)

CloseCall(h) ==
  \/ Close(h) \/ CloseMmios(h) \/ CloseIrqs(h) \/ CloseEpoll(h) \/ CloseFd(h)

Next ==
  \E h \in Handles :
    \/ OpenSteps(h) \/ Attach(h) \/ MmioCalls(h) \/ GrowEventBuffer(h) \/ IrqCalls(h) \/ CloseCall(h)

Spec == Init /\ [][Next]_vars

InCall(h) == pc[h] \in {"open"} \cup Opening \cup IrqSteps \cup Closing

\* The steps of a call that has started; the choice of the next call is the application's.
CallStep(h) == InCall(h) /\ (OpenSteps(h) \/ IrqCalls(h) \/ CloseCall(h))

FairSpec == Spec /\ \A h \in Handles : WF_vars(CallStep(h))

-------------------------------------------------------------------------------
TypeOK ==
  /\ pc \in [Handles -> PCs]
  /\ fd \in [Handles -> Fds \cup {-1}]
  /\ global_mmio_fd \in [Handles -> Fds \cup {-1}]
  /\ epoll_fd \in [Handles -> Fds \cup {-1}]
  /\ attached \in [Handles -> BOOLEAN]
  /\ pasid \in [Handles -> Pasids \cup {UINT32_MAX}]
  /\ irq_count \in [Handles -> 0 .. MaxIrqs]
  /\ irq_max_count \in [Handles -> Nat]
  /\ eventfd \in [Handles -> [IrqSlots -> Fds \cup {-1}]]
  /\ irq_offset \in [Handles -> [IrqSlots -> Offsets \cup {0}]]
  /\ irq_addr \in [Handles -> [IrqSlots -> Addrs \cup {NULL, MAP_FAILED}]]
  /\ mmio_count \in [Handles -> 0 .. MaxMmios]
  /\ mmio_max_count \in [Handles -> Nat]
  /\ mmio_start \in [Handles -> [MmioSlots -> Addrs \cup {NULL}]]
  /\ mmio_type \in [Handles -> [MmioSlots -> MmioTypes]]
  /\ heap \subseteq Handles \X Blocks
  /\ fds \in [Fds -> Files]
  /\ maps \in [Addrs -> Areas]
  /\ kirqs \in [Pasids -> SUBSET Offsets]
  /\ kattached \subseteq Pasids

\* The handle's structure, or a slot of its IRQ table, records the descriptor d.
OwnsFd(h, d) ==
  \/ fd[h] = d \/ global_mmio_fd[h] = d \/ epoll_fd[h] = d
  \/ \E i \in IrqSlots : eventfd[h][i] = d

\* A slot of the handle's MMIO or IRQ table records the mapping at a.
OwnsMap(h, a) ==
  \/ \E i \in MmioSlots : mmio_start[h][i] = a
  \/ \E i \in IrqSlots : irq_addr[h][i] = a

\* Every descriptor the handle records is open and what the member says it is.
FdsOf(h) ==
  /\ fd[h] # -1 => \E p \in Pasids : fds[fd[h]] = <<"context", p>>
  /\ global_mmio_fd[h] # -1 => fds[global_mmio_fd[h]] = <<"global_mmio", UINT32_MAX>>
  /\ epoll_fd[h] # -1 => fds[epoll_fd[h]] = <<"epoll", UINT32_MAX>>
  /\ \A i \in IrqSlots : eventfd[h][i] # -1 => fds[eventfd[h][i]] = <<"eventfd", UINT32_MAX>>
  /\ \A i, j \in IrqSlots : i # j /\ eventfd[h][i] # -1 => eventfd[h][i] # eventfd[h][j]

\* Descriptors are neither lost nor left dangling, whichever system call of
\* afu_open() or irq_allocate() fails: every open descriptor is recorded by one
\* handle, every recorded one is open and is what the member says it is, and no
\* two handles (or IRQs) record the same one, so ocxl_afu_close() can close all
\* of them and nobody else's.
DescriptorLedger ==
  /\ \A d \in Fds : fds[d] # Closed => \E h \in Handles : OwnsFd(h, d)
  /\ \A h \in Handles : FdsOf(h)
  /\ \A g, h \in Handles, d \in Fds : OwnsFd(g, d) /\ OwnsFd(h, d) => g = h

\* Every mapping the handle records is live and shows the area its slot is for.
MapsOf(h) ==
  /\ \A i \in MmioSlots : mmio_start[h][i] # NULL =>
       i < mmio_count[h] /\ maps[mmio_start[h][i]] = AreaOf(h, mmio_type[h][i])
  /\ \A i \in IrqSlots : irq_addr[h][i] \in Addrs => maps[irq_addr[h][i]] = <<"irq", Context(h)>>
  /\ \A i, j \in IrqSlots : i # j /\ irq_addr[h][i] \in Addrs => irq_addr[h][i] # irq_addr[h][j]
  /\ \A i, j \in MmioSlots : i # j /\ mmio_start[h][i] # NULL => mmio_start[h][i] # mmio_start[h][j]

\* The same for mappings: what mmap() returned is recorded in exactly one live
\* MMIO slot or IRQ slot, and shows the area that slot is for.
MappingLedger ==
  /\ \A a \in Addrs : maps[a] # Unmapped => \E h \in Handles : OwnsMap(h, a)
  /\ \A h \in Handles : MapsOf(h)
  /\ \A g, h \in Handles, a \in Addrs : OwnsMap(g, a) /\ OwnsMap(h, a) => g = h

\* The kernel's IRQs of a context are exactly the ones its handle's slots
\* record: irq_allocate() leaves none behind when a later step fails, and no
\* two slots share one.
IrqLedger ==
  \A h \in Handles :
    /\ fd[h] # -1 => kirqs[Context(h)] = {irq_offset[h][i] : i \in IrqSlots} \ {0}
    /\ \A i, j \in IrqSlots : i # j /\ irq_offset[h][i] # 0 => irq_offset[h][i] # irq_offset[h][j]

\* A context is alive exactly while one handle has its device descriptor: a
\* handle that was closed, or whose opening failed half way, keeps no context
\* of the device busy through a forgotten mapping, and ENOSPC (reported as
\* OCXL_NO_MORE_CONTEXTS) means that many handles are really open.
ContextsAreHeld ==
  /\ \A p \in Pasids : Live(fds, maps, p) <=> \E h \in Handles : fd[h] # -1 /\ Context(h) = p
  /\ \A g, h \in Handles : g # h /\ fd[g] # -1 /\ fd[h] # -1 => Context(g) # Context(h)

\* A per-PASID area is mapped only for a context that is attached to the
\* process, and the handle's attached flag says what the kernel thinks.  The
\* program steps of README.md:66-73 map that area (step 5) before they attach
\* (step 6): in that order mmio_map() refuses with OCXL_NO_CONTEXT.
PerPasidIsAttached ==
  /\ \A p \in Pasids, a \in Addrs : maps[a] = <<"per_pasid", p>> => p \in kattached
  /\ \A h \in Handles : fd[h] # -1 => (attached[h] <=> Context(h) \in kattached)

\* The blocks allocated for the handle at h, or left behind by earlier ones.
Allocated(h) == {b \in Blocks : <<h, b>> \in heap}

\* What the members of a handle point to is allocated for as long as the handle
\* is used, and freed when it goes, whatever has failed on the way.  Short of
\* "All resources associated with the handle are closed and freed" (afu.c:690),
\* three things stay, and nothing else: the table of MMIO areas, always;
\* device_path, when there is no memory for sysfs_path; and a handle whose device
\* could not be opened, with its paths.
HeapLedger ==
  \A h \in Handles :
    /\ pc[h] = "none" => Allocated(h) \subseteq Orphans
    /\ pc[h] # "none" => {"afu", "device_path", "sysfs_path"} \subseteq Allocated(h)
    /\ pc[h] = "lost" => Allocated(h) \subseteq {"afu", "device_path", "sysfs_path"} \cup Orphans
    /\ irq_max_count[h] # 0 => "irqs" \in Allocated(h)
    /\ mmio_max_count[h] # 0 => "mmios" \in Allocated(h)

\* grow_buffer() makes room: the IRQs and MMIO areas in use, and the slot that
\* irq_allocate() is filling, lie in the part of the table that its count, a
\* uint16_t, remembers to be allocated.
TablesHoldTheirEntries ==
  \A h \in Handles :
    /\ irq_count[h] <= irq_max_count[h]
    /\ pc[h] \in IrqSteps => irq_count[h] < irq_max_count[h]
    /\ mmio_count[h] <= mmio_max_count[h]

\* ocxl_afu_close() gives its context back to the device: once closing begins
\* there is a later state in which nothing keeps that context alive.
CloseReturnsContext ==
  \A h \in Handles, p \in Pasids :
    (pc[h] \in Closing /\ fd[h] # -1 /\ Context(h) = p) ~> ~Live(fds, maps, p)

\* What the application is promised about contexts, and that the calls above,
\* step by step and through every failure, keep that promise.
Pool == INSTANCE ContextPool WITH
  NoContext <- UINT32_MAX,
  pool      <- {p \in Pasids : ~Live(fds, maps, p)},
  holder    <- [h \in Handles |-> IF fd[h] = -1 THEN UINT32_MAX ELSE Context(h)]

ImplementsContextPool == Pool!Spec

===============================================================================

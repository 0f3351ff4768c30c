# A verification of libocxl in TLA+

libocxl lets a process use an OpenCAPI accelerator (AFU) from user space: it
opens a context of the AFU, maps its MMIO areas, allocates interrupts (IRQs) and
collects events.  This directory models the library and the memcpy and AFP
programs that come with it, checks the models with TLC on small instances, and proves the
central facts with TLAPS for every value of the constants.  `PROJECT.json` maps
each definition to the lines it stands for.  The sources are the reference;
where a document or a comment promises something the code does not do, there is
a run that ends in a counterexample, a property that states what does hold, or a
remark (see Findings).

## The system

| part | state | operations | what makes it hard |
|---|---|---|---|
| AFU handle (`src/afu.c`) | descriptors, `attached`, `pasid`, tables, heap blocks | open, attach, close | each is a chain of system calls that can fail half way; a context lives as long as any descriptor or mapping refers to it |
| MMIO areas (`src/mmio.c`) | table of areas, used as handles | map, unmap, read, write | `size_t`/`off_t` arithmetic, holes in the table, a table that moves, byte order |
| IRQs (`src/irq.c`) | table of IRQs, eventfds, epoll | alloc, dealloc | five system calls per IRQ, and an error path that must undo what was done |
| Events (`src/irq.c`) | eventfd counts, kernel queue, epoll | `ocxl_afu_event_check()` | the AFU goes on triggering; blocking reads; arrays with a limit; pointers into a moving table |
| Growing tables (`src/internal.c`) | block, 16 bit count | `grow_buffer()` | `realloc()` moves; the count is narrowed |
| Search for an AFU (`src/afu.c`) | list of device files, contexts in use | `ocxl_afu_open_specific()`, `ocxl_afu_open_from_dev()` | several devices, some full, some failing, while other threads and processes open and close |
| Messages (`src/setup.c`, `src/internal.c`) | flags, once per process and per handle | `libocxl_init()`, the enable calls | threads race for the first open; flags are set without the mutex |
| Work queue (`samples/memcpy`, `afutests/memcpy`) | ring of work elements in shared memory | init, add | host and AFU work on it at the same time; laps told apart by one bit |
| Waiting for the AFU (same) | statuses, interrupts | poll, interrupt, `wake_host_thread` | interrupt and status may arrive in either order; timeouts; restart |
| AFP tests (`afutests/afp`) | registers and counters of the AFU, a flag in memory | set up, read counters, ping | counters wrap and are not read at once; the AFU may be found running; a spin without a timeout |

What each part should guarantee: the handle functions lose no descriptor,
mapping, context, IRQ or block and touch no one else's; MMIO mappings and
accesses end in the area and carry the right bytes; event collection neither
invents nor misattributes an interrupt, drops none but in a call that fails, does not block, and gets to
every source; the search takes the first device that has a context, keeps none on the
others and says why it fails; the process is initialised once; the queue makes the
AFU execute exactly what was posted; the programs report success only for finished work and failure only for a reason.

## The modules

| module | models | notes |
|---|---|---|
| `GrowBuffer` | `grow_buffer()`'s new count | with its narrowing to 16 bits |
| `ContextPool` | what open, attach and close promise about contexts | abstract: one step each |
| `AfuContext` | open, attach, map, unmap, IRQ allocation, close | one action per system call, but for the two loops of close; several handles interleaved, every call may fail |
| `AfuEvents` | event collection of one handle | AFU, kernel, `epoll_wait()` and each read are steps of their own |
| `MmioAccess` | map requests, `mmio_check()`, reads and writes | C arithmetic on a scaled width, host of either byte order |
| `WorkQueue` | the ring of work elements and the MEMCPY3 AFU | shared by the two programs |
| `MemcpySample` | `samples/memcpy/memcpy.c` | one copy, three ways of waiting |
| `MemcpyTest` | `afutests/memcpy/ocxl_memcpy.c` | processes, rounds, copy/increment/atomic, `-r`, `-S` |
| `Messages` | `libocxl_init()`, the flags, what a handle copies of them, `errmsg()` | the mutex and each flag are steps of their own |
| `AfuSearch` | the open calls over several devices | extends `Messages`; threads, other processes, device files that come and go |
| `Afp3` | `afutests/afp/ocxl_afp3.c`, `ocxl_afp3_latency.c` | both programs and the AFP3 AFU |
| `MCAfuContext`, `MCMmioAccess`, `MCMemcpyTest`, `MCAfuSearch`, `MCAfp3` | values of constants for TLC | |
| `AfuContextInvariant`, `AfuContextProofs` | proofs about `AfuContext` | the second extends the first |
| `MemcpyTestInvariant`, `MemcpyTestSteps`, `MemcpyTestProofs` | proofs about `MemcpyTest` | in this order, each extends the one before |
| `MmioAccessProofs`, `AfuEventsProofs`, `AfuSearchProofs` | proofs about the module of that name | |

`AfuContext` composes the handle, the MMIO table, the IRQ table and the kernel;
`AfuSearch` composes the open calls, the process-wide state and the devices;
`MemcpySample` and `MemcpyTest` compose a program with the queue and the AFU.
Definitions keep the names of the code (`irq_dealloc`, `mmio_check`,
`restart_afu`, ...).  A definition introduced as "Mutant of X" is a plausible
mistake in X; replacing X by it must break the property it is listed with in
`PROJECT.json`, which shows that the property depends on that code.

**AfuContext.**  `pc[h]` tells where a call on handle `h` stands, the other
functions of `h` are the members of `struct ocxl_afu` and its tables, and `fds`,
`maps`, `kirqs`, `kattached` are the kernel's side.  A failing call that changes
nothing (a failed attach, a `realloc()` that returns NULL, an open that fails
before anything is allocated) is a stuttering step.  The loops of `ocxl_afu_close()`
over the areas and over the IRQs are one step each (`CloseMmios`, `CloseIrqs`): the
calls in them touch only what the handle records and are never undone.  `heap` is a
set: a block that the code loses is moved to an orphan of its kind, and losing
another of that kind at the same handle changes nothing more.

**AfuEvents.**  `counter` is what the eventfds hold, `ptr` the block that epoll's
pointers lead into.  Reading through a pointer into a freed block may find
anything (`Finds`).  `owed`, `lost`, `pending` and `count`, the number of sources that
`epoll_wait()` gave, are history.

**MmioAccess.**  `HALF` stands for 2^63 and is 16 in the runs, so that sizes and
offsets wrap around within reach.  `expected` is history: the bytes the
application meant to store.

**WorkQueue.**  An element is a command byte (name, valid, wrap), a status and
operands.  `memcpy3_add_we()` is two steps, before and after its barrier.
`trouble` is history: a call failed or timed out, or the AFU reported an error.

**MemcpySample and MemcpyTest.**  The sample's `wait_for_irq()` takes one event per
step and remembers in `ret` that one of them was an error, at the three places it is
called from (`pc` is "irq", "poll" or "late").  In the test, `Reallocate` with `-S` moves
source and destination together, as they lie in one segment (`Source`).

**Messages and AfuSearch.**  `pc[t]` tells where the open call of thread `t` stands;
each thread has one handle at a time.  `inuse[d]` are the holders of device `d`'s
contexts.  `glob()` lists any of the matching files, since files come and go, and
`left[t]` is what is still to be tried; `ocxl_afu_open_from_dev()` is a list of one.
What the search does to a handle's descriptors and memory is in `AfuContext`, so one
step stands for `get_afu_by_path()` and one for what follows `open()`.  `asked`, `told`,
`quiet`, `said` and `refused` are history.

**Afp3.**  `reg` and `count` are the AFU's registers and counters, `Width` the bits of
a counter (2 in the run, so that counters wrap and "for ever" ends).  The programs
write the registers of `Writes` in their order.  `truth`, `zero`, `seen`, `pings`,
`pongs` and `late` are history.

## The runs

| run | instance | question | states |
|---|---|---|---|
| `afu_two` | 2 handles, 2 contexts, 2 addresses, 6 descriptors, 1 area each | do the handles keep apart, and do they implement `ContextPool`? | 133,186 |
| `afu_one` | 1 handle, 3 IRQs, 2 areas, 3 addresses, 6 descriptors, tables of 1 that grow | is everything accounted for through failures and re-use, do the tables hold it, and does closing return the context? | 186,932 |
| `events` | 2 IRQs, 2 unseen triggers each, 2 kernel events, arrays of 1 to 3 | is event collection exact and complete? | 56,101 |
| `mmio` | areas of 8 and 4 bytes, page 4, 2 areas mapped at a time | are requests and accesses checked, are bytes right? | 20,524 |
| `memcpy_test` | 1 process, 3 rounds, every kind of work and completion, buffers that stay or move; 2 processes with the lock; any `fork()` may fail | does the test pass exactly when it should? | 75,100 |
| `memcpy_sample` | the three ways of waiting | is success real, does the program end? | 1,128 |
| `afu_search` | 2 threads, 2 cards of one context, 1 other process, 1 switch of messages | is the process initialised once, is the right device taken, is every failure said, does every call return? | 220,128 |
| `afp3` | 8 command lines, 4 counted events, counters of 2 bits | are the readings right, does the AFU run as asked, are pings and answers paired, do the programs end? | 801,654 |

The bounds are the smallest at which the cases of interest happen.  Two handles
are needed for one to get what the other closes; six descriptors let both be
opened in full and run out.  Three IRQ slots with a table that starts at one
let it grow twice (1, 2, 4), and two areas leave holes; three addresses are enough for
all the IRQs, or for both areas and an IRQ, so that `mmap()` also runs out in between.  Two IRQs with an array of one make `epoll_wait()`
choose; an array of three has room for both and the device descriptor.  A ring of five takes at most four elements per round, so that three
rounds pass its end at different elements and come to slots of the first lap.
Two processes are enough for a lost increment, one round each; the ring passing
its end is a matter of one process.  Two threads are enough for a race through
`libocxl_init()`; two cards of one context with one other process let the first card
be full, or become free too late, and the second be taken or full as well; the
environment asks for the contrary of what the application asks for, so that it
shows which of them came last.  Four counted events bring a two bit counter
round, and up to two loops of readings lie between them.  `afu_two` uses symmetry over handles,
contexts and addresses (its properties are safety properties) and a view without
`heap`, which no guard and none of its properties reads; heap is the matter of
`afu_one`.  Where CHECK_DEADLOCK is FALSE the system may stop: no descriptor is
left in `AfuContext`, and the programs end.

What the properties say:

- `DescriptorLedger`, `MappingLedger`, `IrqLedger`, `HeapLedger`: what the kernel
  (or the heap) has is exactly what the handles record, between any two system
  calls.  `HeapLedger` names the blocks that the code does lose (see Findings) and
  shows that they are the only ones: after a close only orphans are left.
  `DescriptorLedger` is checked with eventfds in `afu_one` and between two handles in
  `afu_two`.
- `TablesHoldTheirEntries`: what is in use lies in the part of a table that its count
  remembers, through every growth.
- `ContextsAreHeld`, `PerPasidIsAttached`, `CloseReturnsContext`: a context is alive
  exactly while one handle holds it, per-PASID areas belong to attached contexts,
  and a close that has begun gives the context back.
- `ImplementsContextPool`: refinement; `holder` is the context behind a handle's
  descriptor, every system call maps to a step of the pool or to none.
- `InterruptsAccounted`, `NeverBlocks`, `LeftOutOnlyWhenFull`, `IrqsAreCollected`: what
  was triggered is in an eventfd, reported, or `lost` in a call that returned -1 after it
  had read it; no read of an empty eventfd; an IRQ that was ready is left out only
  if `event_count` sources were taken before it; and every IRQ is reached.
- `RegionsInArea`, `AccessesEndInRegion`, `ReadsAreFaithful`, `HandlesStandForTheirArea`:
  nothing outside an area is mapped; `mmio_check()` refuses exactly the accesses that
  reach past the end of a region, for every `off_t`; bytes are read as they were
  written; a handle leads to its area.
- `RunsWhatWasPosted`, `PassMeansDone`, `FailsOnlyInTrouble`, `Succeeds` for the
  test; `SuccessMeansDone`, `FailsForAReason`, `Terminates` for the sample.
  `PassMeansDone` speaks of the processes that were forked.  `FailsForAReason`
  excepts a `wake_host_thread` that ends with status 0x11: the AFU was given an IRQ to
  raise instead (`memcpy.c:467`), and the sample fails all the same.  `Terminates` is
  about the AFU as modelled, which may work, fail or do nothing and interrupts at most
  once per element: `wait_for_irq()` (`memcpy.c:216-250`) loops as long as there are
  events and has no bound of its own.
- `HandlesFollowEnvironment`, `LastWordStands`, `FailuresAreSaid`: a handle starts with
  what the environment says, also in a race for the first open;
  `ocxl_enable_messages()` has the last word after initialisation; the error a
  failing open returns is the last one that was said.
- `ContextsAreAccounted`, `FirstWithContexts`, `CallsReturn`: no context is kept on a
  device that was passed over, each device listed before the one taken was full
  when tried, and every open call returns.
- `SamplesAreSound`, `AfuRunsAsAsked`, `PingsAreAnswered`, `Terminates` for the AFP
  tests: differences of counters that wrap are what was counted between the two
  reads; the AFU is on only with the settings of this run, every register among
  `Settings` (but for `LeftRunning`, below, and without the PASID and `misc`
  registers, which not every command line writes);
  every reported iteration is one ping and its answer; the spin ends.

### Fairness

- `afu_one`: a call on a handle that has begun goes on to its next system call;
  code that is running is scheduled.
- `events`: the application goes on calling; a read that is possible again and
  again succeeds in the end (strong fairness: errors are not permanent); kernel
  events are finitely many.  `epoll_wait()` is taken to serve a source it left out
  before those it has returned since (`overdue`), as Linux rotates its ready list.
- `memcpy_test`: processes are scheduled and the AFU works on.  No failure is
  forced, and `Succeeds` speaks of behaviours without trouble.
- `memcpy_sample`: the program is scheduled and time passes, so that a timeout that
  can expire again and again does.  Nothing is assumed of the AFU.
- `afu_search`: a thread in an open call is scheduled; a mutex that is free and not
  taken again is got.  Nobody need open, close, or set anything.
- `afp3`: the program is scheduled, and the AFU answers a ping: the code polls the flag
  without a timeout, so nothing less would do.

## Findings

Four are runs that TLC ends with a counterexample; each quotes the line it
contradicts.

| run | where | what |
|---|---|---|
| `events_overflow` | `src/irq.c:432` | draining the device descriptor writes more events than fit in the array |
| `mmio_moved` | `src/mmio.c:84` | MMIO handles are pointers into a table which `realloc()` may move |
| `memcpy_irq_race` | `samples/memcpy/memcpy.c:523` | with `-i` the sample looks at the interrupt's status without waiting for it, and may report a failure of a copy that succeeded |
| `afu_search_ends` | `src/afu.c:610` | a device file that fails for another reason than a full device ends the search with OCXL_NO_DEV, although devices behind it have not been tried |

The passing runs `events` and `mmio` keep the number of IRQs and areas within the
first allocation of the table (64 IRQs, 4 areas in the code), so that they show
what holds there; `mmio_moved` starts the table at one.

Four more are disagreements with a document that a passing run meets: the property
states what the code does, and the finding quotes what the document says.

| run, property | where | what |
|---|---|---|
| `afu_two`, `PerPasidIsAttached` | `src/mmio.c:216` | a per-PASID area cannot be mapped before the context is attached, while the program steps of `README.md:66-73` map it (step 5) before they attach (step 6): in that order the map fails with OCXL_NO_CONTEXT |
| `afu_one`, `HeapLedger` | `src/afu.c:698` | not "All resources associated with the handle are closed and freed" (`src/afu.c:690`, and `README.md:82`): the table of MMIO areas is never freed; if `open()` of the device fails, the clean-up call returns at once because `fd` is -1 (`src/afu.c:541`, `694`) and the handle and its paths stay; `device_path` stays if there is no memory for `sysfs_path` (`src/afu.c:370`) |
| `events`, `LeftOutOnlyWhenFull` | `src/irq.c:424` | "if this is the same as event_count, you should call ocxl_afu_event_check again" (`src/irq.c:392`) is not enough: an ignored kernel event or an unreadable eventfd takes a place of the array and is not counted, so a smaller number can be returned although an IRQ was left out |
| `mmio`, `AccessesEndInRegion` | `src/mmio.c:451` | the offset "must be lower than the MMIO size (-4 bytes)" (`src/mmio.c:473`), but the last word is accepted, and rightly; a negative offset is not refused, and no document rules it out |

More, plain from the source and visible in the models:

- epoll holds pointers into the IRQ table (`src/irq.c:134`), which may move when it
  grows, as the MMIO table does in `mmio_moved`.  From the 65th IRQ on, an event
  is therefore not sure to be "identifying which IRQ was triggered" (`src/irq.c:381`);
  no run has a table that moves under epoll, since `Finds` then allows anything.
- If reading the device descriptor fails, `ocxl_afu_event_check()` returns -1 and the
  counts it had already read from eventfds are gone (`src/irq.c:443`): these are
  the interrupts that `InterruptsAccounted` finds in `lost`.
- `ocxl_irq_get_handle()` compares with `>` where IRQ numbers start at 0
  (`src/irq.c:199`).
- `ocxl_enable_messages(0)` before the first open is overridden by `libocxl_init()`,
  although the environment is to count "unless explicitly disabled"
  (`README.md:97`, `99`); `LastWordStands` therefore speaks of calls that begin after
  the initialisation.
- `ocxl_afp3` sets the registers of an AFU that an earlier run may have left on and
  turns it off only at the end; `ocxl_afp3_latency` turns it off first.
  `LeftRunning` excepts from `AfuRunsAsAsked` an AFU that the former found running, until
  it has written the enable register: that it runs with a mixture of old and new
  settings meanwhile is what the code does.  `ocxl_afp3_latency` writes neither the
  PASID register nor, for pings of 8 bytes, the `misc` register, and runs with what it finds there.
- `ocxl_afp3_latency` looks at `flag_stop` only between two pings: without an answer the
  signal does not end it (`ocxl_afp3_latency.c:110`), as `Terminates` needs the AFU to
  answer.  Its `ping_OVER_8B()` is disabled and reports one iteration.
- `main()` of the memcpy test does not look at what `fork()` returns
  (`ocxl_memcpy.c:815`): with some processes missing it can say "Test successful", and
  with none it judges an uninitialised status (`Main`).  With `-S -r` the source is in
  the memory that is allocated anew, so that from the second round on zeros are
  compared with zeros; with `-S` alone the destination is private memory (`:398`).
- The help of `ocxl_afp3` gives the default of `--offsetmask` as 512kB, the code has
  4MB; `--npu_ld` and `--npu_st` are described there and not accepted; numbers of
  tags of 8 and more are not refused and reach into the neighbouring fields of the
  work element descriptor.  The runs take what the help allows.

## The proofs

`AfuContextProofs` proves for any number of handles, contexts, addresses,
descriptors, IRQs and areas: `TypesHold`, `DescriptorsAreAccountedFor`,
`MappingsAreAccountedFor`, `IrqsAreAccountedFor`, `ContextsAreAccountedFor`,
`AttachedBeforePerPasid`, `ContextPoolImplemented` (the refinement),
`HeapIsAccountedFor` and `TablesAreLargeEnough`.

The ledgers alone are not inductive: a step of `ocxl_afu_close()` that forgets a
descriptor is right only because of what the earlier steps have already released.
`IInv` adds three things:

- `Shapes`: at each place in a call, which members are still unset or already
  cleared; beyond `irq_count` only the slot being allocated may be in use;
  `MAP_FAILED` is recorded only on the error path.
- `OwnContext`: two handles never have the same context.
- `DeadIsEmpty`: the kernel keeps no IRQ and no attachment of a context that is
  not alive, so that a context handed out again starts afresh.

The proof has one lemma per action: the invariant, the steps that do not talk to the
kernel and those that take a descriptor are in `AfuContextInvariant`; attaching,
taking IRQs and mappings, and everything that gives back, in `AfuContextProofs`.
`IInv` was first checked by TLC as an invariant of two small instances (32,404 and
390,844 states).  The heap needs `HeapShapes` on top of `IInv`: which blocks are
allocated at each place in a call, and that no count outlives its table.  `TablesAreLargeEnough` has the hypothesis
`FitsUint16`: twice the count of a full table but one is still a `uint16_t`, which allows
up to 32768 IRQs and areas of a handle; with more, `grow_buffer()` stores a count of
0 and the property fails.

The assumptions are `BoundsAssumption` and `NamesAssumption` (bounds are naturals,
initial counts are not zero, NULL and MAP_FAILED are no addresses, UINT32_MAX is
no PASID) and `RangeAssumption` of `GrowBuffer`.

`MmioAccessProofs` proves for areas of every length and integers of every width:
`MappedWithinTheArea` (no request, however it wraps around, maps anything outside
the area), `AccessesAreChecked` (on what can be mapped, and for every `off_t`, `mmio_check()` refuses
exactly what reaches past the end),
`HandlesAreGood` (handles stand for their area as long as at most
`INITIAL_MMIO_COUNT` areas are mapped at a time: the table is then allocated once
and never moves), `ReadsReturnWhatWasWritten` under the same hypothesis, and
`MmioTypesHold` without it.  `ReadsReturnWhatWasWritten` rests on the former: its
invariant `FaithfulInv` says that the handles are good and that the area is, byte by
byte, what the application meant to store.  What has to be shown is that the
conversion the library makes, which depends on the host's byte order and on the one
asked for, ends in the byte order asked for (`ConversionsAgree`); reversing twice is
no change (`ReversedType`).  `MmioAssumption` says what values are: sequences of
bytes of one of the widths of the access functions.

`AfuEventsProofs` proves for any number of IRQs, triggers, kernel events and sizes of
the array: `EventTypesHold`, `InterruptsAreAccounted`, `CheckNeverBlocks` and
`OnlyAFullArrayLeavesOut`.  All have the hypothesis `TableSuffices`, that the IRQs fit in
the first allocation of the table (64 in the code), without which epoll's pointers
may be stale.  The inductive invariant `EInv` adds that the table stays where it is,
that everything in the batch of `epoll_wait()` is still ready, because only the loop
itself takes from an eventfd, and that between two calls nothing is kept; the last
theorem counts places: a batch smaller than the array has left no ready source out.

`AfuSearchProofs` proves for any threads, devices, capacities, other processes,
environments and requests: `SearchTypesHold`, `ContextsAccounted`, `SearchFindsFirst`,
`HandlesFollow`, `WordStands` and `FailuresSaid`.  The invariants are

- `SearchShapes`: the devices tried so far are those listed that are no longer `left`,
  in order, each of them refused, and a call holds a context only of the device
  whose turn it is;
- `InitOnce`: the thread between the lock and the unlock of `libocxl_init()` is the one
  that holds the mutex, nobody is past it before it is done, and once it is done the
  `_all` flags are what the environment says;
- and, from these, what a handle's members are (`MembersShapes`), that nobody applies the environment after a
  call counts as asked (`WordShape`), and that the error about to be returned has
  been said (`HeardAll`).

The assumptions are `NoThreadAssumption`, `MessagesAssumption` and `DevsAssumption` (the
devices are numbered, capacities are naturals, other processes are not threads).

`MemcpyTestProofs` proves for any number of processes and rounds, every choice of
options and every length of queue that holds a round: `TestTypes`,
`TestRunsWhatWasPosted`, `TestPassMeansDone` and `TestFailsOnlyInTrouble`.  The
invariant `TestInv` follows one process round the ring, and then what the processes
share:

- `Place`, `Ring`: `Posted` is how many elements of the round the process has added
  and `Done` how many the AFU is through with, which its slot and wrap bit tell;
  `Done` never passes `Posted`, is 0 while elements are still being added (the first
  one is made valid last), and has reached `Posted` when the process goes on to the
  check.
- `Laps`: a valid element carries the wrap bit of the lap it was added in, so the AFU
  stops at what the previous lap left.
- `RoundElements`, `Fetched`: the elements not yet executed, and the one the AFU has
  fetched, have the commands and operands of the current round.
- `Errors`, `Interrupts`, `Buffers`, `Data`: an error status comes with trouble;
  without trouble an interrupt is there only between its element and the wait for it,
  and the data is what the check after the round expects.
- `Shared`: without trouble at most one process holds the lock, from its compare and
  swap to its copy of 0, what the AFU has loaded for an increment is still the
  counter, and the counter is the number of increments so far.  These are counted as
  a set of pairs of a process and a round (`Increments`), to which a step adds one
  pair or none; when all have passed, the set is the product of the processes and the
  rounds.
- `Judged`, `Clean`: what `main()` has said was true when it said so, and a process
  that passed has no event left.

`MemcpyTestInvariant` has the invariant and the steps of the process,
`MemcpyTestSteps` those of the AFU and that a step of one process writes only what is
its own or shared (`Tidy`), `MemcpyTestProofs` what is shared, and the theorems.
`TestInv` was first checked by TLC on the instance of `memcpy_test` (75,100 states).
The assumptions are `TestAssumption` (finitely many processes, options that `main()`
accepts, a queue of at least the four elements of the longest round) and
`QueueAssumption`.

A leaf that does not need arithmetic names Zenon, one that does names the SMT solver
twice (`SMTT(30), Z3T(30)`): in the long modules the prover may run out of its time
for translating an obligation, and the second attempt then succeeds.

Checked by TLC only: the safety properties of `Afp3` and `MemcpySample`, which no
theorem states yet; and everything that needs fairness (`CloseReturnsContext`,
`IrqsAreCollected`, `CallsReturn`, `Succeeds`, `Terminates`), which is out of the
prover's reach.

## Assumptions and what is left out

- One call at a time per handle.  Different handles are used by different threads.
- The kernel, epoll, `mmap()` and the AFU are not in the repository and are modelled
  as the code uses them: `open()` takes the lowest free descriptor; freeing an IRQ
  that exists succeeds; attaching again changes nothing.
- The MEMCPY3 AFU takes elements in order if valid and wrap bit fit, writes the
  status of an element last, signals an error before that, has stopped when its
  interrupt arrives, repeats a compare and swap until it succeeds, and increments by
  a load and a store.  After an error it may stop or go on.
- `mmio_check()` is modelled for every offset; reads and writes of bytes are modelled
  for aligned offsets from 0 up.  Handles
  that were unmapped are not used again.  Protection bits and the flags argument
  are left out.
- The timeout of `ocxl_afu_event_check()` is not modelled: it may return with
  nothing at any time.  So is the sample's `-t 0`, with which `wait_for_irq()` returns
  at once as if the interrupt had come.
- In the memcpy test what `main()` does before it forks is left out (options,
  `global_setup()`, which rearms the traces of the AFU, the first `shm_create()`), and so
  are `-I`, which writes zeros to pages of zeros, and a `shm_create()` that fails between
  two rounds, whose result the code does not look at.  A translation fault and the error interrupt are one event,
  as both programs only give up on either.
- Entries of `/dev/ocxl` and sysfs are what their names say: the parsing of a name is
  one step that succeeds or fails.
- The AFP3 AFU counts only when it is on and not in ping-pong mode, clears its counters
  when the control register is written, and answers a write of the enable register
  in ping-pong mode with one store of a non-zero word.  Pings for ever (`-f`) end in the
  run because their number, like a counter, has two bits there.
- Not modelled: getters (no state change); setting an error handler (one assignment
  of a pointer); `ocxl_err_to_string()` and the text of messages; parsing of options and
  printed rates of the programs; `ocxl_afu_get_p9_thread_id()` and `ocxl_wait()`, which
  have no library state; two threads that collect events of the same handle
  (`src/irq.c:401`), which nothing in the repository says is allowed; the unit tests and
  their virtual device, which are a test driver and were read as a statement of what
  the library should do.

------------------------------- MODULE AfuEvents -------------------------------
(***************************************************************************)
(* Events of one AFU handle: IRQs that the AFU triggers count up in an     *)
(* eventfd each, translation faults queue up on the device descriptor, and *)
(* ocxl_afu_event_check() collects both through epoll, while the AFU goes  *)
(* on triggering.  epoll remembers, for each IRQ, a pointer into the       *)
(* handle's IRQ table, which ocxl_irq_alloc() may move when it grows it.   *)
(***************************************************************************)
EXTENDS GrowBuffer, FiniteSets

CONSTANTS
  MaxIrqs,              \* bound: IRQs allocated
  MaxOwed,              \* bound: triggers of an IRQ the application has not seen
  MaxFaults,            \* bound: kernel events in all
  MaxEventCount,        \* bound: the largest event_count
  INITIAL_IRQ_COUNT,
  OCXL                  \* the device descriptor as an epoll source

Irqs    == 0 .. MaxIrqs - 1
Sources == Irqs \cup {OCXL}

ASSUME EventBounds ==
  /\ MaxIrqs \in Nat /\ MaxOwed \in Nat /\ MaxFaults \in Nat /\ MaxEventCount \in Nat
  /\ INITIAL_IRQ_COUNT \in Nat \ {0}
  /\ OCXL \notin Nat

VARIABLES
  irqs,                 \* which block realloc() last returned, 0 for NULL
  irq_count, irq_max_count,
  ptr,                  \* per IRQ, the block its epoll data.ptr points into
  counter,              \* per IRQ, the eventfd's count
  queued, faults,       \* kernel events waiting, and how many there have been
  overdue,              \* ready sources that epoll_wait() left out last time
  pc,
  epoll_event_count, event_count,
  count,                \* what epoll_wait() returned
  batch,                \* epoll_events[event ..]: what is still to be handled
  triggered, reported,  \* events[]: how many, and the counts under each IRQ number
  pending,              \* history: the IRQs that had triggered at epoll_wait(),
                        \* but for those whose eventfd could not be read
  owed, lost            \* history: triggers not returned yet; dropped by a -1

tableVars == <<irqs, irq_count, irq_max_count, ptr>>
callVars  == <<epoll_event_count, event_count, count, pending>>
arrayVars == <<triggered, reported>>
vars == <<tableVars, counter, queued, faults, overdue, pc, callVars, batch, arrayVars, owed, lost>>

-------------------------------------------------------------------------------
(* The AFU and the kernel.                                                  *)

TriggerIrq(i) ==
  /\ i < irq_count
  /\ owed[i] < MaxOwed
  /\ counter' = [counter EXCEPT ![i] = @ + 1]
  /\ owed' = [owed EXCEPT ![i] = @ + 1]
  /\ UNCHANGED <<tableVars, queued, faults, overdue, pc, callVars, batch, arrayVars, lost>>

KernelEvent ==
  /\ faults < MaxFaults
  /\ faults' = faults + 1
  /\ queued' = queued + 1
  /\ UNCHANGED <<tableVars, counter, overdue, pc, callVars, batch, arrayVars, owed, lost>>

Ready == {i \in Irqs : counter[i] > 0} \cup (IF queued > 0 THEN {OCXL} ELSE {})

\* epoll_wait() returns up to n ready sources, and a source it had to leave
\* out comes before the ones it has returned since.
EpollWait(n, S) ==
  /\ S \in SUBSET Ready
  /\ S = Ready \/ Cardinality(S) = n
  /\ Cardinality(S) <= n
  /\ LET late == overdue \cap Ready
     IN  /\ late \subseteq S \/ S \subseteq late
         /\ overdue' = IF late \subseteq S THEN Ready \ S ELSE late \ S

-------------------------------------------------------------------------------
(* ocxl_irq_alloc(), in one step: nothing else can use the table meanwhile. *)

\* realloc() may return the block it was given, or another.
IrqAlloc(ok, moved) ==
  /\ pc = "idle"
  /\ irq_count < MaxIrqs
  /\ IF irq_count = irq_max_count
     THEN /\ irqs' = IF moved \/ irqs = 0 THEN irqs + 1 ELSE irqs
          /\ irq_max_count' = ToUint16(new_count(irq_max_count, INITIAL_IRQ_COUNT))
     ELSE UNCHANGED <<irqs, irq_max_count>>
  /\ irq_count' = IF ok THEN irq_count + 1 ELSE irq_count
  /\ ptr' = IF ok THEN [ptr EXCEPT ![irq_count] = irqs'] ELSE ptr
  /\ UNCHANGED <<counter, queued, faults, overdue, pc, callVars, batch, arrayVars, owed, lost>>

\* What the code can find behind the epoll pointer of a source: the descriptor
\* to read and the IRQ number to report.  In a block that realloc() has freed
\* it can find anything, a zero type (EPOLL_SOURCE_OCXL) included.
Finds(s) ==
  CASE s = OCXL                    -> {<<OCXL, OCXL>>}
    [] s # OCXL /\ ptr[s] = irqs   -> {<<s, s>>}
    [] s # OCXL /\ ptr[s] # irqs   -> (Irqs \X Irqs) \cup {<<OCXL, OCXL>>}

-------------------------------------------------------------------------------
(* ocxl_afu_event_check_versioned().                                        *)

\* Room for n epoll events, then epoll_wait().
EventCheck(n) ==
  /\ pc = "idle"
  /\ n > 0
  /\ epoll_event_count' = IF n > epoll_event_count THEN n ELSE epoll_event_count
  /\ event_count' = n
  /\ \E S \in SUBSET Sources : EpollWait(n, S) /\ batch' = S /\ count' = Cardinality(S)
  /\ pending' = {i \in Irqs : counter[i] > 0}
  /\ triggered' = 0
  /\ reported' = [i \in Irqs |-> 0]
  /\ pc' = "loop"
  /\ UNCHANGED <<tableVars, counter, queued, faults, owed, lost>>

\* No memory for the epoll events, or epoll_wait() fails (with EINVAL if n is 0).
EventCheckFails(n) ==
  /\ pc = "idle"
  /\ epoll_event_count' \in {IF n > epoll_event_count THEN 0 ELSE epoll_event_count,
                             IF n > epoll_event_count THEN n ELSE epoll_event_count}
  /\ UNCHANGED <<tableVars, counter, queued, faults, overdue, pc, event_count, count, pending,
                 batch, arrayVars, owed, lost>>

\* Mutant of Dispatch: the loop handles the same epoll event again.
DispatchAgain(s) ==
  /\ pc = "loop"
  /\ s \in batch
  /\ \E f \in Finds(s) :
       \/ /\ f[1] = OCXL
          /\ pc' = "drain"
          /\ UNCHANGED <<counter, triggered, reported>>
       \/ /\ f[1] # OCXL
          /\ counter[f[1]] > 0
          /\ reported' = [reported EXCEPT ![f[2]] = @ + counter[f[1]]]
          /\ triggered' = triggered + 1
          /\ counter' = [counter EXCEPT ![f[1]] = 0]
          /\ UNCHANGED pc
  /\ UNCHANGED <<tableVars, queued, faults, overdue, callVars, batch, owed, lost>>

\* Mutant of Dispatch: the eventfd is looked at but not read.
DispatchPeek(s) ==
  /\ pc = "loop"
  /\ s \in batch
  /\ batch' = batch \ {s}
  /\ \E f \in Finds(s) :
       \/ /\ f[1] = OCXL
          /\ pc' = "drain"
          /\ UNCHANGED <<triggered, reported>>
       \/ /\ f[1] # OCXL
          /\ counter[f[1]] > 0
          /\ reported' = [reported EXCEPT ![f[2]] = @ + counter[f[1]]]
          /\ triggered' = triggered + 1
          /\ UNCHANGED pc
  /\ UNCHANGED <<tableVars, counter, queued, faults, overdue, callVars, owed, lost>>

\* Mutant of Dispatch: once an event is filled in, the loop passes over the IRQs left.
DispatchFirstOnly(s) ==
  /\ pc = "loop"
  /\ s \in batch
  /\ batch' = batch \ {s}
  /\ \E f \in Finds(s) :
       \/ /\ f[1] = OCXL
          /\ pc' = "drain"
          /\ UNCHANGED <<counter, triggered, reported>>
       \/ /\ f[1] # OCXL
          /\ counter[f[1]] > 0
          /\ IF triggered > 0 THEN UNCHANGED <<counter, triggered, reported>>
             ELSE /\ reported' = [reported EXCEPT ![f[2]] = @ + counter[f[1]]]
                  /\ triggered' = triggered + 1
                  /\ counter' = [counter EXCEPT ![f[1]] = 0]
          /\ UNCHANGED pc
  /\ UNCHANGED <<tableVars, queued, faults, overdue, callVars, owed, lost>>

\* One turn of the loop over epoll_events: for an IRQ, read() empties its
\* eventfd (and would block on an empty one) and the event is filled in.
Dispatch(s) ==
  /\ pc = "loop"
  /\ s \in batch
  /\ batch' = batch \ {s}
  /\ \E f \in Finds(s) :
       \/ /\ f[1] = OCXL
          /\ pc' = "drain"
          /\ UNCHANGED <<counter, triggered, reported>>
       \/ /\ f[1] # OCXL
          /\ counter[f[1]] > 0
          /\ reported' = [reported EXCEPT ![f[2]] = @ + counter[f[1]]]
          /\ triggered' = triggered + 1
          /\ counter' = [counter EXCEPT ![f[1]] = 0]
          /\ UNCHANGED pc
  /\ UNCHANGED <<tableVars, queued, faults, overdue, callVars, owed, lost>>

\* read() of the eventfd fails or is short: the loop goes on with the next one.
IrqReadFails(s) ==
  /\ pc = "loop"
  /\ s \in batch \ {OCXL}
  /\ batch' = batch \ {s}
  /\ pending' = pending \ {s}
  /\ UNCHANGED <<tableVars, counter, queued, faults, overdue, pc, epoll_event_count, event_count, count,
                 triggered, reported, owed, lost>>

\* Mutant of ReadAfuEvent: an ignored event gives back a place it was never given.
ReadAfuEventGivesBack(known, last) ==
  /\ pc = "drain"
  /\ queued > 0
  /\ last => queued = 1
  /\ queued' = queued - 1
  /\ triggered' = IF known THEN triggered + 1 ELSE triggered - 1
  /\ pc' = IF last THEN "loop" ELSE "drain"
  /\ UNCHANGED <<tableVars, counter, faults, overdue, callVars, batch, reported, owed, lost>>

\* read_afu_event() reads one event, which is populated (known) or ignored;
\* the kernel may flag the last event it has, and the flag ends the loop.
ReadAfuEvent(known, last) ==
  /\ pc = "drain"
  /\ queued > 0
  /\ last => queued = 1
  /\ queued' = queued - 1
  /\ triggered' = IF known THEN triggered + 1 ELSE triggered
  /\ pc' = IF last THEN "loop" ELSE "drain"
  /\ UNCHANGED <<tableVars, counter, faults, overdue, callVars, batch, reported, owed, lost>>

\* read() gives EAGAIN.
NoMoreEvents ==
  /\ pc = "drain"
  /\ queued = 0
  /\ pc' = "loop"
  /\ UNCHANGED <<tableVars, counter, queued, faults, overdue, callVars, batch, arrayVars, owed, lost>>

\* read_afu_event() fails: an unsupported API version, a failed read, or an
\* event of the wrong size, which is consumed.  The call returns -1 at once.
ReadAfuEventFails(consumed) ==
  /\ pc = "drain"
  /\ consumed => queued > 0
  /\ queued' = IF consumed THEN queued - 1 ELSE queued
  /\ lost' = [i \in Irqs |-> lost[i] + reported[i]]
  /\ reported' = [i \in Irqs |-> 0]
  /\ triggered' = 0
  /\ batch' = {}
  /\ pc' = "idle"
  /\ UNCHANGED <<tableVars, counter, faults, overdue, callVars, owed>>

\* Mutant of Return: the loop stops at the first event it has filled in.
ReturnEarly ==
  /\ pc = "loop"
  /\ batch = {} \/ triggered > 0
  /\ owed' = [i \in Irqs |-> owed[i] - reported[i]]
  /\ batch' = {}
  /\ pc' = "returned"
  /\ UNCHANGED <<tableVars, counter, queued, faults, overdue, callVars, arrayVars, lost>>

\* The call returns triggered, and the application sees events[].
Return ==
  /\ pc = "loop"
  /\ batch = {}
  /\ owed' = [i \in Irqs |-> owed[i] - reported[i]]
  /\ pc' = "returned"
  /\ UNCHANGED <<tableVars, counter, queued, faults, overdue, callVars, batch, arrayVars, lost>>

\* The application has used events[] and the array is free for the next call.
Consume ==
  /\ pc = "returned"
  /\ reported' = [i \in Irqs |-> 0]
  /\ triggered' = 0
  /\ pending' = {}
  /\ pc' = "idle"
  /\ UNCHANGED <<tableVars, counter, queued, faults, overdue, epoll_event_count, event_count, count,
                 batch, owed, lost>>

-------------------------------------------------------------------------------
Init ==
  /\ irqs = 0 /\ irq_count = 0 /\ irq_max_count = 0
  /\ ptr = [i \in Irqs |-> 0]
  /\ counter = [i \in Irqs |-> 0]
  /\ queued = 0 /\ faults = 0
  /\ overdue = {}
  /\ pc = "idle"
  /\ epoll_event_count = 0 /\ event_count = 0 /\ count = 0
  /\ batch = {}
  /\ triggered = 0
  /\ reported = [i \in Irqs |-> 0]
  /\ pending = {}
  /\ owed = [i \in Irqs |-> 0]
  /\ lost = [i \in Irqs |-> 0]

Next ==
  \/ \E i \in Irqs : TriggerIrq(i)
  \/ KernelEvent
  \/ \E ok, moved \in BOOLEAN : IrqAlloc(ok, moved)
  \/ \E n \in 0 .. MaxEventCount : EventCheck(n) \/ EventCheckFails(n)
  \/ \E s \in Sources : Dispatch(s) \/ IrqReadFails(s)
  \/ \E known, last \in BOOLEAN : ReadAfuEvent(known, last)
  \/ NoMoreEvents
  \/ \E consumed \in BOOLEAN : ReadAfuEventFails(consumed)
  \/ Return
  \/ Consume

Spec == Init /\ [][Next]_vars

\* The application keeps calling, and reads of what is readable do not fail forever.
FairSpec ==
  /\ Spec
  /\ WF_vars(\E n \in 1 .. MaxEventCount : EventCheck(n))
  /\ WF_vars(NoMoreEvents \/ Return \/ Consume)
  /\ \A s \in Sources : SF_vars(Dispatch(s))
  /\ SF_vars(\E known, last \in BOOLEAN : ReadAfuEvent(known, last))

-------------------------------------------------------------------------------
TypeOK ==
  /\ irqs \in Nat /\ irq_count \in 0 .. MaxIrqs /\ irq_max_count \in Nat
  /\ ptr \in [Irqs -> Nat]
  /\ counter \in [Irqs -> Nat]
  /\ queued \in Nat /\ faults \in Nat
  /\ overdue \subseteq Sources
  /\ pc \in {"idle", "loop", "drain", "returned"}
  /\ epoll_event_count \in Nat /\ event_count \in Nat /\ count \in Nat
  /\ batch \subseteq Sources
  /\ triggered \in Nat
  /\ reported \in [Irqs -> Nat]
  /\ pending \subseteq Irqs
  /\ owed \in [Irqs -> Int]
  /\ lost \in [Irqs -> Nat]

\* Every trigger of an IRQ is in one place: still counted by its eventfd, in
\* events[] under that IRQ's own number, or consumed by a call that then
\* returned -1.  None is reported twice, under another IRQ or not at all,
\* however the AFU's triggers fall between epoll_wait() and the reads.
InterruptsAccounted ==
  \A i \in Irqs :
    owed[i] = counter[i] + lost[i] + (IF pc = "returned" THEN 0 ELSE reported[i])

\* The loop never blocks: the eventfds are opened without EFD_NONBLOCK, so
\* each IRQ it is still to read must have a count, whatever was read since
\* epoll_wait().
NeverBlocks ==
  pc \in {"loop", "drain"} =>
    \A s \in batch : \A f \in Finds(s) : f[1] # OCXL => counter[f[1]] > 0

\* Only epoll_wait() leaves an IRQ out, and only when it has filled its array: an
\* IRQ that had triggered when the call looked, and could be read, is reported
\* unless event_count sources were taken before it.  (The number returned does
\* not tell the caller so, as "if this is the same as event_count, you should
\* call ocxl_afu_event_check again" has it: a kernel event that is ignored, or an
\* eventfd that cannot be read, takes a place and is not counted.)
LeftOutOnlyWhenFull ==
  pc = "returned" /\ count < event_count => \A i \in pending : reported[i] > 0

\* An IRQ that has triggered is collected, even if the application asks for
\* one event at a time and other sources never rest.
IrqsAreCollected == \A i \in Irqs : counter[i] > 0 ~> counter[i] = 0

\* "event_count the number of events that can fit into the events array": the
\* call fills in no more.
EventsFit == triggered <= event_count

================================================================================

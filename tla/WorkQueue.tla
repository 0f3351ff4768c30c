------------------------------- MODULE WorkQueue -------------------------------
(***************************************************************************)
(* The queue of work elements that a process shares with the MEMCPY3 AFU.  *)
(* The host side is memcpy3_init_weq() and memcpy3_add_we(), the same in   *)
(* the sample and in the test program.  The AFU side is not in the         *)
(* repository: it is what the two programs rely on.  The AFU takes the     *)
(* elements in order, one whose valid bit is set and whose wrap bit is the *)
(* one of the current lap; it writes the status of an element last; it     *)
(* stops when it sends an interrupt, until it is restarted; and an         *)
(* interrupt may arrive before the status of its element is written.       *)
(***************************************************************************)
EXTENDS Integers, Sequences

CONSTANTS
  Procs,          \* processes, each with a context and a queue of its own
  QueueLength

ASSUME QueueAssumption == QueueLength \in Nat \ {0}

VARIABLES
  queue, next, wrap,      \* struct memcpy_weq; the memory of the queue is shared
  engine,                 \* the AFU's side of each context
  irqs,                   \* the IRQs that ocxl_afu_event_check() would report
  mem,                    \* the buffers, the lock and the counter
  trouble                 \* history: a call failed or timed out, or the AFU reported an error

queueVars == <<queue, next, wrap>>
afuVars   == <<engine, irqs, mem>>

-------------------------------------------------------------------------------
Slots    == 0 .. QueueLength - 1
Commands == {"copy", "irq", "stop", "wake", "increment", "atomic"}
Irqs     == {"afu", "err"}

\* What is in memory: the buffers of each process, and what they share.
Src(p)  == <<p, "src">>
Dst(p)  == <<p, "dst">>
NewSrc(p) == <<p, "new src">>
NewDst(p) == <<p, "new dst">>
Lock    == <<"shared", "lock">>
Counter == <<"shared", "counter">>

Addresses == (UNION {{Src(p), Dst(p), NewSrc(p), NewDst(p)} : p \in Procs}) \cup {Lock, Counter}

\* An element: the byte cmd, the byte status, and the operands.  Status is 0
\* until the AFU is done, 1 for success, 17 for a wake_host_thread that was
\* refused, anything else for an error.  "post" is history: when it was added.
Statuses == {0, 1, 17, 255}

NoElement(p) ==
  [cmd    |-> [name |-> "copy", valid |-> FALSE, wrap |-> 0],
   status |-> 0,
   args   |-> [src |-> Src(p), dst |-> Dst(p), post |-> 0]]

\* Mutant of memcpy3_init_weq: the memory of the queue is not set to 0.
InitWeqNoMemset ==
  /\ queue = [p \in Procs |-> [k \in Slots |-> [NoElement(p) EXCEPT !.cmd.valid = TRUE]]]
  /\ next = [p \in Procs |-> 0]
  /\ wrap = [p \in Procs |-> 0]

memcpy3_init_weq ==
  /\ queue = [p \in Procs |-> [k \in Slots |-> NoElement(p)]]
  /\ next = [p \in Procs |-> 0]
  /\ wrap = [p \in Procs |-> 0]

\* Mutant of AddOperands: the status of an earlier lap is left in place.
AddOperandsKeepStatus(p, we) ==
  /\ queue' = [queue EXCEPT ![p][next[p]].args = we.args]
  /\ UNCHANGED <<next, wrap>>

\* memcpy3_add_we() up to the barrier, and from the barrier on.
AddOperands(p, we) ==
  /\ queue' = [queue EXCEPT ![p][next[p]].status = 0, ![p][next[p]].args = we.args]
  /\ UNCHANGED <<next, wrap>>

\* Mutant of NextWrap: the wrap bit stays as it is at the end of the queue.
NextWrapSame(p) == wrap[p]

NextWrap(p) == IF next[p] = QueueLength - 1 THEN 1 - wrap[p] ELSE wrap[p]

\* Mutant of AddCommand: the end of the queue is passed.
AddCommandNoEnd(p, we) ==
  /\ queue' = [queue EXCEPT ![p][next[p]].cmd = [name |-> we.name, valid |-> we.valid, wrap |-> wrap[p]]]
  /\ next' = [next EXCEPT ![p] = @ + 1]
  /\ wrap' = [wrap EXCEPT ![p] = NextWrap(p)]

AddCommand(p, we) ==
  /\ queue' = [queue EXCEPT ![p][next[p]].cmd = [name |-> we.name, valid |-> we.valid, wrap |-> wrap[p]]]
  /\ next' = [next EXCEPT ![p] = (@ + 1) % QueueLength]
  /\ wrap' = [wrap EXCEPT ![p] = NextWrap(p)]

SetValid(p, k) ==
  /\ queue' = [queue EXCEPT ![p][k].cmd.valid = TRUE]
  /\ UNCHANGED <<next, wrap>>

-------------------------------------------------------------------------------
(* The AFU.                                                                 *)

NoEngine(p) ==
  [enabled |-> FALSE, stopped |-> FALSE, at |-> 0, wrap |-> 0, phase |-> "fetch",
   we |-> NoElement(p), outcome |-> 0, loaded |-> 0]

AfuInit ==
  /\ engine = [p \in Procs |-> NoEngine(p)]
  /\ irqs = [p \in Procs |-> {}]
  /\ trouble = [p \in Procs |-> FALSE]

\* The AFU is given the work element descriptor; its context is closed.
Enable(p)  == engine' = [engine EXCEPT ![p].enabled = TRUE]
Disable(p) == engine' = [engine EXCEPT ![p].enabled = FALSE]

Fetch(p) ==
  LET we == queue[p][engine[p].at]
  IN
  /\ engine[p].enabled /\ ~engine[p].stopped /\ engine[p].phase = "fetch"
  /\ we.cmd.valid /\ we.cmd.wrap = engine[p].wrap
  /\ engine' = [engine EXCEPT ![p].phase = "execute", ![p].we = we]
  /\ UNCHANGED <<queueVars, irqs, mem, trouble>>

Executing(p, name) ==
  engine[p].enabled /\ engine[p].phase = "execute" /\ engine[p].we.cmd.name = name

\* The element is executed; its status is still to be written.
Outcome(p, status, stops) ==
  engine' = [engine EXCEPT ![p].phase = "complete", ![p].outcome = status,
                           ![p].stopped = @ \/ stops]

ExecuteCopy(p) ==
  /\ Executing(p, "copy")
  /\ mem' = [mem EXCEPT ![engine[p].we.args.dst] = mem[engine[p].we.args.src]]
  /\ Outcome(p, 1, FALSE)
  /\ UNCHANGED <<queueVars, irqs, trouble>>

\* Compare with 0 and swap with 1, repeated until it succeeds.
ExecuteAtomic(p) ==
  /\ Executing(p, "atomic")
  /\ mem[engine[p].we.args.dst] = 0
  /\ mem' = [mem EXCEPT ![engine[p].we.args.dst] = 1]
  /\ Outcome(p, 1, FALSE)
  /\ UNCHANGED <<queueVars, irqs, trouble>>

\* An increment is a load and a store, and not atomic.
ExecuteLoad(p) ==
  /\ Executing(p, "increment")
  /\ engine' = [engine EXCEPT ![p].phase = "store", ![p].loaded = mem[engine[p].we.args.src]]
  /\ UNCHANGED <<queueVars, irqs, mem, trouble>>

ExecuteStore(p) ==
  /\ engine[p].enabled /\ engine[p].phase = "store"
  /\ mem' = [mem EXCEPT ![engine[p].we.args.dst] = engine[p].loaded + 1]
  /\ Outcome(p, 1, FALSE)
  /\ UNCHANGED <<queueVars, irqs, trouble>>

ExecuteIrq(p) ==
  /\ Executing(p, "irq")
  /\ irqs' = [irqs EXCEPT ![p] = @ \cup {"afu"}]
  /\ Outcome(p, 1, TRUE)
  /\ UNCHANGED <<queueVars, mem, trouble>>

\* The thread is woken up; or it is not running and an interrupt is sent instead.
ExecuteWake(p) ==
  /\ Executing(p, "wake")
  /\ \/ Outcome(p, 1, FALSE) /\ UNCHANGED irqs
     \/ Outcome(p, 17, TRUE) /\ irqs' = [irqs EXCEPT ![p] = @ \cup {"afu"}]
  /\ UNCHANGED <<queueVars, mem, trouble>>

ExecuteStop(p) ==
  /\ Executing(p, "stop")
  /\ Outcome(p, 1, TRUE)
  /\ UNCHANGED <<queueVars, irqs, mem, trouble>>

\* The AFU cannot execute the element; it may stop or go on with the next one.
ExecuteFails(p) ==
  /\ \E name \in Commands : Executing(p, name)
  /\ irqs' = [irqs EXCEPT ![p] = @ \cup {"err"}]
  /\ \E stops \in BOOLEAN : Outcome(p, 255, stops)
  /\ trouble' = [trouble EXCEPT ![p] = TRUE]
  /\ UNCHANGED <<queueVars, mem>>

Complete(p) ==
  LET at == engine[p].at
  IN
  /\ engine[p].enabled /\ engine[p].phase = "complete"
  /\ queue' = [queue EXCEPT ![p][at].status = engine[p].outcome]
  /\ engine' = [engine EXCEPT ![p].phase = "fetch",
                              ![p].at = (at + 1) % QueueLength,
                              ![p].wrap = IF at = QueueLength - 1 THEN 1 - @ ELSE @]
  /\ UNCHANGED <<next, wrap, irqs, mem, trouble>>

AfuWorks(p) ==
  \/ Fetch(p) \/ ExecuteCopy(p) \/ ExecuteAtomic(p) \/ ExecuteLoad(p) \/ ExecuteStore(p)
  \/ ExecuteIrq(p) \/ ExecuteWake(p) \/ ExecuteStop(p) \/ Complete(p)

-------------------------------------------------------------------------------
Elements ==
  [cmd    : [name : Commands, valid : BOOLEAN, wrap : {0, 1}],
   status : Statuses,
   args   : [src : Addresses, dst : Addresses, post : Nat]]

QueueTypeOK ==
  /\ queue \in [Procs -> [Slots -> Elements]]
  /\ next \in [Procs -> Slots]
  /\ wrap \in [Procs -> {0, 1}]
  /\ irqs \in [Procs -> SUBSET Irqs]
  /\ mem \in [Addresses -> Nat]
  /\ trouble \in [Procs -> BOOLEAN]
  /\ engine \in [Procs -> [enabled : BOOLEAN, stopped : BOOLEAN, at : Slots, wrap : {0, 1},
                           phase : {"fetch", "execute", "store", "complete"}, we : Elements,
                           outcome : Statuses, loaded : Nat]]

===============================================================================

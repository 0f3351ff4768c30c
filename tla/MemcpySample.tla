----------------------------- MODULE MemcpySample -----------------------------
(***************************************************************************)
(* The sample program memcpy: one copy by the AFU, whose completion is     *)
(* awaited by polling, by interrupt (-i) or by wake_host_thread (-w), and  *)
(* then a stop.                                                            *)
(***************************************************************************)
EXTENDS WorkQueue

CONSTANT Completions

self == CHOOSE p \in Procs : TRUE

ASSUME SampleAssumption ==
  /\ Procs = {self}
  /\ Completions \subseteq {"poll", "irq", "wake"}
  /\ QueueLength >= 3

VARIABLES
  completion,     \* the option
  pc, k,          \* where the program is, at which element
  ret,            \* wait_for_irq() has seen an error event
  result          \* what afu_memcpy() returns, then what main() reports

hostVars == <<completion, pc, k, ret, result>>
vars     == <<queueVars, afuVars, trouble, hostVars>>

-------------------------------------------------------------------------------
\* The elements, in the order of their slots, and the valid bit each is added with.
Posted ==
  <<[name |-> "copy", valid |-> FALSE]>>
  \o (IF completion = "poll" THEN <<>> ELSE <<[name |-> completion, valid |-> TRUE]>>)
  \o <<[name |-> "stop", valid |-> TRUE]>>

NextElement ==
  [name |-> Posted[k].name, valid |-> Posted[k].valid,
   args |-> [src |-> Src(self), dst |-> Dst(self), post |-> 1]]

Status(n) == queue[self][n - 1].status

Fails == result' = "failed" /\ pc' = "close"

InTrouble == trouble' = [trouble EXCEPT ![self] = TRUE]

\* main() up to the call of afu_memcpy(), and afu_memcpy() up to the work element
\* descriptor being written to the AFU.
Setup ==
  /\ pc = "setup"
  /\ mem' = [mem EXCEPT ![Src(self)] = 1]
  /\ Enable(self)
  /\ pc' = "operands"
  /\ UNCHANGED <<queueVars, irqs, trouble, completion, ret, k, result>>

SetupFails ==
  /\ pc = "setup"
  /\ InTrouble /\ Fails
  /\ UNCHANGED <<queueVars, afuVars, completion, ret, k>>

PutOperands ==
  /\ pc = "operands"
  /\ AddOperands(self, NextElement)
  /\ pc' = "command"
  /\ UNCHANGED <<afuVars, trouble, completion, ret, k, result>>

PutCommand ==
  /\ pc = "command"
  /\ AddCommand(self, NextElement)
  /\ IF k = Len(Posted) THEN pc' = "go" /\ UNCHANGED k ELSE pc' = "operands" /\ k' = k + 1
  /\ UNCHANGED <<afuVars, trouble, completion, ret, result>>

\* ocxl_irq_alloc() or ocxl_afu_get_p9_thread_id() for the second element.
PutFails ==
  /\ pc = "operands" /\ k = 2 /\ completion # "poll"
  /\ InTrouble /\ Fails
  /\ UNCHANGED <<queueVars, afuVars, completion, ret, k>>

Go ==
  /\ pc = "go"
  /\ SetValid(self, 0)
  /\ pc' = completion
  /\ k' = 1
  /\ UNCHANGED <<afuVars, trouble, completion, ret, result>>

-------------------------------------------------------------------------------
\* On the completion interrupt the AFU is restarted, and the answer of that call
\* is ignored.
restart_afu_if_stopped ==
  \/ engine' = [engine EXCEPT ![self].stopped = FALSE] /\ UNCHANGED trouble
  \/ UNCHANGED engine /\ InTrouble

\* Where a wait for element k leads, if it succeeds and if it does not: what the
\* last wait, for the stop element, returns is ignored.
Waited    == pc' = IF k = 1 THEN "check" ELSE "stopped"
NotWaited == IF k = 1 THEN Fails ELSE Waited /\ UNCHANGED result

\* An iteration of wait_for_irq() that takes an event: for the completion
\* interrupt, at "irq"; at the start of an iteration of wait_for_status(), at
\* "poll", where that interrupt does not count; or, at "late", when the time of
\* wait_for_wake_host_thread() has passed, which is too late.
wait_for_irq ==
  /\ pc \in {"irq", "poll", "late"}
  /\ \E e \in irqs[self] :
       /\ irqs' = [irqs EXCEPT ![self] = @ \ {e}]
       /\ IF e = "afu" /\ pc # "poll"
          THEN /\ restart_afu_if_stopped
               /\ ret' = FALSE
               /\ IF pc = "irq" THEN pc' = "check" /\ UNCHANGED result ELSE Fails
          ELSE /\ ret' = (ret \/ e = "err")
               /\ UNCHANGED <<pc, result, engine, trouble>>
  /\ UNCHANGED <<queueVars, mem, completion, k>>

\* There is no event, and wait_for_irq() need not wait for one: it returns.
NoMoreEvents ==
  /\ irqs[self] = {}
  /\ \/ pc = "irq" /\ ret /\ Fails
     \/ pc = "poll" /\ ret /\ NotWaited
     \/ pc = "poll" /\ ~ret /\ pc' = "status" /\ UNCHANGED result
     \/ pc = "late" /\ Fails
  /\ ret' = FALSE
  /\ UNCHANGED <<queueVars, afuVars, trouble, completion, k>>

EventCheckFails ==
  /\ pc \in {"irq", "poll", "late"}
  /\ InTrouble /\ NotWaited
  /\ ret' = FALSE
  /\ UNCHANGED <<queueVars, afuVars, completion, k>>

\* Mutant of PollStatus: it does not wait for the status.
PollStatusOnce ==
  /\ pc = "status"
  /\ Waited
  /\ UNCHANGED <<queueVars, afuVars, trouble, completion, ret, k, result>>

PollStatus ==
  /\ pc = "status"
  /\ IF Status(k) = 0 THEN pc' = "poll" ELSE Waited
  /\ UNCHANGED <<queueVars, afuVars, trouble, completion, ret, k, result>>

wait_for_wake_host_thread ==
  /\ pc = "wake" /\ Status(2) # 0
  /\ pc' = "check"
  /\ UNCHANGED <<queueVars, afuVars, trouble, completion, ret, k, result>>

\* Mutant of TimesOut: wait_for_status() waits for ever.
TimesOutNotPolling ==
  /\ \/ pc = "irq" /\ irqs[self] = {} /\ ~ret /\ Fails
     \/ pc = "wake" /\ Status(2) = 0 /\ pc' = "late" /\ UNCHANGED result
  /\ InTrouble
  /\ UNCHANGED <<queueVars, afuVars, completion, k, ret>>

\* The time of wait_for_irq(), wait_for_status() or wait_for_wake_host_thread() has
\* passed; the last of them still looks for events.
TimesOut ==
  /\ \/ pc = "irq" /\ irqs[self] = {} /\ ~ret /\ Fails
     \/ pc = "status" /\ Status(k) = 0 /\ NotWaited
     \/ pc = "wake" /\ Status(2) = 0 /\ pc' = "late" /\ UNCHANGED result
  /\ InTrouble
  /\ UNCHANGED <<queueVars, afuVars, completion, k, ret>>

-------------------------------------------------------------------------------
\* Mutant of Check: the completion element is looked at, the copy is not.
CheckCompletionOnly ==
  /\ pc = "check"
  /\ IF completion # "poll" => Status(2) = 1
     THEN pc' = "poll" /\ k' = Len(Posted) /\ UNCHANGED result
     ELSE Fails /\ UNCHANGED k
  /\ UNCHANGED <<queueVars, afuVars, trouble, completion, ret>>

\* The statuses, then on to the stop element.
Check ==
  /\ pc = "check"
  /\ IF Status(1) = 1 /\ (completion # "poll" => Status(2) = 1)
     THEN pc' = "poll" /\ k' = Len(Posted) /\ UNCHANGED result
     ELSE Fails /\ UNCHANGED k
  /\ UNCHANGED <<queueVars, afuVars, trouble, completion, ret>>

CheckStop ==
  /\ pc = "stopped"
  /\ IF Status(k) = 1
     THEN /\ result' = IF mem[Dst(self)] = mem[Src(self)] THEN "match" ELSE "no match"
          /\ pc' = "close"
     ELSE Fails
  /\ UNCHANGED <<queueVars, afuVars, trouble, completion, ret, k>>

Close ==
  /\ pc = "close"
  /\ Disable(self)
  /\ pc' = "done"
  /\ UNCHANGED <<queueVars, irqs, mem, trouble, completion, ret, k, result>>

-------------------------------------------------------------------------------
Init ==
  /\ memcpy3_init_weq
  /\ AfuInit
  /\ mem = [a \in Addresses |-> 0]
  /\ completion \in Completions
  /\ pc = "setup" /\ k = 1 /\ ret = FALSE /\ result = "none"

HostWorks ==
  \/ Setup \/ PutOperands \/ PutCommand \/ Go
  \/ wait_for_irq \/ NoMoreEvents \/ PollStatus \/ wait_for_wake_host_thread
  \/ Check \/ CheckStop \/ Close

Next ==
  \/ HostWorks
  \/ SetupFails \/ PutFails \/ EventCheckFails \/ TimesOut
  \/ (AfuWorks(self) \/ ExecuteFails(self)) /\ UNCHANGED hostVars

\* The program is scheduled and its timeouts expire; the AFU need not do anything.
Fairness == WF_vars(HostWorks) /\ SF_vars(TimesOut)

Spec == Init /\ [][Next]_vars /\ Fairness

-------------------------------------------------------------------------------
\* When afu_memcpy() returns false the AFU has executed all elements without an
\* error, the destination holds the source, and the AFU has stopped: it does not
\* touch the buffers any more.  So main() never finds that they do not match.
SuccessMeansDone ==
  result \in {"match", "no match"} =>
    /\ \A n \in 1 .. Len(Posted) : Status(n) = 1
    /\ mem[Dst(self)] = mem[Src(self)]
    /\ engine[self].at = next[self] /\ engine[self].phase = "fetch"
    /\ engine[self].stopped

\* Without trouble, a copy that is polled for never fails, and one that waits for
\* wake_host_thread fails only if the AFU could not wake the thread: status 0x11
\* fails it, although the AFU was given an IRQ to raise instead (memcpy.c:467).
FailsForAReason ==
  result = "failed" =>
    \/ trouble[self]
    \/ completion = "wake" /\ Status(2) = 17
    \/ completion = "irq" /\ Status(1) = 1

\* A copy fails only if something went wrong: a call failed or timed out, or the
\* AFU reported an error.
FailsOnlyInTrouble == result = "failed" => trouble[self]

\* The program ends, whether the AFU does its work, fails or does nothing: its
\* waits are bounded.  (An AFU that interrupted for ever, which this one cannot,
\* would keep wait_for_irq() in its loop.)
Terminates == <>(pc = "done")

===============================================================================

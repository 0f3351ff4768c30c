------------------------------ MODULE MemcpyTest ------------------------------
(***************************************************************************)
(* The test program ocxl_memcpy: processes that each let the AFU copy a    *)
(* buffer, increment a number, or (-A) increment a shared counter under a  *)
(* lock, again and again through a queue that wraps around, and wait for   *)
(* the AFU by polling, by interrupt (-i) or by wake_host_thread (-w).  The *)
(* buffers of a copy may be in shared memory (-S) and may be given back    *)
(* and allocated anew after each round (-r).                               *)
(***************************************************************************)
EXTENDS WorkQueue, FiniteSets

CONSTANT Options    \* the command lines: members of memcpy_test_args

\* struct memcpy_test_args: what the AFU is to do, how its completion is awaited,
\* whether the buffers are allocated anew and are shared memory, the processes
\* to be forked (-p 0 stands for AFU_MAX_PROCESSES) and the rounds of each.  main()
\* refuses -r and -S except for copies.
memcpy_test_args ==
  {o \in [work : {"copy", "increment", "atomic"}, completion : {"poll", "irq", "wake"},
          reallocate : BOOLEAN, shared_mem : BOOLEAN,
          processes : (SUBSET Procs) \ {{}}, loop_count : Nat] :
     o.reallocate \/ o.shared_mem => o.work = "copy"}

ASSUME TestAssumption ==
  /\ IsFiniteSet(Procs)
  /\ Options \subseteq memcpy_test_args
  /\ QueueLength >= 4          \* the elements of one round

VARIABLES
  args,                   \* the options of this run of the program
  forked,                 \* the processes for which fork() did not fail
  dst,                    \* where the destination of the copies is now
  pc, k, i,               \* where a process is, in which element, in which round
  first_we, last_we,      \* slots of the first and the last element of a round
  result,                 \* what test_afu_memcpy() returns
  verdict                 \* what main() says at the end

argVars  == <<args, forked, dst>>
hostVars == <<argVars, pc, k, i, first_we, last_we, result, verdict>>
vars     == <<queueVars, afuVars, trouble, hostVars>>

\* What identifies a process; the buffers of different processes never meet.
pid == 1

-------------------------------------------------------------------------------
(* The elements of a round, in order, with the valid bit they are added     *)
(* with; "mark" tells that it is set right after.                           *)

WorkElement(name, from, to, valid, mark) ==
  [name |-> name, src |-> from, dst |-> to, valid |-> valid, mark |-> mark]

\* Mutant of AtomicRound: the lock is released before the counter is incremented.
AtomicRoundReleasesEarly(p) ==
  <<WorkElement("atomic", Src(p), Lock, FALSE, FALSE),
    WorkElement("copy", Src(p), Lock, FALSE, TRUE),
    WorkElement("increment", Counter, Counter, FALSE, TRUE)>>

\* Take the lock, increment the counter, release the lock with a copy of 0.
AtomicRound(p) ==
  <<WorkElement("atomic", Src(p), Lock, FALSE, FALSE),
    WorkElement("increment", Counter, Counter, FALSE, TRUE),
    WorkElement("copy", Src(p), Lock, FALSE, TRUE)>>

\* The source of a copy to d: with -S it follows d in the shared memory, and moves
\* with it.
Source(p, d) == IF args.shared_mem /\ d = NewDst(p) THEN NewSrc(p) ELSE Src(p)

Round(p) ==
  (IF args.work = "atomic" THEN AtomicRound(p)
   ELSE IF args.work = "copy" THEN <<WorkElement("copy", Source(p, dst[p]), dst[p], FALSE, FALSE)>>
   ELSE <<WorkElement("increment", Src(p), Dst(p), FALSE, FALSE)>>)
  \o
  (IF args.completion = "poll" THEN <<>>
   ELSE <<WorkElement(args.completion, Src(p), Dst(p), TRUE, FALSE)>>)

\* The element to be added, with the round it belongs to.
NextElement(p) ==
  LET we == Round(p)[k[p]]
  IN  [name |-> we.name, valid |-> we.valid,
       args |-> [src |-> we.src, dst |-> we.dst, post |-> i[p]]]

At(p, where)  == pc[p] = where
Goto(p, where) == pc' = [pc EXCEPT ![p] = where]

\* What test_afu_memcpy() is going to return, once it has closed the AFU.
Return(p, rc) ==
  /\ result' = [result EXCEPT ![p] = rc]
  /\ Goto(p, "close")

-------------------------------------------------------------------------------
(* test_afu_memcpy().                                                       *)

\* Everything up to the work element descriptor being written to the AFU.
Setup(p) ==
  /\ At(p, "setup")
  /\ Enable(p)
  /\ mem' = [mem EXCEPT ![Src(p)] = IF args.work = "atomic" THEN 0
                                    ELSE IF args.work = "increment" THEN pid - 1 ELSE pid]
  /\ Goto(p, "round")
  /\ UNCHANGED <<queueVars, irqs, trouble, argVars, k, i, first_we, last_we, result, verdict>>

SetupFails(p) ==
  /\ At(p, "setup")
  /\ trouble' = [trouble EXCEPT ![p] = TRUE]
  /\ Return(p, "fail")
  /\ UNCHANGED <<queueVars, afuVars, argVars, k, i, first_we, last_we, verdict>>

StartRound(p) ==
  /\ At(p, "round") /\ i[p] < args.loop_count
  /\ i' = [i EXCEPT ![p] = @ + 1]
  /\ k' = [k EXCEPT ![p] = 1]
  /\ first_we' = [first_we EXCEPT ![p] = next[p]]
  /\ mem' = IF args.work = "increment" THEN [mem EXCEPT ![Src(p)] = @ + 1] ELSE mem
  /\ Goto(p, "operands")
  /\ UNCHANGED <<queueVars, engine, irqs, trouble, argVars, last_we, result, verdict>>

PutOperands(p) ==
  /\ At(p, "operands")
  /\ AddOperands(p, NextElement(p))
  /\ last_we' = [last_we EXCEPT ![p] = next[p]]
  /\ Goto(p, "command")
  /\ UNCHANGED <<afuVars, trouble, argVars, k, i, first_we, result, verdict>>

\* After an element: the next one, or the first one is set valid.
AfterElement(p) ==
  IF k[p] = Len(Round(p))
  THEN Goto(p, "go") /\ UNCHANGED k
  ELSE Goto(p, "operands") /\ k' = [k EXCEPT ![p] = @ + 1]

PutCommand(p) ==
  /\ At(p, "command")
  /\ AddCommand(p, NextElement(p))
  /\ IF Round(p)[k[p]].mark THEN Goto(p, "mark") /\ UNCHANGED k ELSE AfterElement(p)
  /\ UNCHANGED <<afuVars, trouble, argVars, i, first_we, last_we, result, verdict>>

Mark(p) ==
  /\ At(p, "mark")
  /\ SetValid(p, last_we[p])
  /\ AfterElement(p)
  /\ UNCHANGED <<afuVars, trouble, argVars, i, first_we, last_we, result, verdict>>

Go(p) ==
  /\ At(p, "go")
  /\ SetValid(p, first_we[p])
  /\ Goto(p, IF args.completion = "irq" THEN "irq" ELSE "status")
  /\ UNCHANGED <<afuVars, trouble, argVars, k, i, first_we, last_we, result, verdict>>

-------------------------------------------------------------------------------
(* Waiting for the AFU.  ocxl_afu_event_check() with room for one event     *)
(* returns one of the pending events.                                       *)

LastStatus(p) == queue[p][last_we[p]].status

\* wait_for_irq() up to the call of wait_for_status().
wait_for_irq(p) ==
  /\ At(p, "irq")
  /\ \E irq \in irqs[p] :
       /\ irqs' = [irqs EXCEPT ![p] = @ \ {irq}]
       /\ \/ irq = "afu" /\ Goto(p, "status") /\ UNCHANGED result
          \/ irq # "afu" /\ Return(p, "fail")
  /\ UNCHANGED <<queueVars, engine, mem, trouble, argVars, k, i, first_we, last_we, verdict>>

\* wait_for_status(), and the loop of wait_fast().
wait_for_status(p) ==
  /\ At(p, "status")
  /\ LastStatus(p) # 0
  /\ Goto(p, IF args.completion = "wake" /\ LastStatus(p) # 1 THEN "event" ELSE "check")
  /\ UNCHANGED <<queueVars, afuVars, trouble, argVars, k, i, first_we, last_we, result, verdict>>

\* The rest of wait_fast(): the interrupt that was sent instead of waking up.
wait_fast(p) ==
  /\ At(p, "event")
  /\ \E irq \in irqs[p] :
       /\ irqs' = [irqs EXCEPT ![p] = @ \ {irq}]
       /\ \/ irq = "afu" /\ Goto(p, "check") /\ UNCHANGED result
          \/ irq # "afu" /\ Return(p, "fail")
  /\ UNCHANGED <<queueVars, engine, mem, trouble, argVars, k, i, first_we, last_we, verdict>>

\* Any of them runs out of time, or ocxl_afu_event_check() fails.
WaitFails(p) ==
  /\ \/ pc[p] \in {"irq", "event"}
     \/ At(p, "status") /\ LastStatus(p) = 0
  /\ trouble' = [trouble EXCEPT ![p] = TRUE]
  /\ Return(p, "fail")
  /\ UNCHANGED <<queueVars, afuVars, argVars, k, i, first_we, last_we, verdict>>

-------------------------------------------------------------------------------
(* The rest of a round.                                                     *)

StatusesAreGood(p) ==
  /\ queue[p][first_we[p]].status = 1
  /\ args.completion = "irq" => LastStatus(p) = 1
  /\ args.completion = "wake" => LastStatus(p) \in {1, 17}

DataIsGood(p) ==
  CASE args.work = "atomic"    -> TRUE
    [] args.work = "increment" -> mem[dst[p]] = mem[Src(p)] + 1
    [] args.work = "copy"      -> mem[dst[p]] = mem[Source(p, dst[p])]

Check(p) ==
  /\ At(p, "check")
  /\ IF StatusesAreGood(p) /\ DataIsGood(p)
     THEN Goto(p, IF args.completion = "poll" THEN "clear" ELSE "restart") /\ UNCHANGED result
     ELSE Return(p, "fail")
  /\ UNCHANGED <<queueVars, afuVars, trouble, argVars, k, i, first_we, last_we, verdict>>

restart_afu(p) ==
  /\ At(p, "restart")
  /\ engine' = IF engine[p].stopped THEN [engine EXCEPT ![p].stopped = FALSE] ELSE engine
  /\ Goto(p, "clear")
  /\ UNCHANGED <<queueVars, irqs, mem, trouble, argVars, k, i, first_we, last_we, result, verdict>>

restart_afu_fails(p) ==
  /\ At(p, "restart")
  /\ trouble' = [trouble EXCEPT ![p] = TRUE]
  /\ Return(p, "fail")
  /\ UNCHANGED <<queueVars, afuVars, argVars, k, i, first_we, last_we, verdict>>

ClearDestination(p) ==
  /\ At(p, "clear") /\ ~args.reallocate
  /\ mem' = IF args.work = "atomic" THEN mem ELSE [mem EXCEPT ![dst[p]] = 0]
  /\ Goto(p, "round")
  /\ UNCHANGED <<queueVars, engine, irqs, trouble, argVars, k, i, first_we, last_we, result, verdict>>

\* The destination, or the shared memory with the source in it, is given back and
\* allocated anew, of zeros, at the same address or another.
Reallocate(p) ==
  /\ At(p, "clear") /\ args.reallocate
  /\ \E d \in {Dst(p), NewDst(p)} :
       /\ dst' = [dst EXCEPT ![p] = d]
       /\ mem' = [a \in Addresses |->
                    IF \/ a \in {dst[p], d}
                       \/ args.shared_mem /\ a \in {Source(p, dst[p]), Source(p, d)}
                    THEN 0 ELSE mem[a]]
  /\ Goto(p, "round")
  /\ UNCHANGED <<queueVars, engine, irqs, trouble, args, forked, k, i, first_we, last_we, result,
                 verdict>>

ReallocateFails(p) ==
  /\ At(p, "clear") /\ args.reallocate /\ ~args.shared_mem
  /\ trouble' = [trouble EXCEPT ![p] = TRUE]
  /\ Return(p, "fail")
  /\ UNCHANGED <<queueVars, afuVars, argVars, k, i, first_we, last_we, verdict>>

\* After the last round: no event may be left.
Finish(p) ==
  /\ At(p, "round") /\ i[p] = args.loop_count
  /\ \/ irqs[p] = {} /\ Return(p, "pass") /\ UNCHANGED irqs
     \/ \E irq \in irqs[p] : Return(p, "fail") /\ irqs' = [irqs EXCEPT ![p] = @ \ {irq}]
  /\ UNCHANGED <<queueVars, engine, mem, trouble, argVars, k, i, first_we, last_we, verdict>>

\* ocxl_afu_event_check() fails.
FinishFails(p) ==
  /\ At(p, "round") /\ i[p] = args.loop_count
  /\ trouble' = [trouble EXCEPT ![p] = TRUE]
  /\ Return(p, "fail")
  /\ UNCHANGED <<queueVars, afuVars, argVars, k, i, first_we, last_we, verdict>>

\* ocxl_afu_close(): the AFU may have gone on until here.
Close(p) ==
  /\ At(p, "close")
  /\ Disable(p)
  /\ Goto(p, "done")
  /\ UNCHANGED <<queueVars, irqs, mem, trouble, argVars, k, i, first_we, last_we, result, verdict>>

\* main() has waited as often as it tried to fork.  A wait() for a process that
\* was not forked leaves the status of the one before, and none at all if there
\* was none before.
Main ==
  /\ verdict = "none"
  /\ \A p \in forked : At(p, "done")
  /\ verdict' \in IF \/ \E p \in forked : result[p] = "fail"
                    \/ /\ args.work = "atomic"
                       /\ mem[Counter] # Cardinality(args.processes) * args.loop_count
                 THEN {"failed"}
                 ELSE {"successful"} \cup IF forked = {} THEN {"failed"} ELSE {}
  /\ UNCHANGED <<queueVars, afuVars, trouble, argVars, pc, k, i, first_we, last_we, result>>

-------------------------------------------------------------------------------
Init ==
  /\ memcpy3_init_weq
  /\ AfuInit
  /\ mem = [a \in Addresses |-> 0]
  /\ args \in Options
  /\ forked \in SUBSET args.processes
  /\ dst = [p \in Procs |-> IF args.work = "atomic" THEN Lock ELSE Dst(p)]
  /\ pc = [p \in Procs |-> IF p \in forked THEN "setup" ELSE "done"]
  /\ k = [p \in Procs |-> 1]
  /\ i = [p \in Procs |-> 0]
  /\ first_we = [p \in Procs |-> 0]
  /\ last_we = [p \in Procs |-> 0]
  /\ result = [p \in Procs |-> "none"]
  /\ verdict = "none"

HostWorks(p) ==
  \/ Setup(p) \/ StartRound(p) \/ PutOperands(p) \/ PutCommand(p) \/ Mark(p) \/ Go(p)
  \/ wait_for_irq(p) \/ wait_for_status(p) \/ wait_fast(p)
  \/ Check(p) \/ restart_afu(p) \/ ClearDestination(p) \/ Reallocate(p) \/ Finish(p) \/ Close(p)

HostFails(p) ==
  SetupFails(p) \/ WaitFails(p) \/ restart_afu_fails(p) \/ ReallocateFails(p) \/ FinishFails(p)

Afu(p) == AfuWorks(p) /\ UNCHANGED hostVars

Next ==
  \/ \E p \in Procs :
       \/ HostWorks(p) \/ HostFails(p) \/ Afu(p)
       \/ ExecuteFails(p) /\ UNCHANGED hostVars
  \/ Main

\* The processes are scheduled and the AFU works on; nobody has to fail.
Fairness ==
  /\ \A p \in Procs : WF_vars(HostWorks(p)) /\ WF_vars(Afu(p))
  /\ WF_vars(Main)

Spec == Init /\ [][Next]_vars /\ Fairness

-------------------------------------------------------------------------------
TypeOK ==
  /\ QueueTypeOK
  /\ args \in memcpy_test_args
  /\ forked \subseteq args.processes /\ dst \in [Procs -> Addresses]
  /\ k \in [Procs -> 1 .. 4] /\ i \in [Procs -> 0 .. args.loop_count]
  /\ first_we \in [Procs -> Slots] /\ last_we \in [Procs -> Slots]
  /\ result \in [Procs -> {"none", "pass", "fail"}]
  /\ verdict \in {"none", "successful", "failed"}

\* What the AFU executes is what memcpy3_add_we() put there in the current
\* round, command and operands together, never a slot that is half written or
\* left from an earlier lap of the queue, nor a copy to a buffer that has been
\* given back since.
RunsWhatWasPosted ==
  \A p \in Procs : engine[p].enabled /\ engine[p].phase # "fetch" =>
    /\ engine[p].we.args.post = i[p]
    /\ \E n \in 1 .. Len(Round(p)) :
         /\ engine[p].we.cmd.name = Round(p)[n].name
         /\ engine[p].we.args.src = Round(p)[n].src
         /\ engine[p].we.args.dst = Round(p)[n].dst

\* test_afu_memcpy() returns 0 only after the AFU has executed every element of
\* every round, and main() prints "Test successful" only if all the processes
\* that it did fork return 0 and no increment of the counter is missing.
PassMeansDone ==
  /\ \A p \in Procs : result[p] = "pass" =>
       /\ engine[p].phase = "fetch" /\ engine[p].at = next[p] /\ engine[p].wrap = wrap[p]
       /\ \A j \in Slots : queue[p][j].cmd.valid => queue[p][j].status \in {1, 17}
  /\ verdict = "successful" =>
       /\ \A p \in forked : result[p] = "pass"
       /\ args.work = "atomic" =>
            mem[Counter] = Cardinality(args.processes) * args.loop_count

\* A test fails only if something went wrong: a call, fork() included, failed or
\* timed out, or the AFU reported an error.  In particular no increment of the counter is lost.
FailsOnlyInTrouble ==
  /\ \A p \in Procs : result[p] = "fail" => trouble[p]
  /\ verdict = "failed" => forked # args.processes \/ \E p \in Procs : trouble[p]

\* If nothing goes wrong the test comes to its end and is successful.
Succeeds ==
  forked = args.processes /\ []~(\E p \in Procs : trouble[p]) => <>(verdict = "successful")

===============================================================================

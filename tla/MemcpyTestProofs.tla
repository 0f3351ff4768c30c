--------------------------- MODULE MemcpyTestProofs ---------------------------
(***************************************************************************)
(* The lock and the counter that the processes share, and the theorems.    *)
(***************************************************************************)
EXTENDS MemcpyTestSteps, FiniteSetTheorems

-------------------------------------------------------------------------------
(* The lock and the counter.                                                *)

\* A step of one process changes nothing of what another has done.
LEMMA OthersShare ==
  ASSUME IInv, NEW p \in Procs, Tidy(p), NEW q \in Procs, q # p
  PROVE  /\ i'[q] = i[q] /\ engine'[q] = engine[q] /\ trouble'[q] = trouble[q]
         /\ \A n : Ran(q, n)' <=> Ran(q, n)
         /\ Holds(q)' <=> Holds(q)
<1>1. Same(q)
  BY TidyMeans, Zenon
<1>2. Posted(q)' = Posted(q)
  BY <1>1, Zenon DEF Same, Posted
<1>3. Done(q)' = Done(q)
  BY <1>1, <1>2, Zenon DEF Same, FirstWrap, Done, Lap
<1>4. i'[q] = i[q] /\ engine'[q] = engine[q] /\ trouble'[q] = trouble[q]
  BY <1>1, Zenon DEF Same
<1>5. \A n : Ran(q, n)' <=> Ran(q, n)
  BY <1>3, <1>4, Zenon DEF Ran
<1>6. Holds(q)' <=> Holds(q)
  BY <1>4, <1>5, Zenon DEF Holds
<1> QED
  BY <1>4, <1>5, <1>6, Zenon

\* Increment j of process p has been done.
Counted(p, j) == j < i[p] \/ (j = i[p] /\ Ran(p, 2))

\* The increments so far are finite in number, and a step adds one or none.
LEMMA IncrementsIs ==
  ASSUME IInv, NEW p \in Procs, Tidy(p)
  PROVE  /\ IsFiniteSet(Increments)
         /\ (\A j \in 1 .. args.loop_count : Counted(p, j)' <=> Counted(p, j)) => Increments' = Increments
         /\ \A m \in 1 .. args.loop_count :
              /\ Counted(p, m)' /\ ~Counted(p, m)
              /\ \A j \in 1 .. args.loop_count : j # m => (Counted(p, j)' <=> Counted(p, j))
              => Increments' = Increments \cup {<<p, m>>} /\ <<p, m>> \notin Increments
<1> DEFINE all == Procs \X (1 .. args.loop_count)
<1>1. args.loop_count \in Nat /\ args' = args
  BY FunctionTypes, Types, Zenon DEF Tidy
<1>2. /\ Increments = {x \in all : Counted(x[1], x[2])}
      /\ Increments' = {x \in all : Counted(x[1], x[2])'}
  BY <1>1, Zenon DEF Increments, Counted
<1>3. \A q \in Procs : q # p => \A j : Counted(q, j)' <=> Counted(q, j)
  BY OthersShare, Zenon DEF Counted
<1>4. \A x \in all : x[1] \in Procs /\ x[2] \in 1 .. args.loop_count /\ x = <<x[1], x[2]>>
  OBVIOUS
<1>5. IsFiniteSet(Increments)
  <2>1. IsFiniteSet(Procs) /\ IsFiniteSet(1 .. args.loop_count)
    BY <1>1, FS_Interval, TestAssumption, SMTT(30), Z3T(30)
  <2>2. IsFiniteSet(all)
    BY <2>1, FS_Product, Zenon
  <2>3. Increments \in SUBSET all
    BY <1>2, Zenon
  <2> QED
    BY <2>2, <2>3, FS_Subset, Zenon
<1> HIDE DEF all
<1>6. ASSUME \A j \in 1 .. args.loop_count : Counted(p, j)' <=> Counted(p, j) PROVE Increments' = Increments
  <2>1. \A x \in all : Counted(x[1], x[2])' <=> Counted(x[1], x[2])
    BY <1>3, <1>4, <1>6, Zenon
  <2> QED
    BY <1>2, <2>1, Zenon
<1>7. ASSUME NEW m \in 1 .. args.loop_count, Counted(p, m)', ~Counted(p, m),
             \A j \in 1 .. args.loop_count : j # m => (Counted(p, j)' <=> Counted(p, j))
      PROVE  Increments' = Increments \cup {<<p, m>>} /\ <<p, m>> \notin Increments
  <2>1. /\ <<p, m>> \in all /\ <<p, m>>[1] = p /\ <<p, m>>[2] = m
    BY Zenon DEF all
  <2>2. \A x \in all : x # <<p, m>> => (Counted(x[1], x[2])' <=> Counted(x[1], x[2]))
    <3> SUFFICES ASSUME NEW x \in all, x # <<p, m>> PROVE Counted(x[1], x[2])' <=> Counted(x[1], x[2])
      OBVIOUS
    <3>1. x[1] # p \/ x[2] # m
      BY <1>4, Zenon
    <3> QED
      BY <1>3, <1>4, <1>7, <3>1, Zenon
  <2>3. Counted(<<p, m>>[1], <<p, m>>[2])' /\ ~Counted(<<p, m>>[1], <<p, m>>[2])
    BY <1>7, <2>1, Zenon
  <2>4. <<p, m>> \notin Increments /\ <<p, m>> \in Increments'
    BY <1>2, <2>1, <2>3, Zenon
  <2>5. \A x : x \in Increments' <=> x \in Increments \cup {<<p, m>>}
    BY <1>2, <2>2, <2>4, Zenon
  <2> QED
    BY <2>4, <2>5, Zenon
<1> QED
  BY <1>5, <1>6, <1>7, Zenon

\* What a step of p has to respect.
LEMMA SharedStep ==
  ASSUME IInv, NEW p \in Procs, Tidy(p), args.work = "atomic", ~Troubled', trouble[p] => trouble'[p],
         Holds(p)' => mem'[Lock] = 1 /\ \A q \in Procs : Holds(q) => q = p,
         \A q \in Procs : q # p /\ Holds(q) => mem'[Lock] = mem[Lock],
         engine'[p].phase = "store" => engine'[p].loaded = mem'[Counter],
         \A q \in Procs : q # p /\ engine[q].phase = "store" => mem'[Counter] = mem[Counter],
         mem'[Counter] = Cardinality(Increments')
  PROVE  Shared'
<1>1. ~Troubled
  BY OthersShare, Zenon DEF Troubled
<1>2. /\ \A q \in Procs : Holds(q) => mem[Lock] = 1
      /\ \A q, r \in Procs : Holds(q) /\ Holds(r) => q = r
      /\ \A q \in Procs : engine[q].phase = "store" => engine[q].loaded = mem[Counter]
  BY <1>1, Zenon DEF IInv, Shared
<1>3. \A q \in Procs : Holds(q)' => mem'[Lock] = 1
  BY <1>2, OthersShare, Zenon
<1>4. \A q, r \in Procs : Holds(q)' /\ Holds(r)' => q = r
  BY <1>2, OthersShare, ZenonT(60)
<1>5. \A q \in Procs : engine'[q].phase = "store" => engine'[q].loaded = mem'[Counter]
  BY <1>2, OthersShare, SMTT(30), Z3T(30)
<1> QED
  BY <1>3, <1>4, <1>5, Zenon DEF Shared

\* A step that neither starts a round nor touches the lock or the counter.
LEMMA PlainShared ==
  ASSUME IInv, NEW p \in Procs, Tidy(p), args.work = "atomic", ~Troubled', trouble[p] => trouble'[p],
         i'[p] = i[p], \A n \in 1 .. 3 : Ran(p, n)' <=> Ran(p, n),
         engine'[p].phase = "store" => engine[p].phase = "store" /\ engine'[p].loaded = engine[p].loaded,
         mem'[Lock] = mem[Lock], mem'[Counter] = mem[Counter]
  PROVE  Shared'
<1>1. ~Troubled
  BY OthersShare, Zenon DEF Troubled
<1>2. /\ \A q \in Procs : Holds(q) => mem[Lock] = 1
      /\ \A q, r \in Procs : Holds(q) /\ Holds(r) => q = r
      /\ \A q \in Procs : engine[q].phase = "store" => engine[q].loaded = mem[Counter]
      /\ mem[Counter] = Cardinality(Increments)
  BY <1>1, Zenon DEF IInv, Shared
<1>3. (Ran(p, 1)' <=> Ran(p, 1)) /\ (Ran(p, 2)' <=> Ran(p, 2)) /\ (Ran(p, 3)' <=> Ran(p, 3))
  OBVIOUS
<1>4. Holds(p)' <=> Holds(p)
  BY <1>3, Zenon DEF Holds
<1>5. Increments' = Increments
  <2>1. \A j \in 1 .. args.loop_count : Counted(p, j)' <=> Counted(p, j)
    BY <1>3, Zenon DEF Counted
  <2> QED
    BY <2>1, IncrementsIs, Zenon
<1> QED
  BY <1>2, <1>4, <1>5, SharedStep, Zenon
\* Trouble is not forgotten, and failures are trouble.
LEMMA TroubleStays ==
  ASSUME IInv, NEW p \in Procs,
         HostWorks(p) \/ HostFails(p) \/ ((AfuWorks(p) \/ ExecuteFails(p)) /\ UNCHANGED hostVars)
  PROVE  /\ trouble[p] => trouble'[p]
         /\ HostFails(p) \/ ExecuteFails(p) => trouble'[p]
<1>1. /\ HostWorks(p) \/ AfuWorks(p) => trouble' = trouble
      /\ HostFails(p) \/ ExecuteFails(p) => trouble' = [trouble EXCEPT ![p] = TRUE]
  BY Zenon DEF HostWorks, HostFails, AfuWorks, Setup, StartRound, PutOperands, PutCommand, Mark, Go, wait_for_irq,
     wait_for_status, wait_fast, Check, restart_afu, ClearDestination, Reallocate, Finish, Close, SetupFails,
     WaitFails, restart_afu_fails, ReallocateFails, FinishFails, Fetch, ExecuteCopy, ExecuteAtomic, ExecuteLoad,
     ExecuteStore, ExecuteIrq, ExecuteWake, ExecuteStop, ExecuteFails, Complete
<1>2. trouble \in [Procs -> BOOLEAN]
  BY FunctionTypes, Zenon
<1> QED
  BY <1>1, <1>2, Zenon

\* The process does not touch the lock and the counter.
LEMMA HostShared ==
  ASSUME IInv, NEW p \in Procs, HostWorks(p), ~StartRound(p), args.work = "atomic", ~Troubled'
  PROVE  Shared'
<1>1. Tidy(p) /\ Alright(p)' /\ Alright(p) /\ TypeOK /\ (trouble[p] => trouble'[p])
  BY ProcessStep, TroubleStays, FunctionTypes, Zenon
<1>2. mem'[Lock] = mem[Lock] /\ mem'[Counter] = mem[Counter]
  <2> ~Reallocate(p)
    BY FunctionTypes, Zenon DEF Reallocate, TypeOK, memcpy_test_args
  <2>1. \/ mem' = mem
        \/ Setup(p) /\ \E x : mem' = [mem EXCEPT ![Src(p)] = x]
    BY Zenon DEF HostWorks, Setup, PutOperands, PutCommand, Mark, Go, wait_for_irq, wait_for_status,
       wait_fast, Check, restart_afu, ClearDestination, Finish, Close, afuVars
  <2> QED
    BY <2>1, Apart, FunctionTypes, Zenon
<1>3. i'[p] = i[p]
  <2>1. i' = i
    BY Zenon DEF HostWorks, Setup, PutOperands, PutCommand, Mark, Go, wait_for_irq, wait_for_status,
       wait_fast, Check, restart_afu, ClearDestination, Reallocate, Finish, Close
  <2> QED
    BY <2>1, Zenon
<1>4. /\ engine'[p].at = engine[p].at /\ engine'[p].wrap = engine[p].wrap /\ engine'[p].phase = engine[p].phase
      /\ engine'[p].loaded = engine[p].loaded
  <2>1. \/ engine' = engine
        \/ engine' = [engine EXCEPT ![p].enabled = TRUE]
        \/ engine' = [engine EXCEPT ![p].enabled = FALSE]
        \/ engine' = [engine EXCEPT ![p].stopped = FALSE]
    BY Zenon DEF HostWorks, Setup, PutOperands, PutCommand, Mark, Go, wait_for_irq, wait_for_status,
       wait_fast, Check, restart_afu, ClearDestination, Reallocate, Finish, Close, Enable, Disable, afuVars
  <2> QED
    BY <2>1, FunctionTypes, SMTT(30), Z3T(30)
<1>5. Done(p)' = Done(p)
  <2>1. CASE pc[p] \in Posting /\ pc'[p] \in Posting
    BY <1>1, <2>1, Zenon DEF Alright, Ring
  <2>2. CASE ~(pc[p] \in Posting /\ pc'[p] \in Posting)
    <3>1. ~(PutOperands(p) \/ PutCommand(p) \/ Mark(p))
      <4>1. PutOperands(p) \/ PutCommand(p) \/ Mark(p) => pc[p] \in Posting /\ pc'[p] \in Posting
        <5>1. PutOperands(p) \/ PutCommand(p) \/ Mark(p) =>
                pc[p] \in Posting /\ \E x \in {"command", "mark", "go", "operands"} : Goto(p, x)
          BY Zenon DEF PutOperands, PutCommand, Mark, AfterElement, At, Posting
        <5>2. \A x \in {"command", "mark", "go", "operands"} : Goto(p, x) => pc'[p] = x
          BY FunctionTypes, Zenon DEF Goto
        <5> QED
          BY <5>1, <5>2, Zenon DEF Posting
      <4> QED
        BY <2>2, <4>1, Zenon
    <3>2. /\ UNCHANGED <<next, wrap, args, forked, k, first_we>>
          /\ pc[p] \notin {"operands", "command"}
          /\ \E x \in {"round", "irq", "status", "event", "check", "clear", "restart", "close", "done"} : Goto(p, x)
      BY <3>1, Zenon DEF HostWorks, Setup, Go, SetValid, wait_for_irq, wait_for_status,
         wait_fast, Check, restart_afu, ClearDestination, Reallocate, Finish, Close, Return, At, queueVars, argVars
    <3>3. pc'[p] \notin {"operands", "command"}
      BY <3>2, FunctionTypes, Zenon DEF Goto
    <3>4. Still(p)
      BY <1>3, <1>4, <3>2, <3>3, Zenon DEF Still
    <3> QED
      BY <3>4, StillRing, Zenon
  <2> QED
    BY <2>1, <2>2, Zenon
<1>6. \A n \in 1 .. 3 : Ran(p, n)' <=> Ran(p, n)
  BY <1>4, <1>5, Zenon DEF Ran
<1> QED
  BY <1>1, <1>2, <1>3, <1>4, <1>6, PlainShared, Zenon

\* The round before is done with when one starts.
LEMMA StartRoundShared ==
  ASSUME IInv, NEW p \in Procs, StartRound(p), args.work = "atomic", ~Troubled'
  PROVE  Shared'
<1>1. Tidy(p) /\ Alright(p)' /\ Alright(p) /\ TypeOK /\ (trouble[p] => trouble'[p])
  BY ProcessStep, TroubleStays, FunctionTypes, Zenon DEF HostWorks
<1>2. /\ pc[p] = "round" /\ i' = [i EXCEPT ![p] = @ + 1] /\ Goto(p, "operands")
      /\ mem' = mem /\ engine' = engine
  BY Zenon DEF StartRound, At
<1>3. i'[p] = i[p] + 1 /\ pc'[p] = "operands" /\ i[p] \in Nat
  BY <1>1, <1>2, FunctionTypes, Types, Zenon DEF Goto
<1>4. Done(p)' = 0 /\ engine[p].phase = "fetch"
  <2>1. pc'[p] \in Posting
    BY <1>3, Zenon DEF Posting
  <2> QED
    BY <1>1, <1>2, <2>1, Zenon DEF Alright, Ring
<1>5. \A n \in 1 .. 3 : ~Ran(p, n)'
  BY <1>2, <1>4, SMTT(30), Z3T(30) DEF Ran
<1>6. i[p] # 0 => Ran(p, 2) /\ Ran(p, 3)
  <2>1. Done(p) = Posted(p) /\ (i[p] # 0 => Posted(p) = Size)
    BY <1>1, <1>2, PostedType, Zenon DEF Alright, Ring, Posting
  <2>2. Size >= 3
    BY SMTT(30), Z3T(30) DEF Size
  <2>3. Size \in 1 .. 4
    BY <1>1, PostedType, Zenon DEF Alright
  <2> QED
    BY <2>1, <2>2, <2>3, SMTT(30), Z3T(30) DEF Ran
<1>7. Increments' = Increments
  <2>1. ASSUME NEW j \in 1 .. args.loop_count PROVE Counted(p, j)' <=> Counted(p, j)
    <3>1. Counted(p, j)' <=> j < i[p] + 1
      BY <1>3, <1>5, Types, <1>1, SMTT(30), Z3T(30) DEF Counted
    <3>2. Counted(p, j) <=> j <= i[p]
      BY <1>1, <1>3, <1>6, Types, SMTT(30), Z3T(30) DEF Counted
    <3> QED
      BY <1>1, <1>3, <3>1, <3>2, Types, SMTT(30), Z3T(30)
  <2> QED
    BY <1>1, <2>1, IncrementsIs, Zenon
<1>8. ~Holds(p)'
  BY <1>5, SMTT(30), Z3T(30) DEF Holds
<1>9. mem'[Counter] = Cardinality(Increments')
  <2>1. ~Troubled
    BY <1>1, OthersShare, Zenon DEF Troubled
  <2> QED
    BY <1>2, <1>7, <2>1, Zenon DEF IInv, Shared
<1> QED
  BY <1>1, <1>2, <1>4, <1>8, <1>9, SharedStep, Zenon

\* How far the AFU gets in a step that does not complete the element.
LEMMA AfuRan ==
  ASSUME IInv, NEW p \in Procs, UNCHANGED <<queueVars, hostVars>>,
         engine'[p].at = engine[p].at, engine'[p].wrap = engine[p].wrap
  PROVE  /\ Done(p)' = Done(p) /\ i'[p] = i[p]
         /\ \A n : Ran(p, n)' <=> n <= Done(p) \/ (n = Done(p) + 1 /\ engine'[p].phase = "complete")
<1>1. Still(p) /\ i'[p] = i[p]
  BY Zenon DEF Still, queueVars, hostVars, argVars
<1>2. Done(p)' = Done(p)
  BY <1>1, StillRing, Zenon
<1> QED
  BY <1>1, <1>2, Zenon DEF Ran

\* The AFU fetches, completes or signals.
LEMMA SignalShared ==
  ASSUME IInv, NEW p \in Procs, UNCHANGED hostVars, args.work = "atomic", ~Troubled',
         Fetch(p) \/ Complete(p) \/ ExecuteIrq(p) \/ ExecuteWake(p) \/ ExecuteStop(p)
  PROVE  Shared'
<1>1. Tidy(p) /\ (trouble[p] => trouble'[p])
  BY ProcessStep, TroubleStays, Zenon DEF AfuWorks
<1>2. mem' = mem /\ i' = i
  BY Zenon DEF Fetch, Complete, ExecuteIrq, ExecuteWake, ExecuteStop, hostVars
<1>3. CASE Fetch(p)
  <2>1. /\ engine[p].phase = "fetch" /\ UNCHANGED queueVars
        /\ engine' = [engine EXCEPT ![p].phase = "execute", ![p].we = queue[p][engine[p].at]]
    BY <1>3, Zenon DEF Fetch
  <2>2. /\ engine'[p].at = engine[p].at /\ engine'[p].wrap = engine[p].wrap /\ engine'[p].phase = "execute"
    BY <2>1, FunctionTypes, ZenonT(60)
  <2>3. \A n \in 1 .. 3 : Ran(p, n)' <=> Ran(p, n)
    BY <2>1, <2>2, AfuRan, Zenon DEF Ran
  <2> QED
    BY <1>1, <1>2, <2>2, <2>3, PlainShared, Zenon
<1>4. CASE Complete(p)
  <2>1. engine[p].phase = "complete" /\ engine'[p].phase = "fetch" /\ Done(p)' = Done(p) + 1 /\ Done(p) \in 0 .. 3
    BY <1>4, CompletesOne, Zenon
  <2>2. \A n \in 1 .. 3 : Ran(p, n)' <=> Ran(p, n)
    BY <2>1, SMTT(30), Z3T(30) DEF Ran
  <2> QED
    BY <1>1, <1>2, <2>1, <2>2, PlainShared, Zenon
<1>5. CASE ExecuteIrq(p) \/ ExecuteWake(p) \/ ExecuteStop(p)
  <2>1. /\ engine[p].phase = "execute" /\ engine[p].we.cmd.name \in {"irq", "wake", "stop"} /\ UNCHANGED queueVars
        /\ \E status, stops : Outcome(p, status, stops)
    BY <1>5, Zenon DEF ExecuteIrq, ExecuteWake, ExecuteStop, Executing
  <2>2. engine'[p].at = engine[p].at /\ engine'[p].wrap = engine[p].wrap /\ engine'[p].phase = "complete"
    BY <2>1, FunctionTypes, OutcomeIs, Zenon
  <2>3. Done(p) + 1 \notin {1, 2, 3} /\ Done(p) \in 0 .. 3
    <3>1. /\ Done(p) + 1 \in 1 .. Size /\ args \in memcpy_test_args /\ Done(p) \in 0 .. 3
          /\ engine[p].we.cmd.name = Round(p)[Done(p) + 1].name
      BY <2>1, Executes, SMTT(30), Z3T(30)
    <3> QED
      BY <2>1, <3>1, RoundKinds, Zenon
  <2>4. \A n \in 1 .. 3 : Ran(p, n)' <=> Ran(p, n)
    BY <2>1, <2>2, <2>3, AfuRan, SMTT(30), Z3T(30) DEF Ran
  <2> QED
    BY <1>1, <1>2, <2>2, <2>4, PlainShared, Zenon
<1> QED
  BY <1>3, <1>4, <1>5, Zenon

\* The lock is taken, the counter is read and written, the lock is released.
LEMMA AtomicShared ==
  ASSUME IInv, NEW p \in Procs, UNCHANGED hostVars, args.work = "atomic", ~Troubled',
         ExecuteCopy(p) \/ ExecuteAtomic(p) \/ ExecuteLoad(p) \/ ExecuteStore(p)
  PROVE  Shared'
<1>1. Tidy(p) /\ (trouble[p] => trouble'[p]) /\ Alright(p)
  BY ProcessStep, TroubleStays, FunctionTypes, Zenon DEF AfuWorks
<1>2. ~Troubled /\ ~trouble[p]
  BY <1>1, OthersShare, Zenon DEF Troubled
<1>3. /\ \A q \in Procs : Holds(q) => mem[Lock] = 1
      /\ \A q, r \in Procs : Holds(q) /\ Holds(r) => q = r
      /\ \A q \in Procs : engine[q].phase = "store" => engine[q].loaded = mem[Counter]
      /\ mem[Counter] = Cardinality(Increments)
  BY <1>2, Zenon DEF IInv, Shared
<1>4. /\ engine[p].phase # "fetch" /\ engine[p].phase # "complete" /\ i[p] # 0
      /\ engine[p].phase = "execute" \/ engine[p].phase = "store"
      /\ UNCHANGED queueVars
      /\ \A n : Ran(p, n) <=> n <= Done(p)
  <2>1. /\ UNCHANGED queueVars
        /\ engine[p].phase = "execute" \/ engine[p].phase = "store"
    BY Zenon DEF ExecuteCopy, ExecuteAtomic, ExecuteLoad, ExecuteStore, Executing
  <2>2. engine[p].phase # "fetch" /\ engine[p].phase # "complete"
    BY <2>1, Zenon
  <2> QED
    BY <2>1, <2>2, Executes, Zenon DEF Ran
<1>5. Lock \in Addresses /\ Counter \in Addresses /\ Lock # Counter /\ mem \in [Addresses -> Nat]
  BY Apart, FunctionTypes, Zenon
<1>6. i[p] \in 1 .. args.loop_count
  BY <1>4, FunctionTypes, Types, SMTT(30), Z3T(30)
<1>7. ASSUME Ran(p, 2)' <=> Ran(p, 2) PROVE Increments' = Increments
  <2>1. i'[p] = i[p]
    BY Zenon DEF hostVars
  <2>2. \A j \in 1 .. args.loop_count : Counted(p, j)' <=> Counted(p, j)
    BY <1>7, <2>1, Zenon DEF Counted
  <2> QED
    BY <1>1, <2>2, IncrementsIs, Zenon
<1>8. CASE ExecuteAtomic(p)
  <2>1. /\ mem[engine[p].we.args.dst] = 0 /\ engine[p].we.cmd.name = "atomic"
        /\ mem' = [mem EXCEPT ![engine[p].we.args.dst] = 1] /\ Outcome(p, 1, FALSE)
    BY <1>8, Zenon DEF ExecuteAtomic, Executing
  <2>2. Done(p) = 0 /\ engine[p].we.args.dst = Lock
    BY <1>4, <2>1, ExecutesWhat, Zenon
  <2>3. /\ engine'[p].at = engine[p].at /\ engine'[p].wrap = engine[p].wrap /\ engine'[p].phase = "complete"
    BY <2>1, FunctionTypes, OutcomeIs, Zenon
  <2>4. Ran(p, 2)' <=> Ran(p, 2)
    BY <1>4, <2>2, <2>3, AfuRan, SMTT(30), Z3T(30)
  <2>5. mem'[Lock] = 1 /\ mem'[Counter] = mem[Counter] /\ \A q \in Procs : ~Holds(q)
    BY <1>3, <1>5, <2>1, <2>2, SMTT(30), Z3T(30)
  <2> QED
    BY <1>1, <1>3, <1>7, <2>3, <2>4, <2>5, SharedStep, Zenon
<1>9. CASE ExecuteLoad(p)
  <2>1. /\ engine[p].we.cmd.name = "increment" /\ mem' = mem
        /\ engine' = [engine EXCEPT ![p].phase = "store", ![p].loaded = mem[engine[p].we.args.src]]
    BY <1>9, Zenon DEF ExecuteLoad, Executing
  <2>2. Done(p) = 1 /\ engine[p].we.args.src = Counter
    BY <1>4, <2>1, ExecutesWhat, Zenon
  <2>3. /\ engine'[p].at = engine[p].at /\ engine'[p].wrap = engine[p].wrap /\ engine'[p].phase = "store"
        /\ engine'[p].loaded = mem[engine[p].we.args.src]
    BY <2>1, FunctionTypes, SMTT(30), Z3T(30)
  <2>4. Ran(p, 2)' <=> Ran(p, 2)
    BY <1>4, <2>2, <2>3, AfuRan, Zenon
  <2>5. Holds(p)
    BY <1>4, <2>2, SMTT(30), Z3T(30) DEF Holds
  <2> QED
    BY <1>1, <1>3, <1>7, <2>1, <2>2, <2>3, <2>4, <2>5, SharedStep, Zenon
<1>10. CASE ExecuteStore(p)
  <2>1. /\ mem' = [mem EXCEPT ![engine[p].we.args.dst] = engine[p].loaded + 1] /\ Outcome(p, 1, FALSE)
        /\ engine[p].phase = "store"
    BY <1>10, Zenon DEF ExecuteStore
  <2>2. /\ Done(p) = 1 /\ engine[p].we.args.dst = Counter /\ engine[p].loaded = mem[Counter]
    <3>1. engine[p].we.cmd.name = "increment"
      BY <1>1, <2>1, Zenon DEF Alright, Fetched
    <3> QED
      BY <1>3, <1>4, <2>1, <3>1, ExecutesWhat, Zenon
  <2>3. /\ engine'[p].at = engine[p].at /\ engine'[p].wrap = engine[p].wrap /\ engine'[p].phase = "complete"
    BY <2>1, FunctionTypes, OutcomeIs, Zenon
  <2>4. Ran(p, 2)' /\ ~Ran(p, 2) /\ i'[p] = i[p] /\ Ran(p, 1) /\ ~Ran(p, 3)
    BY <1>4, <2>2, <2>3, AfuRan, SMTT(30), Z3T(30)
  <2>5. Holds(p)
    BY <1>4, <2>4, Zenon DEF Holds
  <2>6. mem'[Lock] = mem[Lock] /\ mem'[Counter] = mem[Counter] + 1
    BY <1>5, <2>1, <2>2, Zenon
  <2>7. \A q \in Procs : engine[q].phase = "store" => q = p
    <3>1. ASSUME NEW q \in Procs, engine[q].phase = "store" PROVE Holds(q)
      <4>1. engine[q].we.cmd.name = "increment" /\ engine[q].phase # "fetch" /\ engine[q].phase # "complete"
        BY <3>1, FunctionTypes, Zenon DEF Alright, Fetched
      <4>2. Done(q) = 1 /\ i[q] # 0
        BY <4>1, ExecutesWhat, Executes, Zenon
      <4> QED
        BY <4>1, <4>2, SMTT(30), Z3T(30) DEF Holds, Ran
    <3> QED
      BY <1>3, <2>5, <3>1, Zenon
  <2>8. Increments' = Increments \cup {<<p, i[p]>>} /\ <<p, i[p]>> \notin Increments /\ IsFiniteSet(Increments)
    <3>1. PICK m \in 1 .. args.loop_count : m = i[p]
      BY <1>6, Zenon
    <3>2. /\ Counted(p, m)' /\ ~Counted(p, m)
          /\ \A j \in 1 .. args.loop_count : j # m => (Counted(p, j)' <=> Counted(p, j))
      BY <1>6, <2>4, <3>1, SMTT(30), Z3T(30) DEF Counted
    <3>3. Increments' = Increments \cup {<<p, m>>} /\ <<p, m>> \notin Increments /\ IsFiniteSet(Increments)
      BY <1>1, <3>1, <3>2, IncrementsIs, Zenon
    <3> QED
      BY <3>1, <3>3, Zenon
  <2>9. Cardinality(Increments') = Cardinality(Increments) + 1
    BY <2>8, FS_AddElement, Zenon
  <2> QED
    BY <1>1, <1>3, <2>3, <2>5, <2>6, <2>7, <2>9, SharedStep, Zenon
<1>11. CASE ExecuteCopy(p)
  <2>1. /\ mem' = [mem EXCEPT ![engine[p].we.args.dst] = mem[engine[p].we.args.src]] /\ Outcome(p, 1, FALSE)
        /\ engine[p].we.cmd.name = "copy"
    BY <1>11, Zenon DEF ExecuteCopy, Executing
  <2>2. Done(p) = 2 /\ engine[p].we.args.dst = Lock
    BY <1>4, <2>1, ExecutesWhat, Zenon
  <2>3. /\ engine'[p].at = engine[p].at /\ engine'[p].wrap = engine[p].wrap /\ engine'[p].phase = "complete"
    BY <2>1, FunctionTypes, OutcomeIs, Zenon
  <2>4. (Ran(p, 2)' <=> Ran(p, 2)) /\ Ran(p, 3)' /\ Ran(p, 1) /\ ~Ran(p, 3)
    BY <1>4, <2>2, <2>3, AfuRan, SMTT(30), Z3T(30)
  <2>5. Holds(p) /\ ~Holds(p)'
    BY <1>4, <2>4, Zenon DEF Holds
  <2>6. mem'[Counter] = mem[Counter]
    BY <1>5, <2>1, <2>2, Zenon
  <2> QED
    BY <1>1, <1>3, <1>7, <2>3, <2>4, <2>5, <2>6, SharedStep, Zenon
<1> QED
  BY <1>8, <1>9, <1>10, <1>11, Zenon

\* The lock and the counter through a step of a process or its AFU.
LEMMA ProcessShared ==
  ASSUME IInv, NEW p \in Procs,
         HostWorks(p) \/ HostFails(p) \/ ((AfuWorks(p) \/ ExecuteFails(p)) /\ UNCHANGED hostVars)
  PROVE  Shared'
<1>1. CASE args'.work = "atomic" /\ ~Troubled'
  <2>1. args.work = "atomic" /\ ~(HostFails(p) \/ ExecuteFails(p))
    BY <1>1, ProcessStep, TroubleStays, Zenon DEF Tidy, Troubled
  <2> QED
    BY <1>1, <2>1, HostShared, StartRoundShared, SignalShared, AtomicShared, Zenon DEF HostWorks, AfuWorks
<1>2. CASE ~(args'.work = "atomic" /\ ~Troubled')
  BY <1>2, Zenon DEF Shared
<1> QED
  BY <1>1, <1>2, Zenon

-------------------------------------------------------------------------------
(* The end of the test.                                                     *)

\* A process that has passed has no event left.
Clean == \A p \in Procs : result[p] = "pass" => irqs[p] = {}

\* Where a process is when it or its AFU takes a step, and who passes.
LEMMA Passing ==
  ASSUME IInv, NEW p \in Procs,
         HostWorks(p) \/ HostFails(p) \/ ((AfuWorks(p) \/ ExecuteFails(p)) /\ UNCHANGED hostVars)
  PROVE  /\ pc[p] # "done"
         /\ result'[p] = "pass" => irqs'[p] = irqs[p] /\ (result[p] = "pass" \/ irqs[p] = {})
<1>1. /\ Alright(p) /\ pc[p] \in Labels /\ result \in [Procs -> {"none", "pass", "fail"}]
      /\ pc \in [Procs -> Labels]
      /\ engine[p].enabled => pc[p] \notin {"setup", "done"}
      /\ result[p] = "pass" => pc[p] \in {"close", "done"} /\ engine[p].phase = "fetch"
  <2>1. result[p] = "pass" => engine[p].phase = "fetch"
    BY FunctionTypes, PostedType, SMTT(30), Z3T(30) DEF Alright, Place, Ring
  <2> QED
    BY <2>1, FunctionTypes, Zenon DEF Alright, Place
<1>2. CASE HostFails(p)
  <2>1. pc[p] # "done" /\ result'[p] = "fail"
    BY <1>1, <1>2, Zenon DEF HostFails, SetupFails, WaitFails, restart_afu_fails, ReallocateFails, FinishFails, At, Return
  <2> QED
    BY <2>1, Zenon
<1>3. CASE HostWorks(p) /\ ~Finish(p) /\ ~Close(p)
  <2>1. pc[p] \notin {"close", "done"} /\ (result' = result \/ result'[p] = "fail")
    <3>1. CASE Setup(p) \/ StartRound(p) \/ PutOperands(p) \/ PutCommand(p) \/ Mark(p) \/ Go(p)
      BY <1>1, <3>1, Zenon DEF Setup, StartRound, PutOperands, PutCommand, Mark, Go, At
    <3>2. CASE wait_for_irq(p) \/ wait_for_status(p) \/ wait_fast(p) \/ Check(p)
      BY <1>1, <3>2, Zenon DEF wait_for_irq, wait_for_status, wait_fast, Check, At, Return
    <3>3. CASE restart_afu(p) \/ ClearDestination(p) \/ Reallocate(p)
      BY <1>1, <3>3, Zenon DEF restart_afu, ClearDestination, Reallocate, At
    <3> QED
      BY <1>3, <3>1, <3>2, <3>3, Zenon DEF HostWorks
  <2> QED
    BY <1>1, <2>1, Zenon
<1>4. CASE Finish(p)
  <2>1. pc[p] = "round"
    BY <1>4, Zenon DEF Finish, At
  <2>2. (irqs[p] = {} /\ irqs' = irqs) \/ result'[p] = "fail"
    BY <1>1, <1>4, Zenon DEF Finish, Return
  <2> QED
    BY <2>1, <2>2, Zenon
<1>5. CASE Close(p)
  BY <1>5, Zenon DEF Close, At
<1>6. CASE (AfuWorks(p) \/ ExecuteFails(p)) /\ UNCHANGED hostVars
  <2>1. engine[p].enabled /\ result' = result
    BY <1>6, Zenon DEF AfuWorks, Fetch, ExecuteCopy, ExecuteAtomic, ExecuteLoad, ExecuteStore, ExecuteIrq, ExecuteWake,
                ExecuteStop, ExecuteFails, Executing, Complete, hostVars
  <2>2. Fetch(p) => irqs' = irqs
    BY Zenon DEF Fetch
  <2>3. engine[p].phase = "fetch" => Fetch(p)
    BY <1>6, Zenon DEF AfuWorks, ExecuteCopy, ExecuteAtomic, ExecuteLoad, ExecuteStore, ExecuteIrq, ExecuteWake,
                ExecuteStop, ExecuteFails, Executing, Complete
  <2> QED
    BY <1>1, <2>1, <2>2, <2>3, Zenon
<1> QED
  BY <1>2, <1>3, <1>4, <1>5, <1>6, Zenon

\* If all is well every increment of every process has been done at the end.
LEMMA AllIncrements ==
  ASSUME IInv, \A p \in Procs : pc[p] = "done", forked = args.processes, ~Troubled, args.work = "atomic"
  PROVE  mem[Counter] = Cardinality(args.processes) * args.loop_count
<1> DEFINE rounds == 1 .. args.loop_count
<1>1. /\ args.processes \subseteq Procs /\ args.loop_count \in Nat /\ Size \in 3 .. 4
  BY FunctionTypes, SMTT(30), Z3T(30) DEF TypeOK, memcpy_test_args, Size
<1>2. ASSUME NEW p \in Procs, NEW j \in rounds
      PROVE  Counted(p, j) <=> p \in args.processes
  <2>1. Alright(p) /\ TypeOK /\ i[p] \in 0 .. args.loop_count
    BY FunctionTypes, Zenon
  <2>2. CASE p \notin forked
    BY <1>1, <2>1, <2>2, SMTT(30), Z3T(30) DEF Alright, Place, Counted
  <2>3. CASE p \in forked
    <3>1. result[p] = "pass"
      <4>1. result[p] # "none" /\ result[p] # "fail"
        BY <2>1, <2>3, Zenon DEF Alright, Place, Errors, Troubled
      <4> QED
        BY <4>1, FunctionTypes, Zenon
    <3>2. i[p] = args.loop_count /\ Done(p) = Posted(p) /\ i[p] # 0
      BY <1>1, <2>1, <3>1, SMTT(30), Z3T(30) DEF Alright, Place, Ring
    <3>3. Posted(p) = Size
      BY <2>1, <3>2, Zenon DEF Posted, Alright, Place, Posting
    <3>4. Ran(p, 2)
      BY <1>1, <3>2, <3>3, SMTT(30), Z3T(30) DEF Ran
    <3> QED
      BY <1>1, <2>3, <3>2, <3>4, SMTT(30), Z3T(30) DEF Counted
  <2> QED
    BY <2>2, <2>3, Zenon
<1>3. Increments = args.processes \X rounds
  <2>1. Increments = {x \in Procs \X rounds : Counted(x[1], x[2])}
    BY Zenon DEF Increments, Counted
  <2> HIDE DEF rounds
  <2>2. \A x \in Procs \X rounds : Counted(x[1], x[2]) <=> x[1] \in args.processes
    BY <1>2, Zenon
  <2> QED
    BY <1>1, <2>1, <2>2, Zenon
<1>4. IsFiniteSet(args.processes) /\ IsFiniteSet(rounds) /\ Cardinality(rounds) = args.loop_count
  <2>1. args.processes \in SUBSET Procs /\ IsFiniteSet(Procs)
    BY <1>1, TestAssumption, Zenon
  <2>2. IsFiniteSet(args.processes)
    BY <2>1, FS_Subset, Zenon
  <2>3. IsFiniteSet(rounds) /\ Cardinality(rounds) = IF 1 > args.loop_count THEN 0 ELSE args.loop_count - 1 + 1
    BY <1>1, FS_Interval, SMTT(30), Z3T(30)
  <2> QED
    BY <1>1, <2>2, <2>3, SMTT(30), Z3T(30)
<1>5. Cardinality(Increments) = Cardinality(args.processes) * args.loop_count
  <2> HIDE DEF rounds
  <2> QED
    BY <1>3, <1>4, FS_Product, ZenonT(60)
<1> QED
  BY <1>5, Zenon DEF IInv, Shared

\* The inductive invariant of the test program.
TestInv == IInv /\ Clean

\* The invariant holds when main() has forked.
LEMMA TestInit ==
  ASSUME Init
  PROVE  TestInv
<1>1. /\ QueueLength \in Nat /\ QueueLength >= 4 /\ 0 \in Slots
      /\ args \in memcpy_test_args /\ args.loop_count \in Nat /\ args.processes \subseteq Procs
      /\ forked \subseteq args.processes
  BY QueueAssumption, TestAssumption, SMTT(30), Z3T(30) DEF Init, Slots, memcpy_test_args
<1>2. /\ Lock \in Addresses /\ Counter \in Addresses
      /\ \A p \in Procs : Src(p) \in Addresses /\ Dst(p) \in Addresses
  <2>1. Lock \in Addresses /\ Counter \in Addresses
    BY Zenon DEF Addresses
  <2> QED
    BY <2>1, Apart, Zenon
<1>3. /\ \A p \in Procs : NoElement(p) \in Elements
      /\ \A p \in Procs : /\ NoElement(p).status = 0 /\ NoElement(p).cmd.valid = FALSE
                          /\ NoElement(p).cmd.wrap = 0
  BY <1>2, Zenon DEF NoElement, Elements, Commands, Statuses
<1>4. /\ queue = [p \in Procs |-> [s \in Slots |-> NoElement(p)]]
      /\ next = [p \in Procs |-> 0] /\ wrap = [p \in Procs |-> 0]
      /\ engine = [p \in Procs |-> NoEngine(p)] /\ irqs = [p \in Procs |-> {}]
      /\ trouble = [p \in Procs |-> FALSE] /\ mem = [a \in Addresses |-> 0]
      /\ dst = [p \in Procs |-> IF args.work = "atomic" THEN Lock ELSE Dst(p)]
      /\ pc = [p \in Procs |-> IF p \in forked THEN "setup" ELSE "done"]
      /\ k = [p \in Procs |-> 1] /\ i = [p \in Procs |-> 0]
      /\ first_we = [p \in Procs |-> 0] /\ last_we = [p \in Procs |-> 0]
      /\ result = [p \in Procs |-> "none"] /\ verdict = "none"
  BY Zenon DEF Init, memcpy3_init_weq, AfuInit
<1>5. TypeOK
  <2>1. engine \in [Procs -> Engines]
    <3>1. ASSUME NEW p \in Procs PROVE NoEngine(p) \in Engines
      BY <1>1, <1>3, Zenon DEF NoEngine, Engines, Statuses
    <3> QED
      BY <1>4, <3>1, Zenon
  <2>2. /\ queue \in [Procs -> [Slots -> Elements]] /\ next \in [Procs -> Slots] /\ wrap \in [Procs -> {0, 1}]
        /\ irqs \in [Procs -> SUBSET Irqs] /\ mem \in [Addresses -> Nat] /\ trouble \in [Procs -> BOOLEAN]
    BY <1>1, <1>3, <1>4, Zenon
  <2>3. /\ dst \in [Procs -> Addresses] /\ k \in [Procs -> 1 .. 4] /\ i \in [Procs -> 0 .. args.loop_count]
        /\ first_we \in [Procs -> Slots] /\ last_we \in [Procs -> Slots]
        /\ result \in [Procs -> {"none", "pass", "fail"}] /\ verdict \in {"none", "successful", "failed"}
    BY <1>1, <1>2, <1>4, SMTT(30), Z3T(30)
  <2> QED
    BY <1>1, <2>1, <2>2, <2>3, Zenon DEF TypeOK, QueueTypeOK, Engines
<1>6. pc \in [Procs -> Labels]
  BY <1>4, Zenon DEF Labels
<1>7. ASSUME NEW p \in Procs PROVE Alright(p)
  <2>1. /\ next[p] = 0 /\ wrap[p] = 0 /\ engine[p] = NoEngine(p) /\ irqs[p] = {} /\ trouble[p] = FALSE
        /\ pc[p] = (IF p \in forked THEN "setup" ELSE "done") /\ k[p] = 1 /\ i[p] = 0 /\ first_we[p] = 0
        /\ last_we[p] = 0 /\ result[p] = "none"
        /\ dst[p] = (IF args.work = "atomic" THEN Lock ELSE Dst(p))
    BY <1>4, Zenon
  <2>2. engine[p].phase = "fetch" /\ engine[p].at = 0 /\ engine[p].wrap = 0 /\ engine[p].enabled = FALSE
    BY <2>1, SMTT(30), Z3T(30) DEF NoEngine
  <2>3. \A s \in Slots : queue[p][s].status = 0 /\ ~queue[p][s].cmd.valid
    BY <1>3, <1>4, Zenon
  <2>4. Posted(p) = 0
    BY <2>1, Zenon DEF Posted
  <2>5. FirstWrap(p) = 0 /\ Slot(p, 1) = 0
    BY <1>1, <2>1, <2>4, SMTT(30), Z3T(30) DEF FirstWrap, Lap, Slot, After
  <2>6. Done(p) = 0
    BY <2>1, <2>2, <2>5, SMTT(30), Z3T(30) DEF Done
  <2>7. Place(p)
    BY <1>1, <2>1, <2>2, Zenon DEF Place, Labels, Posting
  <2>8. Ring(p)
    BY <2>1, <2>2, <2>4, <2>5, <2>6, SMTT(30), Z3T(30) DEF Ring, Posting
  <2>9. Laps(p) /\ RoundElements(p) /\ Fetched(p)
    BY <2>1, <2>2, <2>3, <2>4, SMTT(30), Z3T(30) DEF Laps, RoundElements, Fetched
  <2>10. Errors(p) /\ Interrupts(p)
    BY <2>1, <2>2, <2>3, SMTT(30), Z3T(30) DEF Errors, Interrupts
  <2>11. Buffers(p)
    BY <2>1, Zenon DEF Buffers
  <2>12. Data(p)
    BY <1>2, <1>4, <2>1, <2>2, Zenon DEF Data, Source, Waiting
  <2> QED
    BY <2>7, <2>8, <2>9, <2>10, <2>11, <2>12, Zenon DEF Alright
<1>8. Shared
  <2>1. \A p \in Procs : ~Holds(p) /\ engine[p].phase # "store" /\ i[p] = 0
    BY <1>4, Zenon DEF Holds, NoEngine
  <2>2. Increments = {}
    BY <1>1, <2>1, SMTT(30), Z3T(30) DEF Increments
  <2>3. mem[Counter] = 0 /\ Cardinality({}) = 0
    BY <1>2, <1>4, FS_EmptySet, Zenon
  <2> QED
    BY <2>1, <2>2, <2>3, Zenon DEF Shared
<1>9. Judged /\ Clean
  BY <1>4, Zenon DEF Judged, Clean
<1> QED
  BY <1>5, <1>6, <1>7, <1>8, <1>9, Zenon DEF TestInv, IInv

\* Every step of a process or its AFU preserves the invariant.
LEMMA TestProcess ==
  ASSUME TestInv, NEW p \in Procs,
         HostWorks(p) \/ HostFails(p) \/ ((AfuWorks(p) \/ ExecuteFails(p)) /\ UNCHANGED hostVars)
  PROVE  TestInv'
<1>1. IInv /\ Clean
  BY Zenon DEF TestInv
<1>2. Tidy(p) /\ TypeOK' /\ pc' \in [Procs -> Labels] /\ \A q \in Procs : Alright(q)'
  BY <1>1, ProcessStep, Zenon
<1>3. Shared'
  BY <1>1, ProcessShared, Zenon
<1>4. pc[p] # "done" /\ (result'[p] = "pass" => irqs'[p] = irqs[p] /\ (result[p] = "pass" \/ irqs[p] = {}))
  BY <1>1, Passing, Zenon
<1>5. Judged'
  <2>1. verdict = "none" /\ verdict' = verdict
    BY <1>1, <1>2, <1>4, Zenon DEF IInv, TypeOK, Judged, Tidy
  <2> QED
    BY <2>1, Zenon DEF Judged
<1>6. Clean'
  <2>1. \A q \in Procs : q # p => Same(q)
    BY <1>1, <1>2, TidyMeans, Zenon
  <2>2. \A q \in Procs : q # p => irqs'[q] = irqs[q] /\ result'[q] = result[q]
    BY <2>1, Zenon DEF Same
  <2> QED
    BY <1>1, <1>4, <2>2, Zenon DEF Clean
<1> QED
  BY <1>2, <1>3, <1>5, <1>6, Zenon DEF TestInv, IInv

\* Nothing happens but that main() may come to its verdict.
LEMMA TestSame ==
  ASSUME TestInv, UNCHANGED <<queueVars, afuVars, trouble, argVars, pc, k, i, first_we, last_we, result>>,
         verdict' \in {"none", "successful", "failed"}, Judged'
  PROVE  TestInv'
<1>1. IInv /\ Clean
  BY Zenon DEF TestInv
<1>2. /\ queue' = queue /\ next' = next /\ wrap' = wrap /\ engine' = engine /\ irqs' = irqs /\ mem' = mem
      /\ trouble' = trouble /\ args' = args /\ forked' = forked /\ dst' = dst /\ pc' = pc /\ k' = k /\ i' = i
      /\ first_we' = first_we /\ last_we' = last_we /\ result' = result
  BY Zenon DEF queueVars, afuVars, argVars
<1>3. TypeOK' /\ pc' \in [Procs -> Labels]
  BY <1>1, <1>2, Zenon DEF IInv, TypeOK, QueueTypeOK
<1>4. ASSUME NEW p \in Procs PROVE Alright(p)'
  BY <1>1, <1>2, FunctionTypes, OtherAlright, Zenon DEF Same
<1>5. /\ \A p : Posted(p)' = Posted(p)
      /\ \A p : Done(p)' = Done(p)
  BY <1>2, Zenon DEF Posted, Done, FirstWrap, Lap
<1>6. \A p, n : Ran(p, n)' <=> Ran(p, n)
  BY <1>2, <1>5, Zenon DEF Ran
<1>7. \A p : Holds(p)' <=> Holds(p)
  BY <1>2, <1>6, Zenon DEF Holds
<1>8. Increments' = Increments /\ (Troubled' <=> Troubled)
  BY <1>2, <1>6, Zenon DEF Increments, Troubled
<1>9. Shared'
  BY <1>1, <1>2, <1>7, <1>8, Zenon DEF IInv, Shared
<1>10. Clean'
  BY <1>1, <1>2, Zenon DEF Clean
<1> QED
  BY <1>3, <1>4, <1>9, <1>10, Zenon DEF TestInv, IInv

\* main() has the last word.
LEMMA TestMain ==
  ASSUME TestInv, Main
  PROVE  TestInv'
<1>1. IInv /\ TypeOK /\ \A p \in Procs : Alright(p)
  BY FunctionTypes, Zenon DEF TestInv
<1>2. /\ \A p \in forked : pc[p] = "done"
      /\ verdict' \in IF \/ \E p \in forked : result[p] = "fail"
                    \/ /\ args.work = "atomic"
                       /\ mem[Counter] # Cardinality(args.processes) * args.loop_count
                 THEN {"failed"}
                 ELSE {"successful"} \cup IF forked = {} THEN {"failed"} ELSE {}
      /\ UNCHANGED <<queueVars, afuVars, trouble, argVars, pc, k, i, first_we, last_we, result>>
  BY Zenon DEF Main, At
<1>3. /\ mem' = mem /\ trouble' = trouble /\ args' = args /\ forked' = forked /\ pc' = pc /\ result' = result
  BY <1>2, Zenon DEF afuVars, argVars
<1>4. \A p \in Procs : pc[p] = "done"
  BY <1>1, <1>2, Zenon DEF Alright, Place
<1>5. /\ forked \subseteq Procs /\ args.processes # {}
      /\ result \in [Procs -> {"none", "pass", "fail"}]
  BY <1>1, Zenon DEF TypeOK, memcpy_test_args
<1>6. \A p \in forked : result[p] # "none" /\ (result[p] = "fail" => trouble[p])
  BY <1>1, <1>4, <1>5, Zenon DEF Alright, Place, Errors
<1>7. verdict' = "successful" =>
        /\ \A p \in forked : result[p] = "pass"
        /\ args.work = "atomic" => mem[Counter] = Cardinality(args.processes) * args.loop_count
  BY <1>2, <1>5, <1>6, Zenon
<1>8. verdict' = "failed" => forked # args.processes \/ Troubled
  <2> SUFFICES ASSUME verdict' = "failed", forked = args.processes, ~Troubled PROVE FALSE
    OBVIOUS
  <2>1. ~(\E p \in forked : result[p] = "fail")
    BY <1>5, <1>6, Zenon DEF Troubled
  <2>2. args.work = "atomic" => mem[Counter] = Cardinality(args.processes) * args.loop_count
    BY <1>1, <1>4, AllIncrements, Zenon
  <2> QED
    BY <1>2, <1>5, <2>1, <2>2, Zenon
<1>9. verdict' \in {"none", "successful", "failed"}
  BY <1>2, Zenon
<1>10. Judged'
  <2>1. Troubled' <=> Troubled
    BY <1>3, Zenon DEF Troubled
  <2> QED
    BY <1>3, <1>4, <1>7, <1>8, <2>1, Zenon DEF Judged
<1> QED
  BY <1>2, <1>9, <1>10, TestSame, Zenon

\* Every step preserves the invariant.
LEMMA TestNext ==
  ASSUME TestInv, [Next]_vars
  PROVE  TestInv'
<1>1. CASE Main
  BY <1>1, TestMain, Zenon
<1>2. CASE \E p \in Procs : \/ HostWorks(p) \/ HostFails(p) \/ Afu(p)
                            \/ ExecuteFails(p) /\ UNCHANGED hostVars
  BY <1>2, TestProcess, Zenon DEF Afu
<1>3. CASE UNCHANGED vars
  <2>1. /\ UNCHANGED <<queueVars, afuVars, trouble, argVars, pc, k, i, first_we, last_we, result>>
        /\ verdict' = verdict
    BY <1>3, Zenon DEF vars, hostVars
  <2>2. /\ mem' = mem /\ trouble' = trouble /\ args' = args /\ forked' = forked /\ pc' = pc /\ result' = result
    BY <2>1, Zenon DEF afuVars, argVars
  <2>3. verdict' \in {"none", "successful", "failed"} /\ Judged
    BY <2>1, Zenon DEF TestInv, IInv, TypeOK
  <2>4. Judged'
    BY <2>1, <2>2, <2>3, Zenon DEF Judged, Troubled
  <2> QED
    BY <2>1, <2>3, <2>4, TestSame, Zenon
<1> QED
  BY <1>1, <1>2, <1>3, Zenon DEF Next

\* Every step of a process of ocxl_memcpy, of its AFU and of main() preserves the
\* invariant.
THEOREM TestInvariant == Spec => []TestInv
<1>1. Init => TestInv
  BY TestInit, Zenon
<1>2. TestInv /\ [Next]_vars => TestInv'
  BY TestNext, Zenon
<1> QED
  BY <1>1, <1>2, PTL DEF Spec

-------------------------------------------------------------------------------
(* What the invariant shows.                                                *)

\* The queues, the engines of the AFU and the processes keep their types: in
\* particular next never leaves the queue of memcpy3_add_we().
THEOREM TestTypes == Spec => []TypeOK
<1>1. TestInv => TypeOK
  BY Zenon DEF TestInv, IInv
<1> QED
  BY <1>1, TestInvariant, PTL

\* Whatever the length of the queue and the number of rounds, the AFU executes
\* what memcpy3_add_we() put there in the current round, command and operands
\* together, for a buffer that the process still has.
THEOREM TestRunsWhatWasPosted == Spec => []RunsWhatWasPosted
<1>1. ASSUME TestInv PROVE RunsWhatWasPosted
  <2> SUFFICES ASSUME NEW p \in Procs, engine[p].phase # "fetch"
               PROVE  /\ engine[p].we.args.post = i[p]
                      /\ \E n \in 1 .. Len(Round(p)) :
                           /\ engine[p].we.cmd.name = Round(p)[n].name
                           /\ engine[p].we.args.src = Round(p)[n].src
                           /\ engine[p].we.args.dst = Round(p)[n].dst
    BY Zenon DEF RunsWhatWasPosted
  <2>1. IInv
    BY <1>1, Zenon DEF TestInv
  <2>2. /\ Alright(p) /\ args \in memcpy_test_args /\ Done(p) + 1 \in 1 .. Size
        /\ engine[p].we.cmd.name = Round(p)[Done(p) + 1].name
        /\ engine[p].we.args.src = Round(p)[Done(p) + 1].src
        /\ engine[p].we.args.dst = Round(p)[Done(p) + 1].dst
    BY <2>1, Executes, Zenon
  <2>3. Len(Round(p)) = Size
    BY <2>2, RoundIs, ZenonT(60)
  <2>4. engine[p].we.args.post = i[p]
    BY <2>2, SMTT(30), Z3T(30) DEF Alright, Fetched, Operands
  <2> QED
    BY <2>2, <2>3, <2>4, Zenon
<1> QED
  BY <1>1, TestInvariant, PTL

\* A process passes only when the AFU is through with all that was posted, and
\* main() says "Test successful" only if every process passed and, with the
\* lock, the counter has every increment.
THEOREM TestPassMeansDone == Spec => []PassMeansDone
<1>1. ASSUME TestInv PROVE PassMeansDone
  <2>1. IInv /\ Clean
    BY <1>1, Zenon DEF TestInv
  <2>2. ASSUME NEW p \in Procs, result[p] = "pass"
        PROVE  /\ engine[p].phase = "fetch" /\ engine[p].at = next[p] /\ engine[p].wrap = wrap[p]
               /\ \A j \in Slots : queue[p][j].cmd.valid => queue[p][j].status \in {1, 17}
    <3>1. TypeOK /\ Alright(p) /\ Place(p) /\ Ring(p) /\ Errors(p) /\ irqs[p] = {}
      BY <2>1, <2>2, FunctionTypes, Zenon DEF Alright, Clean
    <3>2. Done(p) = Posted(p) /\ Posted(p) \in 0 .. 4 /\ engine[p].phase = "fetch" /\ pc[p] # "command"
      BY <2>2, <3>1, PostedType, SMTT(30), Z3T(30) DEF Ring, Place
    <3>3. engine[p].at = next[p] /\ engine[p].wrap = wrap[p]
      BY <3>1, <3>2, EngineAt, Zenon
    <3>4. \A j \in Slots : queue[p][j].cmd.valid => queue[p][j].status \notin {0, 255}
      BY <2>2, <3>1, <3>2, SMTT(30), Z3T(30) DEF Errors
    <3>5. \A j \in Slots : queue[p][j].status \in {0, 1, 17, 255}
      BY <2>1, FunctionTypes, SMTT(30), Z3T(30) DEF Elements, Statuses
    <3> QED
      BY <3>2, <3>3, <3>4, <3>5, Zenon
  <2>3. Judged
    BY <2>1, Zenon DEF IInv
  <2> QED
    BY <2>2, <2>3, Zenon DEF PassMeansDone, Judged
<1> QED
  BY <1>1, TestInvariant, PTL

\* Neither a process nor main() fails unless a call failed or timed out, the AFU
\* reported an error or a process could not be forked: no copy arrives late, no
\* interrupt is missed or left over, and no increment under the lock is lost.
THEOREM TestFailsOnlyInTrouble == Spec => []FailsOnlyInTrouble
<1>1. ASSUME TestInv PROVE FailsOnlyInTrouble
  <2>1. \A p \in Procs : result[p] = "fail" => trouble[p]
    BY <1>1, FunctionTypes, Zenon DEF TestInv, Alright, Errors
  <2>2. Judged
    BY <1>1, Zenon DEF TestInv, IInv
  <2> QED
    BY <2>1, <2>2, Zenon DEF FailsOnlyInTrouble, Judged, Troubled
<1> QED
  BY <1>1, TestInvariant, PTL

===============================================================================

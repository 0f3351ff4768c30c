---------------------------- MODULE MemcpyTestSteps ----------------------------
(***************************************************************************)
(* The steps of the AFU of ocxl_memcpy, and what every step of a process   *)
(* leaves alone.                                                           *)
(***************************************************************************)
EXTENDS MemcpyTestInvariant

-------------------------------------------------------------------------------
(* The AFU.                                                                 *)

\* The buffers of a process, of another one, the lock and the counter are apart.
LEMMA Apart ==
  ASSUME NEW p \in Procs
  PROVE  /\ {Src(p), Dst(p), NewSrc(p), NewDst(p), Lock, Counter} \subseteq Addresses
         /\ Lock # Counter /\ Src(p) \notin {Dst(p), NewDst(p), Lock, Counter}
         /\ NewSrc(p) \notin {Dst(p), NewDst(p), Lock, Counter}
         /\ Dst(p) \notin {NewDst(p), Lock, Counter} /\ NewDst(p) \notin {Lock, Counter}
         /\ \A q \in Procs \ {p} :
              {Src(q), Dst(q), NewSrc(q), NewDst(q)} \cap {Src(p), Dst(p), NewSrc(p), NewDst(p)} = {}
<1>1. {Src(p), Dst(p), NewSrc(p), NewDst(p)} \in {{Src(q), Dst(q), NewSrc(q), NewDst(q)} : q \in Procs}
  BY Zenon
<1>2. {Src(p), Dst(p), NewSrc(p), NewDst(p), Lock, Counter} \subseteq Addresses
  <2> DEFINE private == UNION {{Src(q), Dst(q), NewSrc(q), NewDst(q)} : q \in Procs}
  <2>1. Src(p) \in private /\ Dst(p) \in private /\ NewSrc(p) \in private /\ NewDst(p) \in private
    BY <1>1, Zenon
  <2>2. Addresses = private \cup {Lock, Counter}
    BY Zenon DEF Addresses
  <2> HIDE DEF private
  <2> QED
    BY <2>1, <2>2, Zenon
<1>3. /\ \A a, b, x, y : a # b => <<x, a>> # <<y, b>>
      /\ \A a, b, x, y : x # y => <<x, a>> # <<y, b>>
      /\ "src" # "dst" /\ "src" # "new dst" /\ "dst" # "new dst" /\ "lock" # "counter"
      /\ "new src" # "dst" /\ "new src" # "new dst"
      /\ \A a \in {"src", "dst", "new src", "new dst"} : a # "lock" /\ a # "counter"
  OBVIOUS
<1>4. /\ Lock # Counter /\ Src(p) \notin {Dst(p), NewDst(p), Lock, Counter}
      /\ Dst(p) \notin {NewDst(p), Lock, Counter} /\ NewDst(p) \notin {Lock, Counter}
  BY <1>3, Zenon DEF Src, Dst, NewDst, Lock, Counter
<1>6. NewSrc(p) \notin {Dst(p), NewDst(p), Lock, Counter}
  BY <1>3, Zenon DEF NewSrc, Dst, NewDst, Lock, Counter
<1>5. ASSUME NEW q \in Procs \ {p}
      PROVE  {Src(q), Dst(q), NewSrc(q), NewDst(q)} \cap {Src(p), Dst(p), NewSrc(p), NewDst(p)} = {}
  <2>1. \A a, b : <<q, a>> # <<p, b>>
    BY <1>3, ZenonT(30)
  <2> QED
    BY <2>1, ZenonT(30) DEF Src, Dst, NewSrc, NewDst
<1> QED
  BY <1>2, <1>4, <1>5, <1>6, Zenon

\* The AFU is at an element: the process has posted the round, and it is part of it.
LEMMA Executes ==
  ASSUME IInv, NEW p \in Procs, engine[p].phase # "fetch"
  PROVE  /\ TypeOK /\ Alright(p) /\ args \in memcpy_test_args
         /\ pc[p] \notin Posting /\ i[p] # 0 /\ Posted(p) = Size /\ Size \in 1 .. 4
         /\ Done(p) \in 0 .. 4 /\ Done(p) + 1 \in 1 .. Size /\ Done(p) < Posted(p)
         /\ engine[p].we.cmd.name = Round(p)[Done(p) + 1].name
         /\ engine[p].we.args.src = Round(p)[Done(p) + 1].src
         /\ engine[p].we.args.dst = Round(p)[Done(p) + 1].dst
<1>1. TypeOK /\ Alright(p) /\ args \in memcpy_test_args
  BY FunctionTypes, Types, Zenon
<1>2. Done(p) \in 0 .. 4 /\ Posted(p) \in 0 .. 4 /\ Done(p) < Posted(p) /\ pc[p] \notin Posting /\ Size \in 1 .. 4
  BY <1>1, EngineAt, PostedType, Zenon DEF Alright, Ring
<1>3. i[p] # 0 /\ Posted(p) = Size
  BY <1>1, <1>2, PostedType, SMTT(30), Z3T(30) DEF Alright
<1>4. engine[p].we.cmd.name = Round(p)[Done(p) + 1].name /\ engine[p].we.args = Operands(p, Done(p) + 1)
  BY <1>1, Zenon DEF Alright, Fetched
<1> QED
  BY <1>1, <1>2, <1>3, <1>4, SMTT(30), Z3T(30) DEF Operands

\* Without trouble, the process waits for an element that has not been executed.
LEMMA Underway ==
  ASSUME IInv, NEW p \in Procs, engine[p].enabled, engine[p].phase \in {"execute", "store"}, ~trouble[p]
  PROVE  /\ pc[p] \in {"irq", "status"} /\ "afu" \notin irqs[p]
         /\ args.completion = "irq" => pc[p] = "irq"
         /\ args.completion # "irq" => pc[p] = "status"
<1>1. Alright(p) /\ pc[p] \notin Posting /\ i[p] # 0 /\ Done(p) < Posted(p) /\ Posted(p) = Size
      /\ Done(p) \in 0 .. 4 /\ Size \in 1 .. 4
  BY Executes, Zenon
<1>2. pc[p] \notin {"setup", "done", "event", "check", "restart", "clear", "round"} /\ result[p] # "pass"
  BY <1>1, SMTT(30), Z3T(30) DEF Alright, Place, Ring
<1>3. result[p] # "fail" /\ result[p] \in {"none", "pass", "fail"}
  BY <1>1, FunctionTypes, SMTT(30), Z3T(30) DEF Alright, Errors
<1>4. pc[p] \in {"irq", "status"}
  BY <1>1, <1>2, <1>3, Zenon DEF Alright, Place, Labels, Posting
<1>5. ~Ran(p, Size) /\ ~Refused(p)
  BY <1>1, SMTT(30), Z3T(30) DEF Ran, Refused
<1> QED
  BY <1>1, <1>4, <1>5, Zenon DEF Alright, Interrupts, Place

\* A step of the AFU within an element.
LEMMA AfuStep ==
  ASSUME IInv, NEW p \in Procs, UNCHANGED <<queueVars, hostVars>>, Done(p) < Posted(p), pc[p] \notin Posting,
         engine'[p].at = engine[p].at, engine'[p].wrap = engine[p].wrap,
         (engine'[p].enabled => engine[p].enabled), engine'[p].phase # "fetch",
         "err" \in irqs[p] => "err" \in irqs'[p], "err" \in irqs'[p] \/ result[p] = "fail" => trouble'[p],
         engine'[p].phase = "complete" /\ engine'[p].outcome = 255 => "err" \in irqs'[p],
         Fetched(p)', Interrupts(p)', Data(p)'
  PROVE  Alright(p)'
<1>1. TypeOK /\ Alright(p)
  BY FunctionTypes, Zenon
<1>2. /\ queue' = queue /\ next' = next /\ wrap' = wrap /\ args' = args /\ forked' = forked /\ dst' = dst
      /\ pc' = pc /\ k' = k /\ i' = i /\ first_we' = first_we /\ last_we' = last_we /\ result' = result
  BY Zenon DEF queueVars, hostVars, argVars
<1>3. Still(p)
  BY <1>2, Zenon DEF Still
<1>4. /\ Size' = Size /\ Posted(p)' = Posted(p) /\ Done(p)' = Done(p)
      /\ \A n : Slot(p, n)' = Slot(p, n)
      /\ \A s : LapOf(p, s)' = LapOf(p, s)
  BY <1>3, StillRing, Zenon
<1>5. \A n : Round(p)' = Round(p) /\ Operands(p, n)' = Operands(p, n)
  BY <1>2, RoundStays, Zenon DEF Operands
<1>6. Place(p)'
  BY <1>1, <1>2, <1>4, Zenon DEF Alright, Place
<1>7. Ring(p)'
  BY <1>1, <1>2, <1>4, Zenon DEF Alright, Ring
<1>8. Laps(p)' /\ Buffers(p)'
  BY <1>1, <1>2, <1>4, Zenon DEF Alright, Laps, Buffers
<1>9. RoundElements(p)'
  <2>1. ASSUME NEW n \in 1 .. Posted(p) PROVE Element(p, n)'
    <3>1. Element(p, n)
      BY <1>1, Zenon DEF Alright, RoundElements
    <3> QED
      BY <1>2, <1>4, <1>5, <3>1, Zenon DEF Element
  <2>2. pc'[p] # "command"
    BY <1>2, ZenonT(30) DEF Posting
  <2> QED
    BY <1>4, <2>1, <2>2, Zenon DEF RoundElements
<1>10. Errors(p)'
  <2>1. Errors(p)
    BY <1>1, Zenon DEF Alright
  <2> QED
    BY <1>2, <1>4, <2>1, ZenonT(30) DEF Errors
<1> QED
  BY <1>6, <1>7, <1>8, <1>9, <1>10, Zenon DEF Alright

\* The process is not adding elements when the AFU fetches one, and the AFU
\* never fetches what an earlier lap has left behind.
LEMMA FetchStep ==
  ASSUME IInv, NEW p \in Procs, Fetch(p), UNCHANGED hostVars
  PROVE  Alright(p)'
<1> DEFINE at == engine[p].at
<1>1. /\ engine[p].enabled /\ engine[p].phase = "fetch" /\ queue[p][at].cmd.valid
      /\ queue[p][at].cmd.wrap = engine[p].wrap
      /\ engine' = [engine EXCEPT ![p].phase = "execute", ![p].we = queue[p][at]]
      /\ UNCHANGED <<queueVars, irqs, mem, trouble>>
  BY Zenon DEF Fetch
<1>2. /\ TypeOK /\ Alright(p) /\ at \in Slots /\ wrap[p] \in {0, 1} /\ Posted(p) \in 0 .. 4
      /\ next[p] \in Slots /\ QueueLength \in Nat
  BY FunctionTypes, Types, PostedType, Zenon DEF Alright
<1>3. /\ Done(p) \in 0 .. 4 /\ Done(p) <= Posted(p) /\ at = Slot(p, Done(p) + 1)
      /\ Done(p) = Posted(p) => at = next[p] /\ engine[p].wrap = wrap[p]
  BY <1>2, EngineAt, Zenon DEF Alright
<1>4. queue[p][at].cmd.wrap = LapOf(p, at)
  BY <1>1, <1>2, Zenon DEF Alright, Laps
<1>5. Done(p) < Posted(p)
  <2>1. LapOf(p, next[p]) = 1 - wrap[p] /\ 1 - wrap[p] # wrap[p]
    BY <1>2, SMTT(30), Z3T(30) DEF LapOf, Slots
  <2>2. Done(p) # Posted(p)
    BY <1>1, <1>3, <1>4, <2>1, ZenonT(30)
  <2> QED
    BY <1>2, <1>3, <2>2, SMTT(30), Z3T(30)
<1>6. Element(p, Done(p) + 1)
  BY <1>2, <1>3, <1>5, SMTT(30), Z3T(30) DEF Alright, RoundElements
<1>7. pc[p] \notin Posting
  <2>1. pc[p] \in Posting => Done(p) + 1 = 1
    BY <1>2, SMTT(30), Z3T(30) DEF Alright, Ring
  <2> QED
    BY <1>1, <1>3, <1>6, <2>1, ZenonT(30) DEF Element
<1>8. /\ engine'[p].at = at /\ engine'[p].wrap = engine[p].wrap /\ (engine'[p].enabled => engine[p].enabled)
      /\ engine'[p].phase = "execute" /\ engine'[p].we = queue[p][at]
  BY <1>1, FunctionTypes, Zenon
<1>9. Still(p)
  BY <1>1, <1>8, Zenon DEF Still, queueVars, hostVars, argVars
<1>10. /\ Done(p)' = Done(p) /\ Size' = Size
       /\ \A n : Round(p)' = Round(p) /\ Operands(p, n)' = Operands(p, n)
       /\ args' = args /\ pc' = pc /\ dst' = dst
  BY <1>9, StillRing, RoundStays, Zenon DEF Operands, hostVars, argVars
<1>11. Fetched(p)'
  <2>1. queue[p][at].cmd.name = Round(p)[Done(p) + 1].name /\ queue[p][at].args = Operands(p, Done(p) + 1)
    BY <1>3, <1>6, SMTT(30), Z3T(30) DEF Element
  <2> QED
    BY <1>8, <1>10, <2>1, ZenonT(30) DEF Fetched
<1>12. \A n : Ran(p, n)' = Ran(p, n)
  BY <1>1, <1>8, <1>10, Zenon DEF Ran
<1>13. Interrupts(p)'
  <2>1. Refused(p)' = Refused(p)
    BY <1>1, <1>8, <1>10, Zenon DEF Refused, LastStatus, queueVars, hostVars
  <2> QED
    BY <1>1, <1>2, <1>10, <1>12, <2>1, Zenon DEF Alright, Interrupts
<1>14. Data(p)'
  BY <1>1, <1>2, <1>8, <1>10, <1>12, Zenon DEF Alright, Data, Source
<1>15. ("err" \in irqs'[p] \/ result[p] = "fail" => trouble'[p]) /\ irqs' = irqs
  BY <1>1, <1>2, Zenon DEF Alright, Errors
<1> QED
  BY <1>1, <1>5, <1>7, <1>8, <1>11, <1>13, <1>14, <1>15, AfuStep, Zenon

\* What the end of an element's execution changes of the AFU.
LEMMA OutcomeIs ==
  ASSUME NEW p \in Procs, NEW status, NEW stops, Outcome(p, status, stops),
         engine \in [Procs -> [enabled : BOOLEAN, stopped : BOOLEAN, at : Slots, wrap : {0, 1},
                              phase : {"fetch", "execute", "store", "complete"}, we : Elements,
                              outcome : Statuses, loaded : Nat]]
  PROVE  /\ engine'[p].at = engine[p].at /\ engine'[p].wrap = engine[p].wrap
         /\ (engine'[p].enabled => engine[p].enabled)
         /\ engine'[p].phase = "complete" /\ engine'[p].we = engine[p].we
         /\ engine'[p].outcome = status /\ engine'[p].loaded = engine[p].loaded
         /\ \A q \in Procs : q # p => engine'[q] = engine[q]
  BY SMTT(30), Z3T(30) DEF Outcome

\* An element is executed: what remains to be shown are the interrupts and the data.
LEMMA OutcomeStep ==
  ASSUME IInv, NEW p \in Procs, engine[p].enabled, engine[p].phase \in {"execute", "store"},
         NEW status \in {1, 17, 255}, NEW stops \in BOOLEAN, Outcome(p, status, stops),
         UNCHANGED <<queueVars, hostVars>>, irqs[p] \subseteq irqs'[p],
         status = 17 => engine[p].we.cmd.name = "wake",
         status = 255 => "err" \in irqs'[p],
         "err" \in irqs'[p] \/ result[p] = "fail" => trouble'[p]
  PROVE  /\ engine'[p].phase = "complete" /\ engine'[p].outcome = status /\ engine'[p].we = engine[p].we
         /\ Done(p)' = Done(p) /\ Size' = Size
         /\ Interrupts(p)' /\ Data(p)' => Alright(p)'
<1>1. /\ engine'[p].at = engine[p].at /\ engine'[p].wrap = engine[p].wrap
      /\ (engine'[p].enabled => engine[p].enabled)
      /\ engine'[p].phase = "complete" /\ engine'[p].we = engine[p].we /\ engine'[p].outcome = status
  <2>1. engine \in [Procs -> [enabled : BOOLEAN, stopped : BOOLEAN, at : Slots, wrap : {0, 1},
                               phase : {"fetch", "execute", "store", "complete"}, we : Elements,
                               outcome : Statuses, loaded : Nat]]
    BY FunctionTypes, Zenon
  <2> QED
    BY <2>1, OutcomeIs, SMT
<1>2. Still(p)
  BY <1>1, Zenon DEF Still, queueVars, hostVars, argVars
<1>3. /\ Done(p)' = Done(p) /\ Size' = Size
      /\ \A n : Round(p)' = Round(p) /\ Operands(p, n)' = Operands(p, n)
  BY <1>2, StillRing, RoundStays, Zenon DEF Operands, hostVars, argVars
<1>4. /\ pc[p] \notin Posting /\ Done(p) < Posted(p) /\ Fetched(p)
  BY Executes, ZenonT(30) DEF Alright
<1>5. Fetched(p)'
  BY <1>1, <1>3, <1>4, SMTT(30), Z3T(30) DEF Fetched
<1>6. Interrupts(p)' /\ Data(p)' => Alright(p)'
  BY <1>1, <1>4, <1>5, AfuStep, Zenon
<1> QED
  BY <1>1, <1>3, <1>6, Zenon

\* The element is a command to the host: a round's work is done, or there is an error.
LEMMA Signals ==
  ASSUME IInv, NEW p \in Procs, Done(p) + 1 \in 1 .. Size, Done(p) \in 0 .. 4, args \in memcpy_test_args,
         engine[p].we.cmd.name = Round(p)[Done(p) + 1].name,
         engine[p].we.cmd.name \notin {"copy", "atomic", "increment"}
  PROVE  Ran(p, 1)
<1>1. args.work \in {"copy", "atomic", "increment"}
  BY Zenon DEF memcpy_test_args
<1>2. Done(p) + 1 # 1
  BY <1>1, RoundKinds, Zenon
<1> QED
  BY <1>2, SMTT(30), Z3T(30) DEF Ran

\* The AFU's interrupt keeps its process alright.
LEMMA ExecuteIrqStep ==
  ASSUME IInv, NEW p \in Procs, ExecuteIrq(p), UNCHANGED hostVars
  PROVE  Alright(p)'
<1>1. /\ engine[p].enabled /\ engine[p].phase = "execute" /\ engine[p].we.cmd.name = "irq"
      /\ irqs' = [irqs EXCEPT ![p] = @ \cup {"afu"}] /\ Outcome(p, 1, TRUE)
      /\ UNCHANGED <<queueVars, mem, trouble>>
  BY Zenon DEF ExecuteIrq, Executing
<1>2. irqs'[p] = irqs[p] \cup {"afu"}
  BY <1>1, FunctionTypes, Zenon
<1>3. Alright(p) /\ ("err" \in irqs'[p] \/ result[p] = "fail" => trouble'[p])
  BY <1>1, <1>2, FunctionTypes, ZenonT(30) DEF Alright, Errors
<1>4. /\ engine'[p].phase = "complete" /\ Done(p)' = Done(p) /\ Size' = Size
      /\ Interrupts(p)' /\ Data(p)' => Alright(p)'
  <2>1. irqs[p] \subseteq irqs'[p] /\ 1 \in {1, 17, 255} /\ TRUE \in BOOLEAN /\ 1 # 17 /\ 1 # 255
    BY <1>2, SMTT(30), Z3T(30)
  <2> QED
    BY <1>1, <1>3, <2>1, OutcomeStep, ZenonT(30)
<1>5. /\ Done(p) + 1 \in 1 .. Size /\ args \in memcpy_test_args /\ Done(p) \in 0 .. 4
      /\ engine[p].we.cmd.name = Round(p)[Done(p) + 1].name
  BY <1>1, Executes, Zenon
<1>6. args.completion = "irq" /\ Done(p) + 1 = Size
  BY <1>1, <1>5, RoundKinds, SMTT(30), Z3T(30)
<1>7. /\ ~trouble[p] => pc[p] = "irq"
      /\ pc' = pc /\ args' = args /\ dst' = dst
  BY <1>1, <1>6, Underway, Zenon DEF hostVars, argVars
<1>8. Ran(p, Size)' /\ Ran(p, 1)
  BY <1>1, <1>4, <1>5, <1>6, Signals, Zenon DEF Ran
<1>9. Interrupts(p)'
  BY <1>1, <1>7, <1>8, Zenon DEF Interrupts
<1>10. Data(p)'
  BY <1>1, <1>3, <1>4, <1>7, <1>8, Zenon DEF Alright, Data, Source
<1> QED
  BY <1>4, <1>9, <1>10, Zenon

\* The AFU's wake up, or the interrupt instead of it, keeps its process alright.
LEMMA ExecuteWakeStep ==
  ASSUME IInv, NEW p \in Procs, ExecuteWake(p), UNCHANGED hostVars
  PROVE  Alright(p)'
<1>1. PICK status \in {1, 17} : \E stops \in BOOLEAN :
         /\ Outcome(p, status, stops)
         /\ \/ status = 1 /\ irqs' = irqs
            \/ status = 17 /\ irqs' = [irqs EXCEPT ![p] = @ \cup {"afu"}]
  BY Zenon DEF ExecuteWake
<1>2. /\ engine[p].enabled /\ engine[p].phase = "execute" /\ engine[p].we.cmd.name = "wake"
      /\ UNCHANGED <<queueVars, mem, trouble>>
  BY Zenon DEF ExecuteWake, Executing
<1>3. irqs'[p] = IF status = 17 THEN irqs[p] \cup {"afu"} ELSE irqs[p]
  <2>1. irqs \in [Procs -> SUBSET Irqs] /\ 1 # 17
    BY FunctionTypes, SMTT(30), Z3T(30)
  <2> QED
    BY <1>1, <2>1, Zenon
<1>4. Alright(p) /\ irqs[p] \subseteq irqs'[p] /\ ("err" \in irqs'[p] \/ result[p] = "fail" => trouble'[p])
  BY <1>1, <1>2, <1>3, FunctionTypes, SMTT(30), Z3T(30) DEF Alright, Errors
<1>5. /\ engine'[p].phase = "complete" /\ engine'[p].outcome = status /\ Done(p)' = Done(p) /\ Size' = Size
      /\ Interrupts(p)' /\ Data(p)' => Alright(p)'
  <2>1. PICK stops \in BOOLEAN : Outcome(p, status, stops)
    BY <1>1, Zenon
  <2> QED
    BY <1>1, <1>2, <1>4, <2>1, OutcomeStep, SMTT(30), Z3T(30)
<1>6. /\ Done(p) + 1 \in 1 .. Size /\ args \in memcpy_test_args /\ Done(p) \in 0 .. 4 /\ Size \in 1 .. 4
      /\ engine[p].we.cmd.name = Round(p)[Done(p) + 1].name
  BY <1>2, Executes, Zenon
<1>7. args.completion = "wake" /\ Done(p) + 1 = Size
  BY <1>2, <1>6, RoundKinds, SMTT(30), Z3T(30)
<1>8. /\ ~trouble[p] => pc[p] = "status" /\ "afu" \notin irqs[p]
      /\ pc' = pc /\ args' = args /\ dst' = dst
  BY <1>2, <1>7, Underway, Zenon DEF hostVars, argVars
<1>9. Ran(p, 1)
  BY <1>2, <1>6, Signals, Zenon
<1>10. status = 17 => Refused(p)'
  BY <1>5, <1>6, <1>7, SMTT(30), Z3T(30) DEF Refused
<1>11. Interrupts(p)'
  BY <1>2, <1>3, <1>7, <1>8, <1>10, Zenon DEF Interrupts
<1>12. Data(p)'
  BY <1>2, <1>4, <1>5, <1>8, <1>9, Zenon DEF Alright, Data, Source
<1> QED
  BY <1>5, <1>11, <1>12, Zenon

\* The AFU executes what has no effect on the interrupts.
LEMMA WorkStep ==
  ASSUME IInv, NEW p \in Procs, engine[p].enabled, engine[p].phase \in {"execute", "store"},
         NEW stops \in BOOLEAN, Outcome(p, 1, stops),
         UNCHANGED <<queueVars, irqs, trouble, hostVars>>
  PROVE  /\ Done(p)' = Done(p) /\ engine'[p].phase = "complete"
         /\ args' = args /\ pc' = pc /\ dst' = dst
         /\ Data(p)' => Alright(p)'
<1>1. Alright(p) /\ irqs[p] \subseteq irqs'[p] /\ ("err" \in irqs'[p] \/ result[p] = "fail" => trouble'[p])
  BY FunctionTypes, ZenonT(30) DEF Alright, Errors
<1>2. /\ engine'[p].phase = "complete" /\ Done(p)' = Done(p)
      /\ Interrupts(p)' /\ Data(p)' => Alright(p)'
  BY <1>1, OutcomeStep, SMTT(30), Z3T(30)
<1>3. args' = args /\ pc' = pc /\ dst' = dst
  BY Zenon DEF hostVars, argVars
<1>4. Interrupts(p)'
  BY <1>3, Underway, Zenon DEF Interrupts
<1> QED
  BY <1>2, <1>3, <1>4, Zenon

\* The AFU's stop element, which no round has, keeps its process alright.
LEMMA ExecuteStopStep ==
  ASSUME IInv, NEW p \in Procs, ExecuteStop(p), UNCHANGED hostVars
  PROVE  Alright(p)'
<1>1. /\ engine[p].enabled /\ engine[p].phase = "execute" /\ engine[p].we.cmd.name = "stop"
      /\ Outcome(p, 1, TRUE) /\ UNCHANGED <<queueVars, irqs, mem, trouble>>
  BY Zenon DEF ExecuteStop, Executing
<1>2. /\ Done(p)' = Done(p) /\ engine'[p].phase = "complete" /\ args' = args /\ pc' = pc /\ dst' = dst
      /\ Data(p)' => Alright(p)'
  BY <1>1, WorkStep, Zenon
<1>3. Ran(p, 1) /\ Alright(p)
  BY <1>1, Executes, Signals, Zenon
<1>4. Data(p)'
  BY <1>1, <1>2, <1>3, Zenon DEF Alright, Data, Source
<1> QED
  BY <1>2, <1>4, Zenon

\* The element that the AFU executes, by its command.
LEMMA ExecutesWhat ==
  ASSUME IInv, NEW p \in Procs, engine[p].phase # "fetch"
  PROVE  /\ engine[p].we.cmd.name = "copy" =>
              \/ /\ args.work = "atomic" /\ Done(p) = 2
                 /\ engine[p].we.args.src = Src(p) /\ engine[p].we.args.dst = Lock
              \/ /\ args.work = "copy" /\ Done(p) = 0
                 /\ engine[p].we.args.src = Source(p, dst[p]) /\ engine[p].we.args.dst = dst[p]
         /\ engine[p].we.cmd.name = "atomic" =>
              args.work = "atomic" /\ Done(p) = 0 /\ engine[p].we.args.dst = Lock
         /\ engine[p].we.cmd.name = "increment" =>
              \/ /\ args.work = "atomic" /\ Done(p) = 1
                 /\ engine[p].we.args.src = Counter /\ engine[p].we.args.dst = Counter
              \/ /\ args.work = "increment" /\ Done(p) = 0
                 /\ engine[p].we.args.src = Src(p) /\ engine[p].we.args.dst = Dst(p)
<1>1. args \in memcpy_test_args /\ Done(p) \in 0 .. 4 /\ Done(p) + 1 \in 1 .. Size
  BY Executes, Zenon
<1>2. PICK n \in 1 .. Size : n = Done(p) + 1
  BY <1>1, Zenon
<1>3. /\ engine[p].we.cmd.name = Round(p)[n].name /\ engine[p].we.args.src = Round(p)[n].src
      /\ engine[p].we.args.dst = Round(p)[n].dst
  BY <1>2, Executes, Zenon
<1>4. /\ Round(p)[n].name = "atomic" <=> args.work = "atomic" /\ n = 1
      /\ Round(p)[n].name = "increment" <=> (args.work = "atomic" /\ n = 2) \/ (args.work = "increment" /\ n = 1)
      /\ Round(p)[n].name = "copy" <=> (args.work = "atomic" /\ n = 3) \/ (args.work = "copy" /\ n = 1)
  BY <1>1, RoundKinds, Zenon
<1>5. n = 1 => Done(p) = 0
  BY <1>1, <1>2, SMTT(30), Z3T(30)
<1>6. n = 2 => Done(p) = 1
  BY <1>1, <1>2, SMTT(30), Z3T(30)
<1>7. n = 3 => Done(p) = 2
  BY <1>1, <1>2, SMTT(30), Z3T(30)
<1>9. /\ args.work = "atomic" => /\ Round(p)[1].dst = Lock
                                 /\ Round(p)[2].src = Counter /\ Round(p)[2].dst = Counter
                                 /\ Round(p)[3].src = Src(p) /\ Round(p)[3].dst = Lock
      /\ args.work = "copy" => Round(p)[1].src = Source(p, dst[p]) /\ Round(p)[1].dst = dst[p]
      /\ args.work = "increment" => Round(p)[1].src = Src(p) /\ Round(p)[1].dst = Dst(p)
  <2>1. /\ args.work = "atomic" => /\ Round(p)[1] = WorkElement("atomic", Src(p), Lock, FALSE, FALSE)
                                   /\ Round(p)[2] = WorkElement("increment", Counter, Counter, FALSE, TRUE)
                                   /\ Round(p)[3] = WorkElement("copy", Src(p), Lock, FALSE, TRUE)
        /\ args.work = "copy" => Round(p)[1] = WorkElement("copy", Source(p, dst[p]), dst[p], FALSE, FALSE)
        /\ args.work = "increment" => Round(p)[1] = WorkElement("increment", Src(p), Dst(p), FALSE, FALSE)
    BY <1>1, RoundIs, Zenon
  <2>2. /\ WorkElement("atomic", Src(p), Lock, FALSE, FALSE).dst = Lock
        /\ WorkElement("increment", Counter, Counter, FALSE, TRUE).src = Counter
        /\ WorkElement("increment", Counter, Counter, FALSE, TRUE).dst = Counter
        /\ WorkElement("copy", Src(p), Lock, FALSE, TRUE).src = Src(p)
        /\ WorkElement("copy", Src(p), Lock, FALSE, TRUE).dst = Lock
        /\ WorkElement("copy", Source(p, dst[p]), dst[p], FALSE, FALSE).src = Source(p, dst[p])
        /\ WorkElement("copy", Source(p, dst[p]), dst[p], FALSE, FALSE).dst = dst[p]
        /\ WorkElement("increment", Src(p), Dst(p), FALSE, FALSE).src = Src(p)
        /\ WorkElement("increment", Src(p), Dst(p), FALSE, FALSE).dst = Dst(p)
    BY Zenon DEF WorkElement
  <2> QED
    BY <2>1, <2>2, Zenon
<1> QED
  BY <1>3, <1>4, <1>5, <1>6, <1>7, <1>9, Zenon

\* The AFU's copy keeps its process alright.
LEMMA ExecuteCopyStep ==
  ASSUME IInv, NEW p \in Procs, ExecuteCopy(p), UNCHANGED hostVars
  PROVE  Alright(p)'
<1>1. /\ engine[p].enabled /\ engine[p].phase = "execute" /\ engine[p].we.cmd.name = "copy"
      /\ mem' = [mem EXCEPT ![engine[p].we.args.dst] = mem[engine[p].we.args.src]]
      /\ Outcome(p, 1, FALSE) /\ UNCHANGED <<queueVars, irqs, trouble>>
  BY Zenon DEF ExecuteCopy, Executing
<1>2. /\ engine'[p].phase = "complete" /\ args' = args /\ pc' = pc /\ dst' = dst
      /\ Data(p)' => Alright(p)'
  BY <1>1, WorkStep, Zenon
<1>3. Alright(p)
  BY FunctionTypes, Zenon
<1>4. /\ Src(p) \in Addresses /\ Lock \in Addresses /\ dst[p] \in Addresses /\ Src(p) # Lock
      /\ Source(p, dst[p]) \in Addresses /\ (args.work = "copy" => Source(p, dst[p]) # dst[p])
      /\ mem \in [Addresses -> Nat]
  BY <1>3, Apart, FunctionTypes, ZenonT(30) DEF Alright, Buffers, Source
<1>5. CASE args.work = "atomic"
  <2>2. engine[p].we.args.dst = Lock
    BY <1>1, <1>5, ExecutesWhat, Zenon
  <2>3. mem'[Src(p)] = mem[Src(p)]
    BY <1>1, <1>4, <2>2, Zenon
  <2>4. Data(p)'
    BY <1>1, <1>2, <1>3, <1>5, <2>3, Zenon DEF Alright, Data, Source
  <2> QED
    BY <1>2, <2>4, Zenon
<1>6. CASE args.work = "copy"
  <2>2. engine[p].we.args.dst = dst[p] /\ engine[p].we.args.src = Source(p, dst[p])
    BY <1>1, <1>6, ExecutesWhat, Zenon
  <2>3. /\ mem'[Source(p, dst[p])] = mem[Source(p, dst[p])] /\ mem'[dst[p]] = mem[Source(p, dst[p])]
        /\ Source(p, dst[p])' = Source(p, dst[p])
    <3>1. Source(p, dst[p])' = Source(p, dst[p])
      BY <1>2, Zenon DEF Source
    <3> QED
      BY <1>1, <1>4, <1>6, <2>2, <3>1, Zenon
  <2>4. Data(p)'
    BY <1>2, <1>6, <2>3, Zenon DEF Data
  <2> QED
    BY <1>2, <2>4, Zenon
<1> QED
  BY <1>1, <1>5, <1>6, ExecutesWhat, Zenon

\* The AFU's compare and swap keeps its process alright.
LEMMA ExecuteAtomicStep ==
  ASSUME IInv, NEW p \in Procs, ExecuteAtomic(p), UNCHANGED hostVars
  PROVE  Alright(p)'
<1>1. /\ engine[p].enabled /\ engine[p].phase = "execute" /\ engine[p].we.cmd.name = "atomic"
      /\ mem' = [mem EXCEPT ![engine[p].we.args.dst] = 1]
      /\ Outcome(p, 1, FALSE) /\ UNCHANGED <<queueVars, irqs, trouble>>
  BY Zenon DEF ExecuteAtomic, Executing
<1>2. /\ engine'[p].phase = "complete" /\ args' = args /\ pc' = pc /\ dst' = dst
      /\ Data(p)' => Alright(p)'
  BY <1>1, WorkStep, Zenon
<1>3. Alright(p)
  BY FunctionTypes, Zenon
<1>4. args.work = "atomic"
  BY <1>1, ExecutesWhat, Zenon
<1>5. engine[p].we.args.dst = Lock
  BY <1>1, ExecutesWhat, Zenon
<1>6. mem'[Src(p)] = mem[Src(p)]
  BY <1>1, <1>5, Apart, FunctionTypes, Zenon
<1>7. Data(p)'
  BY <1>1, <1>2, <1>3, <1>4, <1>6, Zenon DEF Alright, Data, Source
<1> QED
  BY <1>2, <1>7, Zenon

\* The store of the AFU's increment keeps its process alright.
LEMMA ExecuteStoreStep ==
  ASSUME IInv, NEW p \in Procs, ExecuteStore(p), UNCHANGED hostVars
  PROVE  Alright(p)'
<1>1. /\ engine[p].enabled /\ engine[p].phase = "store"
      /\ mem' = [mem EXCEPT ![engine[p].we.args.dst] = engine[p].loaded + 1]
      /\ Outcome(p, 1, FALSE) /\ UNCHANGED <<queueVars, irqs, trouble>>
  BY Zenon DEF ExecuteStore
<1>2. /\ engine'[p].phase = "complete" /\ args' = args /\ pc' = pc /\ dst' = dst
      /\ Data(p)' => Alright(p)'
  BY <1>1, WorkStep, Zenon
<1>3. Alright(p) /\ engine[p].we.cmd.name = "increment"
  BY <1>1, FunctionTypes, Zenon DEF Alright, Fetched
<1>4. /\ Src(p) \in Addresses /\ Counter \in Addresses /\ Dst(p) \in Addresses
      /\ Src(p) # Counter /\ Src(p) # Dst(p) /\ mem \in [Addresses -> Nat]
  BY Apart, FunctionTypes, Zenon
<1>5. CASE args.work = "atomic"
  <2>2. engine[p].we.args.dst = Counter
    BY <1>1, <1>3, <1>5, ExecutesWhat, Zenon
  <2>3. mem'[Src(p)] = mem[Src(p)]
    BY <1>1, <1>4, <2>2, Zenon
  <2>4. Data(p)'
    BY <1>1, <1>2, <1>3, <1>5, <2>3, Zenon DEF Alright, Data, Source
  <2> QED
    BY <1>2, <2>4, Zenon
<1>6. CASE args.work = "increment"
  <2>2. engine[p].we.args.dst = Dst(p) /\ dst[p] = Dst(p)
    BY <1>1, <1>3, <1>6, ExecutesWhat, Zenon DEF Alright, Buffers
  <2>3. mem'[Src(p)] = mem[Src(p)] /\ mem'[dst[p]] = engine[p].loaded + 1
    BY <1>1, <1>4, <2>2, Zenon
  <2>4. Data(p)'
    BY <1>1, <1>2, <1>3, <1>6, <2>3, Zenon DEF Alright, Data, Source
  <2> QED
    BY <1>2, <2>4, Zenon
<1> QED
  BY <1>1, <1>3, <1>5, <1>6, ExecutesWhat, Zenon

\* The load of the AFU's increment keeps its process alright.
LEMMA ExecuteLoadStep ==
  ASSUME IInv, NEW p \in Procs, ExecuteLoad(p), UNCHANGED hostVars
  PROVE  Alright(p)'
<1>1. /\ engine[p].enabled /\ engine[p].phase = "execute" /\ engine[p].we.cmd.name = "increment"
      /\ engine' = [engine EXCEPT ![p].phase = "store", ![p].loaded = mem[engine[p].we.args.src]]
      /\ UNCHANGED <<queueVars, irqs, mem, trouble>>
  BY Zenon DEF ExecuteLoad, Executing
<1>2. /\ engine'[p].at = engine[p].at /\ engine'[p].wrap = engine[p].wrap
      /\ engine'[p].phase = "store" /\ engine'[p].we = engine[p].we
      /\ engine'[p].loaded = mem[engine[p].we.args.src]
  BY <1>1, FunctionTypes, ZenonT(30)
<1>3. Still(p)
  BY <1>1, <1>2, Zenon DEF Still, queueVars, hostVars, argVars
<1>4. /\ Done(p)' = Done(p) /\ Size' = Size /\ args' = args /\ pc' = pc /\ dst' = dst
      /\ \A n : Round(p)' = Round(p) /\ Operands(p, n)' = Operands(p, n)
  BY <1>3, StillRing, RoundStays, Zenon DEF Operands, hostVars, argVars
<1>5. /\ pc[p] \notin Posting /\ Done(p) < Posted(p) /\ Alright(p)
  BY <1>1, Executes, Zenon
<1>6. Fetched(p)'
  BY <1>1, <1>2, <1>4, <1>5, Zenon DEF Alright, Fetched
<1>7. Interrupts(p)'
  BY <1>1, <1>4, Underway, Zenon DEF Interrupts
<1>8. Data(p)'
  <2>2. args.work = "increment" => engine[p].we.args.src = Src(p)
    BY <1>1, ExecutesWhat, Zenon
  <2>3. \A n : Ran(p, n)' => Ran(p, n)
    BY <1>2, <1>4, Zenon DEF Ran
  <2> QED
    BY <1>1, <1>2, <1>4, <1>5, <2>2, <2>3, Zenon DEF Alright, Data, Source
<1>9. ("err" \in irqs'[p] \/ result[p] = "fail" => trouble'[p]) /\ irqs' = irqs
  BY <1>1, <1>5, ZenonT(30) DEF Alright, Errors
<1> QED
  BY <1>1, <1>2, <1>5, <1>6, <1>7, <1>8, <1>9, AfuStep, Zenon

\* An error of the AFU keeps its process alright.
LEMMA ExecuteFailsStep ==
  ASSUME IInv, NEW p \in Procs, ExecuteFails(p), UNCHANGED hostVars
  PROVE  Alright(p)'
<1>1. /\ engine[p].enabled /\ engine[p].phase = "execute"
      /\ irqs' = [irqs EXCEPT ![p] = @ \cup {"err"}] /\ trouble' = [trouble EXCEPT ![p] = TRUE]
      /\ UNCHANGED <<queueVars, mem>>
  BY Zenon DEF ExecuteFails, Executing
<1>2. PICK stops \in BOOLEAN : Outcome(p, 255, stops)
  BY Zenon DEF ExecuteFails
<1>3. trouble'[p] /\ irqs'[p] = irqs[p] \cup {"err"}
  BY <1>1, FunctionTypes, Zenon
<1>4. Interrupts(p)' /\ Data(p)'
  BY <1>3, Zenon DEF Interrupts, Data, Source
<1>5. irqs[p] \subseteq irqs'[p] /\ "err" \in irqs'[p] /\ 255 \in {1, 17, 255} /\ 255 # 17
  BY <1>3, SMTT(30), Z3T(30)
<1> QED
  BY <1>1, <1>2, <1>3, <1>4, <1>5, OutcomeStep, SMTT(30), Z3T(30)

\* Completing an element is one more done.
LEMMA CompletesOne ==
  ASSUME IInv, NEW p \in Procs, Complete(p), UNCHANGED hostVars
  PROVE  /\ engine[p].phase = "complete" /\ engine'[p].phase = "fetch"
         /\ Done(p) \in 0 .. 3 /\ Done(p)' = Done(p) + 1
<1> DEFINE at == engine[p].at
<1>1. /\ engine[p].enabled /\ engine[p].phase = "complete"
      /\ queue' = [queue EXCEPT ![p][at].status = engine[p].outcome]
      /\ engine' = [engine EXCEPT ![p].phase = "fetch", ![p].at = (at + 1) % QueueLength,
                                  ![p].wrap = IF at = QueueLength - 1 THEN 1 - @ ELSE @]
      /\ UNCHANGED <<next, wrap, irqs, mem, trouble>>
  BY Zenon DEF Complete
<1>2. /\ TypeOK /\ Alright(p) /\ args \in memcpy_test_args
      /\ pc[p] \notin Posting /\ i[p] # 0 /\ Posted(p) = Size /\ Size \in 1 .. 4
      /\ Done(p) \in 0 .. 3 /\ Done(p) + 1 \in 1 .. Size /\ Done(p) < Posted(p)
      /\ engine[p].we.cmd.name = Round(p)[Done(p) + 1].name
  BY <1>1, Executes, SMTT(30), Z3T(30)
<1>3. /\ at = Slot(p, Done(p) + 1) /\ at \in Slots /\ engine[p].wrap \in {0, 1} /\ first_we[p] \in Slots
      /\ wrap[p] \in {0, 1}
  BY <1>2, EngineAt, Types, Zenon DEF Alright
<1>4. /\ engine'[p].phase = "fetch" /\ engine'[p].at = (at + 1) % QueueLength
      /\ engine'[p].wrap = IF at = QueueLength - 1 THEN 1 - engine[p].wrap ELSE engine[p].wrap
      /\ engine'[p].enabled => engine[p].enabled
  BY <1>1, FunctionTypes, SMTT(30), Z3T(30)
<1>5. /\ next' = next /\ wrap' = wrap /\ args' = args /\ forked' = forked /\ dst' = dst
      /\ pc' = pc /\ k' = k /\ i' = i /\ first_we' = first_we /\ last_we' = last_we /\ result' = result
  BY <1>1, Zenon DEF hostVars, argVars
<1>6. /\ Size' = Size /\ Posted(p)' = Posted(p)
      /\ \A n : Slot(p, n)' = Slot(p, n)
      /\ \A s : LapOf(p, s)' = LapOf(p, s)
      /\ Round(p)' = Round(p)
      /\ \A n : Operands(p, n)' = Operands(p, n)
  BY <1>5, RoundStays, Zenon DEF Size, Posted, Slot, LapOf, After, Operands
<1>7. FirstWrap(p)' = FirstWrap(p) /\ FirstWrap(p) \in {0, 1}
  BY <1>3, <1>5, <1>6, SMTT(30), Z3T(30) DEF FirstWrap, Lap
<1>8. Done(p)' = Done(p) + 1
  <2>1. Done(p) + 1 = engine'[p].at - first_we[p] + (IF engine'[p].wrap = FirstWrap(p) THEN 0 ELSE QueueLength)
    <3>1. Done(p) = at - first_we[p] + (IF engine[p].wrap = FirstWrap(p) THEN 0 ELSE QueueLength)
      BY Zenon DEF Done
    <3>2. at \in Slots /\ first_we[p] \in Slots /\ engine[p].wrap \in {0, 1} /\ Done(p) \in 0 .. 3
      BY <1>2, <1>3, Zenon
    <3>3. /\ engine'[p].at = (at + 1) % QueueLength
          /\ engine'[p].wrap = IF at = QueueLength - 1 THEN 1 - engine[p].wrap ELSE engine[p].wrap
      BY <1>4, Zenon
    <3>4. FirstWrap(p) \in {0, 1}
      BY <1>7, Zenon
    <3> QED
      <4>1. PICK f \in Slots, a \in Slots, v \in {0, 1}, w \in {0, 1}, d \in 0 .. 3 :
              f = first_we[p] /\ a = at /\ v = engine[p].wrap /\ w = FirstWrap(p) /\ d = Done(p)
        BY <3>2, <3>4, Zenon
      <4>2. d = a - f + (IF v = w THEN 0 ELSE QueueLength)
        BY <3>1, <4>1, Zenon
      <4>3. d + 1 = ((a + 1) % QueueLength) - f
                      + (IF (IF a = QueueLength - 1 THEN 1 - v ELSE v) = w THEN 0 ELSE QueueLength)
        <5>1. f \in Slots /\ a \in Slots /\ v \in {0, 1} /\ w \in {0, 1} /\ d \in 0 .. 3
          BY <4>1, Zenon
        <5>2. QueueLength \in Nat /\ QueueLength >= 4
          BY QueueAssumption, TestAssumption, Zenon
        <5>3. (a + 1) % QueueLength = IF a = QueueLength - 1 THEN 0 ELSE a + 1
          BY <5>1, <5>2, SMTT(30), Z3T(30) DEF Slots
        <5> QED
          BY <4>2, <5>1, <5>2, <5>3, SMTT(30), Z3T(30) DEF Slots
      <4> QED
        BY <3>3, <4>1, <4>3, Zenon
  <2> QED
    BY <1>5, <1>7, <2>1, Zenon DEF Done
<1> QED
  BY <1>1, <1>2, <1>4, <1>8, Zenon

\* The AFU's writing of the status keeps its process alright.
LEMMA CompleteStep ==
  ASSUME IInv, NEW p \in Procs, Complete(p), UNCHANGED hostVars
  PROVE  Alright(p)'
<1> DEFINE at == engine[p].at
<1>1. /\ engine[p].enabled /\ engine[p].phase = "complete"
      /\ queue' = [queue EXCEPT ![p][at].status = engine[p].outcome]
      /\ engine' = [engine EXCEPT ![p].phase = "fetch", ![p].at = (at + 1) % QueueLength,
                                  ![p].wrap = IF at = QueueLength - 1 THEN 1 - @ ELSE @]
      /\ UNCHANGED <<next, wrap, irqs, mem, trouble>>
  BY Zenon DEF Complete
<1>2. /\ TypeOK /\ Alright(p) /\ args \in memcpy_test_args
      /\ pc[p] \notin Posting /\ i[p] # 0 /\ Posted(p) = Size /\ Size \in 1 .. 4
      /\ Done(p) \in 0 .. 3 /\ Done(p) + 1 \in 1 .. Size /\ Done(p) < Posted(p)
      /\ engine[p].we.cmd.name = Round(p)[Done(p) + 1].name
  BY <1>1, Executes, SMTT(30), Z3T(30)
<1>3. /\ at = Slot(p, Done(p) + 1) /\ at \in Slots /\ engine[p].wrap \in {0, 1} /\ first_we[p] \in Slots
      /\ wrap[p] \in {0, 1}
  BY <1>2, EngineAt, Types, Zenon DEF Alright
<1>4. /\ engine'[p].phase = "fetch" /\ engine'[p].at = (at + 1) % QueueLength
      /\ engine'[p].wrap = IF at = QueueLength - 1 THEN 1 - engine[p].wrap ELSE engine[p].wrap
      /\ engine'[p].enabled => engine[p].enabled
  BY <1>1, FunctionTypes, SMTT(30), Z3T(30)
<1>5. /\ next' = next /\ wrap' = wrap /\ args' = args /\ forked' = forked /\ dst' = dst
      /\ pc' = pc /\ k' = k /\ i' = i /\ first_we' = first_we /\ last_we' = last_we /\ result' = result
  BY <1>1, Zenon DEF hostVars, argVars
<1>6. /\ Size' = Size /\ Posted(p)' = Posted(p)
      /\ \A n : Slot(p, n)' = Slot(p, n)
      /\ \A s : LapOf(p, s)' = LapOf(p, s)
      /\ Round(p)' = Round(p)
      /\ \A n : Operands(p, n)' = Operands(p, n)
  BY <1>5, RoundStays, ZenonT(30) DEF Size, Posted, Slot, LapOf, After, Operands
<1>7. FirstWrap(p)' = FirstWrap(p) /\ FirstWrap(p) \in {0, 1}
  BY <1>3, <1>5, <1>6, SMTT(30), Z3T(30) DEF FirstWrap, Lap
<1>8. Done(p)' = Done(p) + 1
  BY CompletesOne, Zenon
<1>9. /\ \A s \in Slots : s # at => queue'[p][s] = queue[p][s]
      /\ \A s \in Slots : queue'[p][s].cmd = queue[p][s].cmd /\ queue'[p][s].args = queue[p][s].args
      /\ queue'[p][at].status = engine[p].outcome
  BY <1>1, <1>3, FunctionTypes, SMTT(30), Z3T(30) DEF Elements
<1>10. /\ engine[p].outcome # 0
       /\ engine[p].outcome = 17 => args.completion = "wake" /\ Done(p) + 1 = Size
  <2>1. engine[p].outcome # 0 /\ (engine[p].outcome = 17 => engine[p].we.cmd.name = "wake")
    BY <1>1, <1>2, Zenon DEF Alright, Fetched
  <2> QED
    BY <1>2, <2>1, RoundKinds, SMTT(30), Z3T(30)
<1>11. \A n \in 1 .. 4 : Ran(p, n)' <=> Ran(p, n)
  BY <1>1, <1>2, <1>4, <1>8, SMTT(30), Z3T(30) DEF Ran
<1>12. Place(p)'
  BY <1>2, <1>4, <1>5, <1>6, Zenon DEF Alright, Place
<1>13. Ring(p)'
  <2>1. Done(p)' \in 0 .. Posted(p)'
    BY <1>2, <1>6, <1>8, SMTT(30), Z3T(30)
  <2>2. pc[p] \notin {"event", "check", "restart", "clear", "round"} /\ result[p] # "pass"
    BY <1>2, SMTT(30), Z3T(30) DEF Alright, Ring
  <2>3. next'[p] = Slot(p, Posted(p) + 1)'
    BY <1>2, <1>5, <1>6, Zenon DEF Alright, Ring
  <2> QED
    BY <1>2, <1>4, <1>5, <2>1, <2>2, <2>3, ZenonT(30) DEF Ring
<1>14. Laps(p)' /\ Buffers(p)'
  BY <1>2, <1>5, <1>6, <1>9, Zenon DEF Alright, Laps, Buffers
<1>15. RoundElements(p)'
  <2>1. ASSUME NEW n \in 1 .. Posted(p) PROVE Element(p, n)'
    <3>1. Element(p, n) /\ Slot(p, n) \in Slots /\ n \in 1 .. 4
      BY <1>2, SlotsOfRound, SMTT(30), Z3T(30) DEF Alright, RoundElements
    <3>2. Slot(p, n) = at <=> n = Done(p) + 1
      BY <1>2, <1>3, <3>1, SlotsOfRound, SMTT(30), Z3T(30)
    <3>3. /\ Slot(p, n)' = Slot(p, n) /\ LapOf(p, Slot(p, n))' = LapOf(p, Slot(p, n))
          /\ queue'[p][Slot(p, n)].cmd = queue[p][Slot(p, n)].cmd
          /\ queue'[p][Slot(p, n)].args = queue[p][Slot(p, n)].args
      BY <1>6, <1>9, <3>1, Zenon
    <3>4. queue'[p][Slot(p, n)].status = IF n = Done(p) + 1 THEN engine[p].outcome ELSE queue[p][Slot(p, n)].status
      BY <1>9, <3>1, <3>2, Zenon
    <3>5. n <= Done(p)' => queue'[p][Slot(p, n)].status # 0
      BY <1>2, <1>8, <1>10, <3>1, <3>4, SMTT(30), Z3T(30) DEF Element
    <3>6. n > Done(p)' => queue'[p][Slot(p, n)].status = 0 /\ queue'[p][Slot(p, n)].args = Operands(p, n)
      BY <1>2, <1>8, <3>1, <3>3, <3>4, SMTT(30), Z3T(30) DEF Element
    <3>7. queue'[p][Slot(p, n)].status = 17 => args.completion = "wake" /\ n = Size
      BY <1>10, <3>1, <3>4, Zenon DEF Element
    <3> QED
      BY <1>2, <1>5, <1>6, <3>1, <3>3, <3>5, <3>6, <3>7, Zenon DEF Element
  <2>2. pc'[p] # "command"
    BY <1>2, <1>5, Zenon DEF Posting
  <2> QED
    BY <1>6, <2>1, <2>2, Zenon DEF RoundElements
<1>16. Fetched(p)'
  BY <1>4, Zenon DEF Fetched
<1>17. Errors(p)'
  <2>1. Errors(p)
    BY <1>2, Zenon DEF Alright
  <2>2. ASSUME NEW s \in Slots, queue'[p][s].status = 255 PROVE "err" \in irqs'[p] \/ result'[p] = "fail"
    <3>1. CASE s = at
      BY <1>1, <1>5, <1>9, <2>1, <2>2, <3>1, SMTT(30), Z3T(30) DEF Errors
    <3>2. CASE s # at
      BY <1>1, <1>5, <1>9, <2>1, <2>2, <3>2, SMTT(30), Z3T(30) DEF Errors
    <3> QED
      BY <3>1, <3>2, ZenonT(30)
  <2>3. ASSUME NEW s \in Slots, queue'[p][s].cmd.valid, queue'[p][s].status = 0
        PROVE  \E n \in Done(p)' + 1 .. Posted(p)' : s = Slot(p, n)'
    <3>1. s # at
      BY <1>9, <1>10, <2>3, Zenon
    <3>2. PICK n \in Done(p) + 1 .. Posted(p) : s = Slot(p, n)
      BY <1>2, <1>9, <2>1, <2>3, <3>1, ZenonT(30) DEF Errors, Posting
    <3>3. n \in Done(p)' + 1 .. Posted(p)' /\ s = Slot(p, n)'
      BY <1>2, <1>3, <1>6, <1>8, <3>1, <3>2, SMTT(30), Z3T(30)
    <3> QED
      BY <3>3, Zenon
  <2>4. "err" \in irqs'[p] \/ result'[p] = "fail" => trouble'[p]
    BY <1>1, <1>5, <2>1, Zenon DEF Errors
  <2> QED
    BY <1>4, <2>2, <2>3, <2>4, Zenon DEF Errors
<1>18. Interrupts(p)'
  <2>1. Refused(p) => Refused(p)'
    <3>1. ASSUME Done(p) = Size - 1, engine[p].outcome = 17 PROVE Done(p)' = Size /\ LastStatus(p)' = 17
      <4>1. last_we[p] = Slot(p, Size)
        BY <1>2, Zenon DEF Alright, Place, Posting
      <4>2. last_we'[p] = at
        BY <1>2, <1>3, <1>5, <3>1, <4>1, SMTT(30), Z3T(30)
      <4> QED
        BY <1>2, <1>8, <1>9, <3>1, <4>2, SMTT(30), Z3T(30) DEF LastStatus
    <3>2. Done(p) # Size
      BY <1>2, SMTT(30), Z3T(30)
    <3> QED
      BY <1>6, <3>1, <3>2, ZenonT(30) DEF Refused
  <2>2. Ran(p, Size)' <=> Ran(p, Size)
    BY <1>2, <1>6, <1>11, Zenon
  <2> QED
    BY <1>1, <1>2, <1>5, <2>1, <2>2, Zenon DEF Alright, Interrupts
<1>19. Data(p)'
  <2>1. Ran(p, 1)' <=> Ran(p, 1)
    BY <1>11, SMTT(30), Z3T(30)
  <2> QED
    BY <1>1, <1>2, <1>4, <1>5, <2>1, Zenon DEF Alright, Data, Source
<1> QED
  BY <1>12, <1>13, <1>14, <1>15, <1>16, <1>17, <1>18, <1>19, Zenon DEF Alright

\* The AFU, whatever it does.
LEMMA AfuWorksStep ==
  ASSUME IInv, NEW p \in Procs, AfuWorks(p) \/ ExecuteFails(p), UNCHANGED hostVars
  PROVE  Alright(p)'
  BY FetchStep, ExecuteCopyStep, ExecuteAtomicStep, ExecuteLoadStep, ExecuteStoreStep, ExecuteIrqStep,
     ExecuteWakeStep, ExecuteStopStep, CompleteStep, ExecuteFailsStep, Zenon DEF AfuWorks

-------------------------------------------------------------------------------
(* What a step of one process and its AFU leaves to the others.             *)

Engines ==
  [enabled : BOOLEAN, stopped : BOOLEAN, at : Slots, wrap : {0, 1},
   phase : {"fetch", "execute", "store", "complete"}, we : Elements, outcome : Statuses, loaded : Nat]

\* The function f, with values in S, is g except for p.
Moves(f, g, p, S) == f \in [Procs -> S] /\ \A q \in Procs : q # p => f[q] = g[q]

\* A function that stays moves at most at p.
LEMMA MovesSame ==
  ASSUME NEW S, NEW g \in [Procs -> S], NEW f, f = g, NEW p \in Procs
  PROVE  Moves(f, g, p, S)
  BY Zenon DEF Moves

\* A function updated at p moves at most at p.
LEMMA MovesExcept ==
  ASSUME NEW S, NEW g \in [Procs -> S], NEW p \in Procs, NEW x \in S, NEW f, f = [g EXCEPT ![p] = x]
  PROVE  Moves(f, g, p, S)
  BY Zenon DEF Moves

\* The memory: the buffers of p, the lock and the counter.
Own(p) == {Src(p), Dst(p), NewSrc(p), NewDst(p), Lock, Counter}

Writes(p) == mem' \in [Addresses -> Nat] /\ \A a \in Addresses \ Own(p) : mem'[a] = mem[a]

Tidy(p) ==
  /\ Moves(queue', queue, p, [Slots -> Elements]) /\ Moves(next', next, p, Slots)
  /\ Moves(wrap', wrap, p, {0, 1}) /\ Moves(irqs', irqs, p, SUBSET Irqs)
  /\ Moves(trouble', trouble, p, BOOLEAN) /\ Moves(engine', engine, p, Engines)
  /\ Moves(dst', dst, p, Addresses) /\ Moves(pc', pc, p, Labels)
  /\ Moves(k', k, p, 1 .. 4) /\ Moves(i', i, p, 0 .. args.loop_count)
  /\ Moves(first_we', first_we, p, Slots) /\ Moves(last_we', last_we, p, Slots)
  /\ Moves(result', result, p, {"none", "pass", "fail"})
  /\ args' = args /\ forked' = forked /\ verdict' = verdict
  /\ Writes(p)

\* A tidy step keeps the types and leaves the other processes alone.
LEMMA TidyMeans ==
  ASSUME IInv, NEW p \in Procs, Tidy(p)
  PROVE  /\ TypeOK' /\ pc' \in [Procs -> Labels]
         /\ \A q \in Procs : q # p => Same(q)
<1>1. QueueTypeOK'
  BY Zenon DEF QueueTypeOK, Tidy, Moves, Writes, Engines
<1>2. TypeOK'
  BY <1>1, FunctionTypes, Zenon DEF TypeOK, Tidy, Moves
<1>3. pc' \in [Procs -> Labels]
  BY Zenon DEF Tidy, Moves
<1>4. ASSUME NEW q \in Procs, q # p PROVE Same(q)
  <2>1. /\ Src(q) \in Addresses /\ Src(q) \notin Own(p)
        /\ NewSrc(q) \in Addresses /\ NewSrc(q) \notin Own(p)
    BY <1>4, Apart, ZenonT(30) DEF Own
  <2>2. args.work # "atomic" => dst[q] \in Addresses /\ dst[q] \notin Own(p)
    <3>1. args.work # "atomic" => dst[q] \in {Dst(q), NewDst(q)}
      BY FunctionTypes, Zenon DEF Alright, Buffers, TypeOK, memcpy_test_args
    <3> QED
      BY <1>4, <3>1, Apart, Zenon DEF Own
  <2>3. mem'[Src(q)] = mem[Src(q)] /\ mem'[NewSrc(q)] = mem[NewSrc(q)] /\ (args.work # "atomic" => mem'[dst[q]] = mem[dst[q]])
    BY <2>1, <2>2, Zenon DEF Tidy, Writes
  <2> QED
    BY <1>4, <2>3, Zenon DEF Same, Tidy, Moves
<1> QED
  BY <1>2, <1>3, <1>4, Zenon

\* The variables that a step does not touch.
LEMMA Unmoved ==
  ASSUME IInv, NEW p \in Procs
  PROVE  /\ queue' = queue => Moves(queue', queue, p, [Slots -> Elements])
         /\ next' = next => Moves(next', next, p, Slots)
         /\ wrap' = wrap => Moves(wrap', wrap, p, {0, 1})
         /\ irqs' = irqs => Moves(irqs', irqs, p, SUBSET Irqs)
         /\ trouble' = trouble => Moves(trouble', trouble, p, BOOLEAN)
         /\ engine' = engine => Moves(engine', engine, p, Engines)
         /\ dst' = dst => Moves(dst', dst, p, Addresses)
         /\ pc' = pc => Moves(pc', pc, p, Labels)
         /\ k' = k => Moves(k', k, p, 1 .. 4)
         /\ i' = i => Moves(i', i, p, 0 .. args.loop_count)
         /\ first_we' = first_we => Moves(first_we', first_we, p, Slots)
         /\ last_we' = last_we => Moves(last_we', last_we, p, Slots)
         /\ result' = result => Moves(result', result, p, {"none", "pass", "fail"})
         /\ mem' = mem => Writes(p)
  BY FunctionTypes, Zenon DEF Moves, Writes, Engines

\* The updates that several steps have in common.
LEMMA Moved ==
  ASSUME IInv, NEW p \in Procs
  PROVE  /\ \A x \in Labels : Goto(p, x) => Moves(pc', pc, p, Labels)
         /\ \A x \in {"pass", "fail"} :
              Return(p, x) => /\ Moves(pc', pc, p, Labels)
                              /\ Moves(result', result, p, {"none", "pass", "fail"})
         /\ trouble' = [trouble EXCEPT ![p] = TRUE] => Moves(trouble', trouble, p, BOOLEAN)
         /\ \A irq : irqs' = [irqs EXCEPT ![p] = @ \ {irq}] => Moves(irqs', irqs, p, SUBSET Irqs)
         /\ \A irq \in Irqs : irqs' = [irqs EXCEPT ![p] = @ \cup {irq}] => Moves(irqs', irqs, p, SUBSET Irqs)
<1>1. /\ pc \in [Procs -> Labels] /\ result \in [Procs -> {"none", "pass", "fail"}]
      /\ trouble \in [Procs -> BOOLEAN] /\ irqs \in [Procs -> SUBSET Irqs]
      /\ "close" \in Labels
  BY FunctionTypes, Zenon DEF Labels
<1>2. \A x \in Labels : Goto(p, x) => Moves(pc', pc, p, Labels)
  BY <1>1, MovesExcept, Zenon DEF Goto
<1>3. \A x \in {"pass", "fail"} :
        Return(p, x) => /\ Moves(pc', pc, p, Labels)
                        /\ Moves(result', result, p, {"none", "pass", "fail"})
  BY <1>1, <1>2, MovesExcept, Zenon DEF Return
<1>4. trouble' = [trouble EXCEPT ![p] = TRUE] => Moves(trouble', trouble, p, BOOLEAN)
  BY <1>1, MovesExcept, Zenon
<1>5. \A irq : irqs' = [irqs EXCEPT ![p] = @ \ {irq}] => Moves(irqs', irqs, p, SUBSET Irqs)
  <2>1. \A irq : irqs[p] \ {irq} \in SUBSET Irqs
    BY <1>1, Zenon
  <2> QED
    BY <1>1, <2>1, MovesExcept, Zenon
<1>6. \A irq \in Irqs : irqs' = [irqs EXCEPT ![p] = @ \cup {irq}] => Moves(irqs', irqs, p, SUBSET Irqs)
  <2>1. \A irq \in Irqs : irqs[p] \cup {irq} \in SUBSET Irqs
    BY <1>1, Zenon
  <2> QED
    BY <1>1, <2>1, MovesExcept, Zenon
<1> QED
  BY <1>2, <1>3, <1>4, <1>5, <1>6, Zenon

\* A call that fails or times out is tidy.
LEMMA HostFailsTidy ==
  ASSUME IInv, NEW p \in Procs, HostFails(p)
  PROVE  Tidy(p)
<1>1. /\ trouble' = [trouble EXCEPT ![p] = TRUE] /\ Return(p, "fail")
      /\ UNCHANGED <<queueVars, afuVars, argVars, k, i, first_we, last_we, verdict>>
  BY Zenon DEF HostFails, SetupFails, WaitFails, restart_afu_fails, ReallocateFails, FinishFails, At
<1> QED
  BY <1>1, Unmoved, Moved, Zenon DEF Tidy, queueVars, afuVars, argVars

\* The waits, the comparison and the end of the last round are tidy.
LEMMA WaitTidy ==
  ASSUME IInv, NEW p \in Procs,
         wait_for_irq(p) \/ wait_for_status(p) \/ wait_fast(p) \/ Check(p) \/ Finish(p)
  PROVE  Tidy(p)
<1>1. UNCHANGED <<queueVars, engine, mem, trouble, argVars, k, i, first_we, last_we, verdict>>
  BY Zenon DEF wait_for_irq, wait_for_status, wait_fast, Check, Finish, afuVars
<1>2. \/ irqs' = irqs
      \/ \E irq : irqs' = [irqs EXCEPT ![p] = @ \ {irq}]
  BY Zenon DEF wait_for_irq, wait_for_status, wait_fast, Check, Finish, afuVars
<1>3. \/ /\ result' = result
         /\ \E x \in {"status", "event", "check", "clear", "restart"} : Goto(p, x)
      \/ \E x \in {"pass", "fail"} : Return(p, x)
  BY Zenon DEF wait_for_irq, wait_for_status, wait_fast, Check, Finish
<1>4. {"status", "event", "check", "clear", "restart"} \subseteq Labels
  BY Zenon DEF Labels
<1> QED
  BY <1>1, <1>2, <1>3, <1>4, Unmoved, Moved, Zenon DEF Tidy, queueVars, argVars
\* A store to a buffer of its own, or a shared one, is what a process may write.
LEMMA Wrote ==
  ASSUME IInv, NEW p \in Procs, NEW a \in Addresses, NEW x \in Nat, a \in Own(p), mem' = [mem EXCEPT ![a] = x]
  PROVE  Writes(p)
  BY FunctionTypes, Zenon DEF Writes

\* Where the buffers are.
LEMMA OwnBuffers ==
  ASSUME IInv, NEW p \in Procs
  PROVE  /\ Own(p) \subseteq Addresses /\ dst[p] \in Own(p)
         /\ engine[p].phase # "fetch" /\ engine[p].we.cmd.name \in {"copy", "atomic", "increment"} =>
              engine[p].we.args.dst \in Own(p)
<1>1. Own(p) \subseteq Addresses
  BY Apart, Zenon DEF Own
<1>2. dst[p] \in Own(p)
  BY FunctionTypes, Zenon DEF Alright, Buffers, Own, TypeOK, memcpy_test_args
<1> QED
  BY <1>1, <1>2, ExecutesWhat, Zenon DEF Own

\* An element stays an element when a part of it is written.
LEMMA ElementUpdates ==
  ASSUME NEW e \in Elements
  PROVE  /\ \A x \in [src : Addresses, dst : Addresses, post : Nat] :
              [e EXCEPT !.status = 0, !.args = x] \in Elements
         /\ \A x \in [name : Commands, valid : BOOLEAN, wrap : {0, 1}] : [e EXCEPT !.cmd = x] \in Elements
         /\ [e EXCEPT !.cmd.valid = TRUE] \in Elements
         /\ \A x \in Statuses : [e EXCEPT !.status = x] \in Elements
<1>1. \A x \in [src : Addresses, dst : Addresses, post : Nat] : [e EXCEPT !.status = 0, !.args = x] \in Elements
  BY ZenonT(30) DEF Elements, Statuses
<1>2. \A x \in [name : Commands, valid : BOOLEAN, wrap : {0, 1}] : [e EXCEPT !.cmd = x] \in Elements
  BY Zenon DEF Elements
<1>3. [e EXCEPT !.cmd.valid = TRUE] \in Elements
  BY Zenon DEF Elements
<1>4. \A x \in Statuses : [e EXCEPT !.status = x] \in Elements
  BY Zenon DEF Elements
<1> QED
  BY <1>1, <1>2, <1>3, <1>4, Zenon

\* The type of the AFU's side of the contexts.
LEMMA EngineTypes ==
  ASSUME IInv
  PROVE  engine \in [Procs -> Engines]
  BY FunctionTypes, Zenon DEF Engines

\* Opening the AFU and starting a round are tidy.
LEMMA SetupTidy ==
  ASSUME IInv, NEW p \in Procs, Setup(p) \/ StartRound(p)
  PROVE  Tidy(p)
<1>1. CASE Setup(p)
  <2>1. /\ engine' = [engine EXCEPT ![p].enabled = TRUE] /\ Goto(p, "round")
        /\ mem' = [mem EXCEPT ![Src(p)] = IF args.work = "atomic" THEN 0
                                          ELSE IF args.work = "increment" THEN pid - 1 ELSE pid]
        /\ UNCHANGED <<queueVars, irqs, trouble, argVars, k, i, first_we, last_we, result, verdict>>
    BY <1>1, Zenon DEF Setup, Enable
  <2>2. Moves(engine', engine, p, Engines)
    <3>1. engine \in [Procs -> Engines]
      BY EngineTypes, Zenon
    <3>2. [engine[p] EXCEPT !.enabled = TRUE] \in Engines
      BY <3>1, Zenon DEF Engines
    <3> QED
      BY <2>1, <3>1, <3>2, Zenon DEF Moves
  <2>3. Writes(p)
    <3>1. (IF args.work = "atomic" THEN 0 ELSE IF args.work = "increment" THEN pid - 1 ELSE pid) \in Nat
      BY SMTT(30), Z3T(30) DEF pid
    <3>2. Src(p) \in Own(p) /\ Src(p) \in Addresses
      BY Apart, Zenon DEF Own
    <3> QED
      BY <2>1, <3>1, <3>2, Wrote, Zenon
  <2>4. "round" \in Labels
    BY Zenon DEF Labels
  <2> QED
    BY <2>1, <2>2, <2>3, <2>4, Unmoved, Moved, Zenon DEF Tidy, queueVars, argVars
<1>2. CASE StartRound(p)
  <2>1. /\ i[p] < args.loop_count /\ i' = [i EXCEPT ![p] = @ + 1] /\ k' = [k EXCEPT ![p] = 1]
        /\ first_we' = [first_we EXCEPT ![p] = next[p]] /\ Goto(p, "operands")
        /\ mem' = IF args.work = "increment" THEN [mem EXCEPT ![Src(p)] = @ + 1] ELSE mem
        /\ UNCHANGED <<queueVars, engine, irqs, trouble, argVars, last_we, result, verdict>>
    BY <1>2, Zenon DEF StartRound
  <2>2. Moves(i', i, p, 0 .. args.loop_count)
    <3>1. i \in [Procs -> 0 .. args.loop_count] /\ args.loop_count \in Nat
      BY FunctionTypes, Types, Zenon
    <3>2. i[p] + 1 \in 0 .. args.loop_count
      BY <2>1, <3>1, SMTT(30), Z3T(30)
    <3> QED
      BY <2>1, <3>1, <3>2, MovesExcept, Zenon
  <2>3. Moves(k', k, p, 1 .. 4)
    <3>1. k \in [Procs -> 1 .. 4] /\ 1 \in 1 .. 4
      BY FunctionTypes, SMTT(30), Z3T(30)
    <3> QED
      BY <2>1, <3>1, MovesExcept, Zenon
  <2>4. Moves(first_we', first_we, p, Slots)
    BY <2>1, FunctionTypes, MovesExcept, Zenon
  <2>5. Writes(p)
    <3>1. Src(p) \in Own(p) /\ Src(p) \in Addresses
      BY Apart, Zenon DEF Own
    <3>2. mem[Src(p)] + 1 \in Nat
      BY <3>1, FunctionTypes, SMTT(30), Z3T(30)
    <3>3. args.work = "increment" => Writes(p)
      BY <2>1, <3>1, <3>2, Wrote, Zenon
    <3> QED
      BY <2>1, <3>3, Unmoved, Zenon
  <2>6. "operands" \in Labels
    BY Zenon DEF Labels
  <2> QED
    BY <2>1, <2>2, <2>3, <2>4, <2>5, <2>6, Unmoved, Moved, Zenon DEF Tidy, queueVars, argVars
<1> QED
  BY <1>1, <1>2, Zenon

\* The operands of a round are buffers of its process, or shared ones.
LEMMA RoundOwn ==
  ASSUME IInv, NEW p \in Procs, NEW n \in 1 .. Size
  PROVE  Round(p)[n].src \in Own(p) /\ Round(p)[n].dst \in Own(p)
<1>1. /\ args \in memcpy_test_args
      /\ args.work \in {"atomic", "copy", "increment"} /\ args.completion \in {"poll", "irq", "wake"}
  BY FunctionTypes, Types, RoundIs, Zenon
<1>2. \/ args.work = "atomic" /\ n \in {1, 2, 3}
      \/ args.work = "copy" /\ n = 1
      \/ args.work = "increment" /\ n = 1
      \/ args.completion # "poll" /\ n = Size
  BY <1>1, SMTT(30), Z3T(30) DEF Size
<1>3. \/ Round(p)[n] = WorkElement("atomic", Src(p), Lock, FALSE, FALSE)
      \/ Round(p)[n] = WorkElement("increment", Counter, Counter, FALSE, TRUE)
      \/ Round(p)[n] = WorkElement("copy", Src(p), Lock, FALSE, TRUE)
      \/ Round(p)[n] = WorkElement("copy", Source(p, dst[p]), dst[p], FALSE, FALSE)
      \/ Round(p)[n] = WorkElement("increment", Src(p), Dst(p), FALSE, FALSE)
      \/ Round(p)[n] = WorkElement(args.completion, Src(p), Dst(p), TRUE, FALSE)
  BY <1>1, <1>2, RoundIs, Zenon
<1>4. {Src(p), Dst(p), Lock, Counter, dst[p], Source(p, dst[p])} \subseteq Own(p)
  BY OwnBuffers, Zenon DEF Own, Source
<1>5. \E from, to \in Own(p) : Round(p)[n].src = from /\ Round(p)[n].dst = to
  BY <1>3, <1>4, SMTT(30), Z3T(30) DEF WorkElement
<1> QED
  BY <1>5, Zenon

\* The operands of an element of a round.
LEMMA NextElementType ==
  ASSUME IInv, NEW p \in Procs, pc[p] \in {"operands", "command"}
  PROVE  /\ NextElement(p).args \in [src : Addresses, dst : Addresses, post : Nat]
         /\ NextElement(p).name \in Commands /\ NextElement(p).valid \in BOOLEAN
<1>1. /\ args \in memcpy_test_args /\ k[p] \in 1 .. Size /\ i[p] \in Nat
  BY FunctionTypes, Types, Zenon DEF Alright, Place
<1>2. Round(p)[k[p]].name \in Commands /\ Round(p)[k[p]].valid \in BOOLEAN
  BY <1>1, RoundKinds, Zenon
<1>3. Round(p)[k[p]].src \in Addresses /\ Round(p)[k[p]].dst \in Addresses
  <2>1. Round(p)[k[p]].src \in Own(p) /\ Round(p)[k[p]].dst \in Own(p)
    BY <1>1, RoundOwn, Zenon
  <2> QED
    BY <2>1, OwnBuffers, Zenon
<1> QED
  BY <1>1, <1>2, <1>3, Zenon DEF NextElement

\* Where a process goes when it has added an element.
LEMMA AfterTidy ==
  ASSUME IInv, NEW p \in Procs, AfterElement(p), k[p] \in 1 .. Size
  PROVE  Moves(k', k, p, 1 .. 4) /\ \E x \in {"go", "operands"} : Goto(p, x)
<1>1. k \in [Procs -> 1 .. 4] /\ Len(Round(p)) = Size /\ Size \in 1 .. 4
  BY FunctionTypes, Types, RoundIs, Zenon
<1>2. CASE k[p] = Len(Round(p))
  BY <1>2, Unmoved, Zenon DEF AfterElement
<1>3. CASE k[p] # Len(Round(p))
  <2>1. k' = [k EXCEPT ![p] = @ + 1] /\ Goto(p, "operands")
    BY <1>3, Zenon DEF AfterElement
  <2>2. k[p] + 1 \in 1 .. 4
    BY <1>1, <1>3, SMTT(30), Z3T(30)
  <2> QED
    BY <1>1, <2>1, <2>2, MovesExcept, Zenon
<1> QED
  BY <1>2, <1>3, Zenon

\* Both halves of memcpy3_add_we() are tidy.
LEMMA AddTidy ==
  ASSUME IInv, NEW p \in Procs, PutOperands(p) \/ PutCommand(p)
  PROVE  Tidy(p)
<1> DEFINE we == NextElement(p)
<1>1. /\ we.args \in [src : Addresses, dst : Addresses, post : Nat]
      /\ we.name \in Commands /\ we.valid \in BOOLEAN
  <2>1. pc[p] \in {"operands", "command"}
    BY Zenon DEF PutOperands, PutCommand, At
  <2> QED
    BY <2>1, NextElementType, Zenon
<1>2. /\ queue \in [Procs -> [Slots -> Elements]] /\ next \in [Procs -> Slots] /\ wrap \in [Procs -> {0, 1}]
      /\ last_we \in [Procs -> Slots] /\ k \in [Procs -> 1 .. 4]
  BY FunctionTypes, Zenon
<1>3. {"command", "mark", "go", "operands"} \subseteq Labels
  BY Zenon DEF Labels
<1> HIDE DEF we
<1>4. CASE PutOperands(p)
  <2>1. /\ queue' = [queue EXCEPT ![p][next[p]].status = 0, ![p][next[p]].args = we.args]
        /\ last_we' = [last_we EXCEPT ![p] = next[p]] /\ Goto(p, "command")
        /\ UNCHANGED <<next, wrap, afuVars, trouble, argVars, k, i, first_we, result, verdict>>
    BY <1>4, Zenon DEF PutOperands, AddOperands, we
  <2>2. Moves(queue', queue, p, [Slots -> Elements])
    <3>1. [queue[p][next[p]] EXCEPT !.status = 0, !.args = we.args] \in Elements
      <4>1. queue[p][next[p]] \in Elements
        BY <1>2, Zenon
      <4> QED
        BY <1>1, <4>1, ElementUpdates, Zenon
    <3> QED
      BY <1>2, <2>1, <3>1, ZenonT(60) DEF Moves
  <2>3. Moves(last_we', last_we, p, Slots)
    BY <1>2, <2>1, MovesExcept, Zenon
  <2> QED
    BY <1>3, <2>1, <2>2, <2>3, Unmoved, Moved, Zenon DEF Tidy, afuVars, argVars
<1>5. CASE PutCommand(p)
  <2>1. /\ queue' = [queue EXCEPT ![p][next[p]].cmd = [name |-> we.name, valid |-> we.valid, wrap |-> wrap[p]]]
        /\ next' = [next EXCEPT ![p] = (@ + 1) % QueueLength]
        /\ wrap' = [wrap EXCEPT ![p] = NextWrap(p)]
        /\ UNCHANGED <<afuVars, trouble, argVars, i, first_we, last_we, result, verdict>>
    BY <1>5, Zenon DEF PutCommand, AddCommand, we
  <2>2. Moves(queue', queue, p, [Slots -> Elements])
    <3> DEFINE c == [name |-> we.name, valid |-> we.valid, wrap |-> wrap[p]]
    <3>1. [queue[p][next[p]] EXCEPT !.cmd = c] \in Elements
      <4>1. queue[p][next[p]] \in Elements /\ c \in [name : Commands, valid : BOOLEAN, wrap : {0, 1}]
        BY <1>1, <1>2, Zenon
      <4> QED
        BY <4>1, ElementUpdates, Zenon
    <3>2. queue' = [queue EXCEPT ![p][next[p]].cmd = c]
      BY <2>1, Zenon
    <3> HIDE DEF c
    <3> QED
      BY <1>2, <3>1, <3>2, Zenon DEF Moves
  <2>3. Moves(next', next, p, Slots)
    <3>1. (next[p] + 1) % QueueLength \in Slots
      BY <1>2, QueueAssumption, SMTT(30), Z3T(30) DEF Slots
    <3> QED
      BY <1>2, <2>1, <3>1, MovesExcept, Zenon
  <2>4. Moves(wrap', wrap, p, {0, 1})
    <3>1. NextWrap(p) \in {0, 1}
      BY <1>2, SMTT(30), Z3T(30) DEF NextWrap
    <3> QED
      BY <1>2, <2>1, <3>1, MovesExcept, Zenon
  <2>5. Moves(k', k, p, 1 .. 4) /\ \E x \in {"mark", "go", "operands"} : Goto(p, x)
    <3>1. CASE Round(p)[k[p]].mark
      BY <1>5, <3>1, Unmoved, Zenon DEF PutCommand
    <3>2. CASE ~Round(p)[k[p]].mark
      <4>1. k[p] \in 1 .. Size
        BY <1>5, FunctionTypes, Zenon DEF Alright, Place, PutCommand, At
      <4> QED
        BY <1>5, <3>2, <4>1, AfterTidy, Zenon DEF PutCommand
    <3> QED
      BY <3>1, <3>2, Zenon
  <2> QED
    BY <1>3, <2>1, <2>2, <2>3, <2>4, <2>5, Unmoved, Moved, Zenon DEF Tidy, afuVars, argVars
<1> QED
  BY <1>4, <1>5, Zenon

\* Setting elements valid is tidy.
LEMMA MarkTidy ==
  ASSUME IInv, NEW p \in Procs, Mark(p) \/ Go(p)
  PROVE  Tidy(p)
<1>1. PICK s \in Slots : SetValid(p, s)
  BY FunctionTypes, Zenon DEF Mark, Go
<1>2. UNCHANGED <<next, wrap, afuVars, trouble, argVars, i, first_we, last_we, result, verdict>>
  BY Zenon DEF Mark, Go, SetValid
<1>3. Moves(queue', queue, p, [Slots -> Elements])
  <2>1. queue \in [Procs -> [Slots -> Elements]]
    BY FunctionTypes, Zenon
  <2>2. [queue[p][s] EXCEPT !.cmd.valid = TRUE] \in Elements
    BY <1>1, <2>1, ElementUpdates, Zenon
  <2> QED
    BY <1>1, <2>1, <2>2, Zenon DEF SetValid, Moves
<1>4. Moves(k', k, p, 1 .. 4) /\ \E x \in {"go", "operands", "irq", "status"} : Goto(p, x)
  <2>1. CASE Mark(p)
    <3>1. k[p] \in 1 .. Size
      BY <2>1, FunctionTypes, Zenon DEF Alright, Place, Mark, At
    <3> QED
      BY <2>1, <3>1, AfterTidy, Zenon DEF Mark
  <2>2. CASE Go(p)
    BY <2>2, Unmoved, Zenon DEF Go
  <2> QED
    BY <2>1, <2>2, Zenon
<1>5. {"go", "operands", "irq", "status"} \subseteq Labels
  BY Zenon DEF Labels
<1> QED
  BY <1>2, <1>3, <1>4, <1>5, Unmoved, Moved, Zenon DEF Tidy, afuVars, argVars

\* What lies between two rounds, and the close, is tidy.
LEMMA BetweenTidy ==
  ASSUME IInv, NEW p \in Procs, restart_afu(p) \/ ClearDestination(p) \/ Reallocate(p) \/ Close(p)
  PROVE  Tidy(p)
<1>1. /\ UNCHANGED <<queueVars, irqs, trouble, args, forked, k, i, first_we, last_we, result, verdict>>
      /\ \E x \in {"clear", "round", "done"} : Goto(p, x)
  BY Zenon DEF restart_afu, ClearDestination, Reallocate, Close, argVars
<1>2. {"clear", "round", "done"} \subseteq Labels
  BY Zenon DEF Labels
<1>3. Moves(engine', engine, p, Engines)
  <2>1. \/ engine' = engine
        \/ engine' = [engine EXCEPT ![p].stopped = FALSE]
        \/ engine' = [engine EXCEPT ![p].enabled = FALSE]
    BY Zenon DEF restart_afu, ClearDestination, Reallocate, Close, Disable
  <2>2. engine \in [Procs -> Engines]
    BY EngineTypes, Zenon
  <2>3. [engine[p] EXCEPT !.stopped = FALSE] \in Engines /\ [engine[p] EXCEPT !.enabled = FALSE] \in Engines
    BY <2>2, Zenon DEF Engines
  <2> QED
    BY <2>1, <2>2, <2>3, Zenon DEF Moves
<1>4. Moves(dst', dst, p, Addresses)
  <2>1. \/ dst' = dst
        \/ \E d \in {Dst(p), NewDst(p)} : dst' = [dst EXCEPT ![p] = d]
    BY Zenon DEF restart_afu, ClearDestination, Reallocate, Close, argVars
  <2>2. {Dst(p), NewDst(p)} \subseteq Addresses
    BY Apart, Zenon
  <2> QED
    BY <2>1, <2>2, FunctionTypes, Unmoved, MovesExcept, Zenon
<1>5. Writes(p)
  <2>1. CASE mem' = mem
    BY <2>1, Unmoved, Zenon
  <2>2. CASE mem' = [mem EXCEPT ![dst[p]] = 0]
    BY <2>2, OwnBuffers, FunctionTypes, Wrote, Zenon
  <2>3. CASE Reallocate(p)
    <3>1. PICK d \in {Dst(p), NewDst(p)} :
            mem' = [a \in Addresses |->
                     IF \/ a \in {dst[p], d}
                        \/ args.shared_mem /\ a \in {Source(p, dst[p]), Source(p, d)}
                     THEN 0 ELSE mem[a]]
      BY <2>3, Zenon DEF Reallocate
    <3>2. {dst[p], d, Source(p, dst[p]), Source(p, d)} \subseteq Own(p)
      BY <3>1, OwnBuffers, Zenon DEF Own, Source
    <3>3. mem \in [Addresses -> Nat] /\ 0 \in Nat
      BY FunctionTypes, SMTT(30), Z3T(30)
    <3>4. mem' \in [Addresses -> Nat]
      BY <3>1, <3>3, SMTT(30), Z3T(30)
    <3>5. \A a \in Addresses \ Own(p) : mem'[a] = mem[a]
      BY <3>1, <3>2, ZenonT(30)
    <3> QED
      BY <3>4, <3>5, Zenon DEF Writes
  <2> QED
    BY <2>1, <2>2, <2>3, Zenon DEF restart_afu, ClearDestination, Close
<1> QED
  BY <1>1, <1>2, <1>3, <1>4, <1>5, Unmoved, Moved, Zenon DEF Tidy, queueVars, argVars

\* The AFU, in its own context.
LEMMA EngineMoves ==
  ASSUME IInv, NEW p \in Procs, AfuWorks(p) \/ ExecuteFails(p)
  PROVE  Moves(engine', engine, p, Engines)
<1>1. /\ engine \in [Procs -> Engines] /\ engine[p] \in Engines /\ queue[p][engine[p].at] \in Elements
      /\ engine[p].we.args.src \in Addresses
  <2>1. engine \in [Procs -> Engines] /\ queue \in [Procs -> [Slots -> Elements]]
    BY EngineTypes, FunctionTypes, Zenon
  <2> QED
    BY <2>1, SMTT(30), Z3T(30) DEF Engines, Elements
<1>2. ASSUME NEW status \in Statuses, NEW stops \in BOOLEAN, Outcome(p, status, stops)
      PROVE  Moves(engine', engine, p, Engines)
  <2>1. [engine[p] EXCEPT !.phase = "complete", !.outcome = status, !.stopped = @ \/ stops] \in Engines
    BY <1>1, Zenon DEF Engines
  <2> QED
    BY <1>1, <1>2, <2>1, Zenon DEF Outcome, Moves
<1>3. {1, 17, 255} \subseteq Statuses
  BY Zenon DEF Statuses
<1>4. CASE Fetch(p)
  <2>1. [engine[p] EXCEPT !.phase = "execute", !.we = queue[p][engine[p].at]] \in Engines
    BY <1>1, Zenon DEF Engines
  <2> QED
    BY <1>1, <1>4, <2>1, Zenon DEF Fetch, Moves
<1>5. CASE ExecuteLoad(p)
  <2>1. mem[engine[p].we.args.src] \in Nat
    BY <1>1, FunctionTypes, Zenon
  <2>2. [engine[p] EXCEPT !.phase = "store", !.loaded = mem[engine[p].we.args.src]] \in Engines
    BY <1>1, <2>1, Zenon DEF Engines
  <2> QED
    BY <1>1, <1>5, <2>2, Zenon DEF ExecuteLoad, Moves
<1>6. CASE Complete(p)
  <2> DEFINE at == engine[p].at
             b == (at + 1) % QueueLength
             v == IF at = QueueLength - 1 THEN 1 - engine[p].wrap ELSE engine[p].wrap
  <2>1. b \in Slots /\ v \in {0, 1}
    BY <1>1, QueueAssumption, SMTT(30), Z3T(30) DEF Engines, Slots
  <2>2. engine' = [engine EXCEPT ![p].phase = "fetch", ![p].at = b, ![p].wrap = v]
    BY <1>6, Zenon DEF Complete
  <2> HIDE DEF b, v
  <2>3. [engine[p] EXCEPT !.phase = "fetch", !.at = b, !.wrap = v] \in Engines
    BY <1>1, <2>1, Zenon DEF Engines
  <2> QED
    BY <1>1, <2>2, <2>3, ZenonT(30) DEF Moves
<1>7. CASE ~(Fetch(p) \/ ExecuteLoad(p) \/ Complete(p))
  <2>1. \E status \in {1, 17, 255}, stops \in BOOLEAN : Outcome(p, status, stops)
    BY <1>7, ZenonT(30) DEF AfuWorks, ExecuteCopy, ExecuteAtomic, ExecuteStore, ExecuteIrq, ExecuteWake, ExecuteStop,
       ExecuteFails
  <2> QED
    BY <1>2, <1>3, <2>1, SMTT(30), Z3T(30)
<1> QED
  BY <1>4, <1>5, <1>6, <1>7, Zenon

\* The AFU writes to the operands of the round only.
LEMMA AfuWrites ==
  ASSUME IInv, NEW p \in Procs, AfuWorks(p) \/ ExecuteFails(p)
  PROVE  Writes(p)
<1> DEFINE a == engine[p].we.args.dst
<1>1. CASE mem' = mem
  BY <1>1, Unmoved, Zenon
<1>2. CASE ExecuteCopy(p) \/ ExecuteAtomic(p) \/ ExecuteStore(p)
  <2>1. engine[p].phase # "fetch" /\ engine[p].we.cmd.name \in {"copy", "atomic", "increment"}
    BY <1>2, FunctionTypes, Zenon DEF ExecuteCopy, ExecuteAtomic, ExecuteStore, Executing, Alright, Fetched
  <2>2. a \in Own(p) /\ a \in Addresses
    BY <2>1, OwnBuffers, Zenon
  <2>3. engine[p].we.args.src \in Addresses /\ engine[p].loaded \in Nat
    <3>1. engine[p] \in Engines
      BY EngineTypes, ZenonT(30)
    <3> QED
      BY <3>1, Zenon DEF Engines, Elements
  <2>4. mem[engine[p].we.args.src] \in Nat /\ 1 \in Nat /\ engine[p].loaded + 1 \in Nat
    BY <2>3, FunctionTypes, SMTT(30), Z3T(30)
  <2>5. \E x \in Nat : mem' = [mem EXCEPT ![a] = x]
    BY <1>2, <2>4, Zenon DEF ExecuteCopy, ExecuteAtomic, ExecuteStore
  <2> QED
    BY <2>2, <2>5, Wrote, Zenon
<1> QED
  BY <1>1, <1>2, Zenon DEF AfuWorks, Fetch, ExecuteLoad, ExecuteIrq, ExecuteWake, ExecuteStop, Complete, ExecuteFails

\* The steps of the AFU are tidy.
LEMMA AfuTidy ==
  ASSUME IInv, NEW p \in Procs, AfuWorks(p) \/ ExecuteFails(p), UNCHANGED hostVars
  PROVE  Tidy(p)
<1>1. UNCHANGED <<next, wrap>>
  BY Zenon DEF AfuWorks, Fetch, ExecuteCopy, ExecuteAtomic, ExecuteLoad, ExecuteStore, ExecuteIrq, ExecuteWake,
     ExecuteStop, Complete, ExecuteFails, queueVars
<1>2. Moves(queue', queue, p, [Slots -> Elements])
  <2>1. CASE queue' = queue
    BY <2>1, Unmoved, Zenon
  <2>2. CASE Complete(p)
    <3>1. /\ queue \in [Procs -> [Slots -> Elements]]
          /\ engine[p].at \in Slots /\ engine[p].outcome \in Statuses
      BY FunctionTypes, Types, Zenon
    <3>2. [queue[p][engine[p].at] EXCEPT !.status = engine[p].outcome] \in Elements
      BY <3>1, ElementUpdates, Zenon
    <3> QED
      BY <2>2, <3>1, <3>2, Zenon DEF Complete, Moves
  <2> QED
    BY <2>1, <2>2, Zenon DEF AfuWorks, Fetch, ExecuteCopy, ExecuteAtomic, ExecuteLoad, ExecuteStore, ExecuteIrq,
       ExecuteWake, ExecuteStop, ExecuteFails, queueVars
<1>3. Moves(irqs', irqs, p, SUBSET Irqs)
  <2>1. \/ irqs' = irqs
        \/ \E irq \in Irqs : irqs' = [irqs EXCEPT ![p] = @ \cup {irq}]
    <3>1. "afu" \in Irqs /\ "err" \in Irqs
      BY Zenon DEF Irqs
    <3> QED
      BY <3>1, Zenon DEF AfuWorks, Fetch, ExecuteCopy, ExecuteAtomic, ExecuteLoad, ExecuteStore, ExecuteIrq,
         ExecuteWake, ExecuteStop, Complete, ExecuteFails
  <2> QED
    BY <2>1, Unmoved, Moved, Zenon
<1>4. Moves(trouble', trouble, p, BOOLEAN)
  <2>1. trouble' = trouble \/ trouble' = [trouble EXCEPT ![p] = TRUE]
    BY Zenon DEF AfuWorks, Fetch, ExecuteCopy, ExecuteAtomic, ExecuteLoad, ExecuteStore, ExecuteIrq,
       ExecuteWake, ExecuteStop, Complete, ExecuteFails
  <2> QED
    BY <2>1, Unmoved, Moved, Zenon
<1>5. Moves(engine', engine, p, Engines) /\ Writes(p)
  BY EngineMoves, AfuWrites, Zenon
<1> QED
  BY <1>1, <1>2, <1>3, <1>4, <1>5, Unmoved, Zenon DEF Tidy, hostVars, argVars

\* A step of a process or its AFU keeps what is said of each of them.
LEMMA ProcessStep ==
  ASSUME IInv, NEW p \in Procs,
         HostWorks(p) \/ HostFails(p) \/ ((AfuWorks(p) \/ ExecuteFails(p)) /\ UNCHANGED hostVars)
  PROVE  Tidy(p) /\ TypeOK' /\ pc' \in [Procs -> Labels] /\ \A q \in Procs : Alright(q)'
<1>1. Tidy(p)
  BY HostFailsTidy, WaitTidy, SetupTidy, AddTidy, MarkTidy, BetweenTidy, AfuTidy, Zenon DEF HostWorks
<1>2. Alright(p)'
  BY SetupStep, StartRoundStep, PutOperandsStep, PutCommandStep, MarkStep, GoStep, WaitForIrqStep,
     WaitForStatusStep, WaitFastStep, CheckStep, RestartStep, ClearStep, ReallocateStep, FinishStep, CloseStep,
     HostFailsStep, AfuWorksStep, Zenon DEF HostWorks
<1>3. ASSUME NEW q \in Procs, q # p PROVE Alright(q)'
  BY <1>1, <1>3, TidyMeans, FunctionTypes, OtherAlright, Zenon
<1> QED
  BY <1>1, <1>2, <1>3, TidyMeans, Zenon

===============================================================================

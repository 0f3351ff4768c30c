-------------------------- MODULE MemcpyTestInvariant -------------------------
(***************************************************************************)
(* The test program ocxl_memcpy, for every number of processes and of      *)
(* rounds and every length of the queue that holds a round: the AFU runs   *)
(* what was posted, a test that passes is done, and one fails only if      *)
(* something went wrong; no increment under the lock is lost.              *)
(***************************************************************************)
EXTENDS MemcpyTest, TLAPS

-------------------------------------------------------------------------------
(* The invariant: where a process is, and how far the AFU has come.         *)

Labels ==
  {"setup", "round", "operands", "command", "mark", "go", "irq", "status", "event", "check",
   "restart", "clear", "close", "done"}

\* The steps of memcpy3_add_we(), up to the one that sets the first element valid.
Posting == {"operands", "command", "mark", "go"}

\* How many elements a round has; how many of them the process has added so far.
Size == (IF args.work = "atomic" THEN 3 ELSE 1) + (IF args.completion = "poll" THEN 0 ELSE 1)

Posted(p) ==
  IF i[p] = 0 THEN 0 ELSE IF pc[p] \in {"operands", "command"} THEN k[p] - 1 ELSE k[p]

\* The slot n places after slot s, and the wrap bit there if it is w at slot s.
After(s, n)   == IF s + n < QueueLength THEN s + n ELSE s + n - QueueLength
Lap(s, n, w)  == IF s + n < QueueLength THEN w ELSE 1 - w

\* The slot of element n of the round, and the wrap bit with which the round began.
Slot(p, n)   == After(first_we[p], n - 1)
FirstWrap(p) == Lap(first_we[p], Posted(p), wrap[p])

\* How many elements of the round the AFU has done with.
Done(p) ==
  engine[p].at - first_we[p] + (IF engine[p].wrap = FirstWrap(p) THEN 0 ELSE QueueLength)

\* Element n has been executed, though its status may still have to be written.
Ran(p, n) == n <= Done(p) \/ (n = Done(p) + 1 /\ engine[p].phase = "complete")

Place(p) ==
  /\ pc[p] \in Labels
  /\ p \notin forked => pc[p] = "done" /\ i[p] = 0 /\ result[p] = "none"
  /\ p \in forked => (result[p] # "none" <=> pc[p] \in {"close", "done"})
  /\ result[p] = "pass" => i[p] = args.loop_count
  /\ i[p] = 0 <=> pc[p] \in {"setup", "round", "close", "done"} /\ i[p] = 0
  /\ pc[p] = "setup" => i[p] = 0
  /\ i[p] # 0 => /\ k[p] \in 1 .. Size
                 /\ pc[p] \notin Posting => k[p] = Size
                 /\ pc[p] = "go" => k[p] = Size
                 /\ pc[p] # "operands" => last_we[p] = Slot(p, k[p])
  /\ pc[p] = "mark" => k[p] # 1
  /\ engine[p].enabled => pc[p] \notin {"setup", "done"}
  /\ pc[p] = "irq" => args.completion = "irq"
  /\ pc[p] = "event" => args.completion = "wake"

Ring(p) ==
  /\ next[p] = Slot(p, Posted(p) + 1)
  /\ Done(p) \in 0 .. Posted(p)
  /\ engine[p].phase # "fetch" => Done(p) < Posted(p)
  /\ pc[p] \in Posting => Done(p) = 0 /\ engine[p].phase = "fetch"
  /\ pc[p] \in {"event", "check", "restart", "clear", "round"} \/ result[p] = "pass" => Done(p) = Posted(p)

\* What AddCommand has left in a slot carries the wrap bit of the lap.
LapOf(p, s) == IF s < next[p] THEN wrap[p] ELSE 1 - wrap[p]

Laps(p) == \A s \in Slots : queue[p][s].cmd.valid => queue[p][s].cmd.wrap = LapOf(p, s)

\* The operands of element n.
Operands(p, n) == [src |-> Round(p)[n].src, dst |-> Round(p)[n].dst, post |-> i[p]]

Element(p, n) ==
  LET we == queue[p][Slot(p, n)]
  IN  /\ we.cmd.wrap = LapOf(p, Slot(p, n))
      /\ we.cmd.name = Round(p)[n].name
      /\ pc[p] \in Posting /\ n = 1 => ~we.cmd.valid
      /\ n <= Done(p) => we.status # 0
      /\ n > Done(p) => we.status = 0 /\ we.args = Operands(p, n)
      /\ we.status = 17 => args.completion = "wake" /\ n = Size

RoundElements(p) ==
  /\ \A n \in 1 .. Posted(p) : Element(p, n)
  /\ pc[p] = "command" => queue[p][next[p]].status = 0 /\ queue[p][next[p]].args = Operands(p, k[p])

\* The element that the AFU has fetched.
Fetched(p) ==
  engine[p].phase # "fetch" =>
    /\ engine[p].we.cmd.name = Round(p)[Done(p) + 1].name
    /\ engine[p].we.args = Operands(p, Done(p) + 1)
    /\ engine[p].phase = "store" => engine[p].we.cmd.name = "increment"
    /\ engine[p].phase = "complete" => engine[p].outcome # 0
    /\ engine[p].phase = "complete" /\ engine[p].outcome = 17 => engine[p].we.cmd.name = "wake"

\* What comes of an error of the AFU; and no slot is left without a status.
Errors(p) ==
  /\ \A s \in Slots : queue[p][s].status = 255 => "err" \in irqs[p] \/ result[p] = "fail"
  /\ engine[p].phase = "complete" /\ engine[p].outcome = 255 => "err" \in irqs[p] \/ result[p] = "fail"
  /\ "err" \in irqs[p] \/ result[p] = "fail" => trouble[p]
  /\ \A s \in Slots : queue[p][s].cmd.valid /\ queue[p][s].status = 0 =>
       \/ \E n \in Done(p) + 1 .. Posted(p) : s = Slot(p, n)
       \/ pc[p] = "command" /\ s = next[p]

\* Without trouble, an interrupt is there only between its element and the wait for it.
Refused(p) ==
  \/ Done(p) = Size /\ LastStatus(p) = 17
  \/ Done(p) = Size - 1 /\ engine[p].phase = "complete" /\ engine[p].outcome = 17

Interrupts(p) ==
  ~trouble[p] =>
    /\ "afu" \in irqs[p] =>
         \/ pc[p] = "irq" /\ Ran(p, Size)
         \/ pc[p] \in {"status", "event"} /\ args.completion = "wake" /\ Refused(p)
    /\ pc[p] = "status" /\ args.completion = "irq" => Ran(p, Size)

\* Without trouble, the data is what the test expects.
Buffers(p) ==
  /\ args.work = "atomic" => dst[p] = Lock
  /\ args.work = "increment" => dst[p] = Dst(p)
  /\ args.work = "copy" => dst[p] \in {Dst(p), NewDst(p)}

Waiting == {"irq", "status", "event", "check"}

Data(p) ==
  ~trouble[p] =>
    /\ args.work = "copy" /\ pc[p] \in Waiting /\ Ran(p, 1) => mem[dst[p]] = mem[Source(p, dst[p])]
    /\ args.work = "increment" /\ pc[p] \in Waiting /\ Ran(p, 1) => mem[dst[p]] = mem[Src(p)] + 1
    /\ args.work = "increment" /\ engine[p].phase = "store" => engine[p].loaded = mem[Src(p)]
    /\ args.work = "atomic" => mem[Src(p)] = 0

-------------------------------------------------------------------------------
(* What the processes share.                                                *)

Troubled == \E p \in Procs : trouble[p]

\* The AFU holds the lock for p: from the compare and swap to the copy of 0.
Holds(p) == i[p] # 0 /\ Ran(p, 1) /\ ~Ran(p, 3)

\* The increments of the counter, by process and round.
Increments ==
  {x \in Procs \X (1 .. args.loop_count) : x[2] < i[x[1]] \/ (x[2] = i[x[1]] /\ Ran(x[1], 2))}

Shared ==
  args.work = "atomic" /\ ~Troubled =>
    /\ \A p \in Procs : Holds(p) => mem[Lock] = 1
    /\ \A p, q \in Procs : Holds(p) /\ Holds(q) => p = q
    /\ \A p \in Procs : engine[p].phase = "store" => engine[p].loaded = mem[Counter]
    /\ mem[Counter] = Cardinality(Increments)

Judged ==
  /\ verdict # "none" => \A p \in Procs : pc[p] = "done"
  /\ verdict = "successful" =>
       /\ \A p \in forked : result[p] = "pass"
       /\ args.work = "atomic" => mem[Counter] = Cardinality(args.processes) * args.loop_count
  /\ verdict = "failed" => forked # args.processes \/ Troubled

Alright(p) ==
  /\ Place(p) /\ Ring(p) /\ Laps(p) /\ RoundElements(p) /\ Fetched(p) /\ Errors(p)
  /\ Interrupts(p) /\ Buffers(p) /\ Data(p)

IInv ==
  /\ TypeOK /\ pc \in [Procs -> Labels]
  /\ \A p \in Procs : Alright(p)
  /\ Shared
  /\ Judged

-------------------------------------------------------------------------------
(* The elements of a round, and the ring.                                   *)

\* The round if the copies go to d.
RoundTo(p, d) ==
  (IF args.work = "atomic" THEN AtomicRound(p)
   ELSE IF args.work = "copy" THEN <<WorkElement("copy", Source(p, d), d, FALSE, FALSE)>>
   ELSE <<WorkElement("increment", Src(p), Dst(p), FALSE, FALSE)>>)
  \o
  (IF args.completion = "poll" THEN <<>>
   ELSE <<WorkElement(args.completion, Src(p), Dst(p), TRUE, FALSE)>>)

\* The elements of a round, one by one, if the copies go to d.
LEMMA RoundToIs ==
  ASSUME args \in memcpy_test_args, NEW p \in Procs, NEW d
  PROVE  /\ Len(RoundTo(p, d)) = Size /\ Size \in 1 .. 4
         /\ args.work = "atomic" => /\ RoundTo(p, d)[1] = WorkElement("atomic", Src(p), Lock, FALSE, FALSE)
                                    /\ RoundTo(p, d)[2] = WorkElement("increment", Counter, Counter, FALSE, TRUE)
                                    /\ RoundTo(p, d)[3] = WorkElement("copy", Src(p), Lock, FALSE, TRUE)
         /\ args.work = "copy" => RoundTo(p, d)[1] = WorkElement("copy", Source(p, d), d, FALSE, FALSE)
         /\ args.work = "increment" => RoundTo(p, d)[1] = WorkElement("increment", Src(p), Dst(p), FALSE, FALSE)
         /\ args.completion # "poll" =>
              RoundTo(p, d)[Size] = WorkElement(args.completion, Src(p), Dst(p), TRUE, FALSE)
         /\ args.work \in {"atomic", "copy", "increment"}
         /\ args.completion \in {"poll", "irq", "wake"}
<1> DEFINE head == IF args.work = "atomic" THEN AtomicRound(p)
                   ELSE IF args.work = "copy" THEN <<WorkElement("copy", Source(p, d), d, FALSE, FALSE)>>
                   ELSE <<WorkElement("increment", Src(p), Dst(p), FALSE, FALSE)>>
           tail == IF args.completion = "poll" THEN <<>>
                   ELSE <<WorkElement(args.completion, Src(p), Dst(p), TRUE, FALSE)>>
           all == {WorkElement("atomic", Src(p), Lock, FALSE, FALSE),
                   WorkElement("increment", Counter, Counter, FALSE, TRUE),
                   WorkElement("copy", Src(p), Lock, FALSE, TRUE),
                   WorkElement("copy", Source(p, d), d, FALSE, FALSE),
                   WorkElement("increment", Src(p), Dst(p), FALSE, FALSE),
                   WorkElement(args.completion, Src(p), Dst(p), TRUE, FALSE)}
<1>1. args.work \in {"atomic", "copy", "increment"} /\ args.completion \in {"poll", "irq", "wake"}
  BY Zenon DEF memcpy_test_args
<1>2. RoundTo(p, d) = head \o tail
  BY Zenon DEF RoundTo
<1>3. head \in Seq(all) /\ tail \in Seq(all)
  <2>1. \A a, b, c \in all : <<>> \in Seq(all) /\ <<a>> \in Seq(all) /\ <<a, b, c>> \in Seq(all)
    <3> HIDE DEF all
    <3> QED
      OBVIOUS
  <2> QED
    BY <2>1, Zenon DEF AtomicRound
<1>4. /\ Len(head) = IF args.work = "atomic" THEN 3 ELSE 1
      /\ Len(tail) = IF args.completion = "poll" THEN 0 ELSE 1
      /\ args.completion # "poll" => tail[1] = WorkElement(args.completion, Src(p), Dst(p), TRUE, FALSE)
  BY Zenon DEF AtomicRound
<1>5. /\ args.work = "atomic" => /\ head[1] = WorkElement("atomic", Src(p), Lock, FALSE, FALSE)
                                 /\ head[2] = WorkElement("increment", Counter, Counter, FALSE, TRUE)
                                 /\ head[3] = WorkElement("copy", Src(p), Lock, FALSE, TRUE)
      /\ args.work = "copy" => head[1] = WorkElement("copy", Source(p, d), d, FALSE, FALSE)
      /\ args.work = "increment" => head[1] = WorkElement("increment", Src(p), Dst(p), FALSE, FALSE)
  BY Zenon DEF AtomicRound
<1> HIDE DEF head, tail, all
<1>6. /\ Len(RoundTo(p, d)) = Len(head) + Len(tail)
      /\ \A n \in 1 .. Len(head) : RoundTo(p, d)[n] = head[n]
      /\ \A n \in 1 .. Len(tail) : RoundTo(p, d)[Len(head) + n] = tail[n]
  BY <1>2, <1>3, SMTT(30), Z3T(30)
<1>7. Size = Len(head) + Len(tail) /\ Size \in 1 .. 4
  BY <1>1, <1>4, SMTT(30), Z3T(30) DEF Size
<1>8. args.completion # "poll" => RoundTo(p, d)[Size] = WorkElement(args.completion, Src(p), Dst(p), TRUE, FALSE)
  <2>1. args.completion # "poll" => Len(tail) = 1 /\ RoundTo(p, d)[Len(head) + 1] = tail[1]
    BY <1>4, <1>6, SMTT(30), Z3T(30)
  <2> QED
    BY <1>4, <1>7, <2>1, Zenon
<1>9. /\ args.work = "atomic" => RoundTo(p, d)[1] = head[1] /\ RoundTo(p, d)[2] = head[2] /\ RoundTo(p, d)[3] = head[3]
      /\ RoundTo(p, d)[1] = head[1]
  BY <1>4, <1>6, SMTT(30), Z3T(30)
<1> QED
  BY <1>1, <1>5, <1>6, <1>7, <1>8, <1>9, Zenon

\* The elements of a round, one by one.
LEMMA RoundIs ==
  ASSUME args \in memcpy_test_args, NEW p \in Procs
  PROVE  /\ Len(Round(p)) = Size /\ Size \in 1 .. 4
         /\ args.work = "atomic" => /\ Round(p)[1] = WorkElement("atomic", Src(p), Lock, FALSE, FALSE)
                                    /\ Round(p)[2] = WorkElement("increment", Counter, Counter, FALSE, TRUE)
                                    /\ Round(p)[3] = WorkElement("copy", Src(p), Lock, FALSE, TRUE)
         /\ args.work = "copy" => Round(p)[1] = WorkElement("copy", Source(p, dst[p]), dst[p], FALSE, FALSE)
         /\ args.work = "increment" => Round(p)[1] = WorkElement("increment", Src(p), Dst(p), FALSE, FALSE)
         /\ args.completion # "poll" =>
              Round(p)[Size] = WorkElement(args.completion, Src(p), Dst(p), TRUE, FALSE)
         /\ args.work \in {"atomic", "copy", "increment"}
         /\ args.completion \in {"poll", "irq", "wake"}
<1>1. Round(p) = RoundTo(p, dst[p])
  BY Zenon DEF Round, RoundTo
<1>2. /\ Len(Round(p)) = Size /\ Size \in 1 .. 4
      /\ args.work \in {"atomic", "copy", "increment"} /\ args.completion \in {"poll", "irq", "wake"}
  <2>1. Len(RoundTo(p, dst[p])) = Size /\ Size \in 1 .. 4
    BY RoundToIs, Zenon
  <2>2. args.work \in {"atomic", "copy", "increment"} /\ args.completion \in {"poll", "irq", "wake"}
    BY RoundToIs, Zenon
  <2> QED
    BY <1>1, <2>1, <2>2, Zenon
<1>3. args.work = "atomic" => /\ Round(p)[1] = WorkElement("atomic", Src(p), Lock, FALSE, FALSE)
                              /\ Round(p)[2] = WorkElement("increment", Counter, Counter, FALSE, TRUE)
                              /\ Round(p)[3] = WorkElement("copy", Src(p), Lock, FALSE, TRUE)
  <2>1. args.work = "atomic" => RoundTo(p, dst[p])[1] = WorkElement("atomic", Src(p), Lock, FALSE, FALSE)
    BY RoundToIs, Zenon
  <2>2. args.work = "atomic" => RoundTo(p, dst[p])[2] = WorkElement("increment", Counter, Counter, FALSE, TRUE)
    BY RoundToIs, Zenon
  <2>3. args.work = "atomic" => RoundTo(p, dst[p])[3] = WorkElement("copy", Src(p), Lock, FALSE, TRUE)
    BY RoundToIs, Zenon
  <2> QED
    BY <1>1, <2>1, <2>2, <2>3, Zenon
<1>4. args.work = "copy" => Round(p)[1] = WorkElement("copy", Source(p, dst[p]), dst[p], FALSE, FALSE)
  <2>1. ASSUME args.work = "copy", NEW d
        PROVE  RoundTo(p, d)[1] = WorkElement("copy", Source(p, d), d, FALSE, FALSE)
    BY <2>1, RoundToIs, Zenon
  <2>2. args.work = "copy" =>
          RoundTo(p, dst[p])[1] = WorkElement("copy", Source(p, dst[p]), dst[p], FALSE, FALSE)
    BY <2>1, ZenonT(30)
  <2> QED
    BY <1>1, <2>2, Zenon
<1>5. args.work = "increment" => Round(p)[1] = WorkElement("increment", Src(p), Dst(p), FALSE, FALSE)
  BY <1>1, RoundToIs, Zenon
<1>6. args.completion # "poll" =>
        Round(p)[Size] = WorkElement(args.completion, Src(p), Dst(p), TRUE, FALSE)
  BY <1>1, RoundToIs, Zenon
<1> QED
  BY <1>2, <1>3, <1>4, <1>5, <1>6, Zenon

\* Element n is the one that tells the end; and its kind, which is the same wherever
\* the copies go.
LEMMA RoundKinds ==
  ASSUME args \in memcpy_test_args, NEW p \in Procs, NEW n \in 1 .. Size, NEW d
  PROVE  /\ RoundTo(p, d)[n].name = Round(p)[n].name
         /\ Round(p)[n].name \in Commands
         /\ Round(p)[n].name = "wake" => args.completion = "wake" /\ n = Size
         /\ Round(p)[n].name = "irq" => args.completion = "irq" /\ n = Size
         /\ Round(p)[n].name = "atomic" <=> args.work = "atomic" /\ n = 1
         /\ Round(p)[n].name = "increment" <=>
              (args.work = "atomic" /\ n = 2) \/ (args.work = "increment" /\ n = 1)
         /\ Round(p)[n].name = "copy" <=>
              (args.work = "atomic" /\ n = 3) \/ (args.work = "copy" /\ n = 1)
         /\ Round(p)[n].mark \in BOOLEAN /\ Round(p)[n].valid \in BOOLEAN
         /\ n = 1 => ~Round(p)[n].valid /\ ~Round(p)[n].mark
<1>1. \/ args.work = "atomic" /\ n = 1
      \/ args.work = "atomic" /\ n = 2
      \/ args.work = "atomic" /\ n = 3
      \/ args.work = "copy" /\ n = 1
      \/ args.work = "increment" /\ n = 1
      \/ args.completion # "poll" /\ n = Size /\ n # 1 /\ (args.work = "atomic" => n = 4)
  <2>1. args.work \in {"atomic", "copy", "increment"} /\ args.completion \in {"poll", "irq", "wake"}
    BY RoundIs, Zenon
  <2> QED
    BY <2>1, SMTT(30), Z3T(30) DEF Size
<1>2. CASE args.work = "atomic" /\ n = 1
  <2>1. /\ RoundTo(p, d)[n] = WorkElement("atomic", Src(p), Lock, FALSE, FALSE)
        /\ Round(p)[n] = WorkElement("atomic", Src(p), Lock, FALSE, FALSE)
    BY <1>2, RoundIs, RoundToIs, Zenon
  <2> QED
    BY <1>2, <2>1, SMTT(30), Z3T(30) DEF WorkElement, Commands
<1>3. CASE args.work = "atomic" /\ n = 2
  <2>1. /\ RoundTo(p, d)[n] = WorkElement("increment", Counter, Counter, FALSE, TRUE)
        /\ Round(p)[n] = WorkElement("increment", Counter, Counter, FALSE, TRUE)
    BY <1>3, RoundIs, RoundToIs, Zenon
  <2> QED
    BY <1>3, <2>1, SMTT(30), Z3T(30) DEF WorkElement, Commands
<1>4. CASE args.work = "atomic" /\ n = 3
  <2>1. /\ RoundTo(p, d)[n] = WorkElement("copy", Src(p), Lock, FALSE, TRUE)
        /\ Round(p)[n] = WorkElement("copy", Src(p), Lock, FALSE, TRUE)
    BY <1>4, RoundIs, RoundToIs, Zenon
  <2> QED
    BY <1>4, <2>1, SMTT(30), Z3T(30) DEF WorkElement, Commands
<1>5. CASE args.work = "copy" /\ n = 1
  <2>1. /\ RoundTo(p, d)[n] = WorkElement("copy", Source(p, d), d, FALSE, FALSE)
        /\ Round(p)[n] = WorkElement("copy", Source(p, dst[p]), dst[p], FALSE, FALSE)
    BY <1>5, RoundIs, RoundToIs, Zenon
  <2> QED
    BY <1>5, <2>1, SMTT(30), Z3T(30) DEF WorkElement, Commands
<1>6. CASE args.work = "increment" /\ n = 1
  <2>1. /\ RoundTo(p, d)[n] = WorkElement("increment", Src(p), Dst(p), FALSE, FALSE)
        /\ Round(p)[n] = WorkElement("increment", Src(p), Dst(p), FALSE, FALSE)
    BY <1>6, RoundIs, RoundToIs, Zenon
  <2> QED
    BY <1>6, <2>1, SMTT(30), Z3T(30) DEF WorkElement, Commands
<1>7. CASE args.completion # "poll" /\ n = Size /\ n # 1 /\ (args.work = "atomic" => n = 4)
  <2>1. /\ RoundTo(p, d)[n] = WorkElement(args.completion, Src(p), Dst(p), TRUE, FALSE)
        /\ Round(p)[n] = WorkElement(args.completion, Src(p), Dst(p), TRUE, FALSE)
        /\ args.completion \in {"irq", "wake"}
    BY <1>7, RoundIs, RoundToIs, Zenon
  <2> QED
    BY <1>7, <2>1, SMTT(30), Z3T(30) DEF WorkElement, Commands
<1> QED
  BY <1>1, <1>2, <1>3, <1>4, <1>5, <1>6, <1>7, Zenon

\* What TypeOK says of one process.
LEMMA Types ==
  ASSUME TypeOK, NEW p \in Procs
  PROVE  /\ QueueLength \in Nat /\ QueueLength >= 4
         /\ first_we[p] \in Slots /\ last_we[p] \in Slots /\ next[p] \in Slots
         /\ wrap[p] \in {0, 1} /\ k[p] \in 1 .. 4 /\ i[p] \in Nat /\ i[p] \in 0 .. args.loop_count
         /\ args \in memcpy_test_args /\ args.loop_count \in Nat
         /\ engine[p].at \in Slots /\ engine[p].wrap \in {0, 1}
         /\ engine[p].phase \in {"fetch", "execute", "store", "complete"}
         /\ engine[p].we \in Elements /\ engine[p].outcome \in Statuses
         /\ queue[p] \in [Slots -> Elements] /\ irqs[p] \subseteq Irqs
<1>1. QueueLength \in Nat /\ QueueLength >= 4
  BY QueueAssumption, TestAssumption, Zenon
<1>2. args \in memcpy_test_args /\ args.loop_count \in Nat
  BY Zenon DEF TypeOK, memcpy_test_args
<1>3. engine[p] \in [enabled : BOOLEAN, stopped : BOOLEAN, at : Slots, wrap : {0, 1},
                     phase : {"fetch", "execute", "store", "complete"}, we : Elements,
                     outcome : Statuses, loaded : Nat]
  BY Zenon DEF TypeOK, QueueTypeOK
<1> QED
  BY <1>1, <1>2, <1>3, SMTT(30), Z3T(30) DEF TypeOK, QueueTypeOK

\* The types of the parts of a work element.
LEMMA ElementTypes ==
  ASSUME NEW we \in Elements
  PROVE  /\ we.cmd.wrap \in {0, 1} /\ we.cmd.valid \in BOOLEAN /\ we.cmd.name \in Commands
         /\ we.status \in Statuses /\ we.args.src \in Addresses /\ we.args.dst \in Addresses
         /\ we.args.post \in Nat /\ we.args = [src |-> we.args.src, dst |-> we.args.dst, post |-> we.args.post]
  BY Zenon DEF Elements

\* The slot after a slot, with the remainder that the code takes.
LEMMA NextSlot ==
  ASSUME NEW s \in Slots
  PROVE  (s + 1) % QueueLength = After(s, 1) /\ After(s, 1) \in Slots
  BY QueueAssumption, TestAssumption, SMTT(30), Z3T(30) DEF Slots, After

\* The slots of a round are different ones, since the queue can hold a round.
LEMMA SlotArithmetic ==
  ASSUME NEW f \in Slots
  PROVE  /\ \A n \in 0 .. 4 : After(f, n) \in Slots
         /\ \A n, m \in 0 .. 3 : After(f, n) = After(f, m) => n = m
         /\ \A n \in 0 .. 3 : After(f, n + 1) = After(After(f, n), 1)
         /\ After(f, 0) = f
<1>1. QueueLength \in Nat /\ QueueLength >= 4
  BY QueueAssumption, TestAssumption, Zenon
<1> QED
  BY <1>1, SMTT(30), Z3T(30) DEF Slots, After

\* The elements of a round lie in different slots, one after the other.
LEMMA SlotsOfRound ==
  ASSUME TypeOK, NEW p \in Procs
  PROVE  /\ \A n \in 1 .. 5 : Slot(p, n) \in Slots
         /\ \A n, m \in 1 .. 4 : Slot(p, n) = Slot(p, m) => n = m
         /\ \A n \in 1 .. 4 : Slot(p, n + 1) = After(Slot(p, n), 1)
         /\ Slot(p, 1) = first_we[p]
<1>1. first_we[p] \in Slots
  BY Types, Zenon
<1>2. \A n \in 1 .. 5 : n - 1 \in 0 .. 4 /\ (n \in 1 .. 4 => n - 1 \in 0 .. 3 /\ n + 1 - 1 = (n - 1) + 1)
  OBVIOUS
<1>3. 1 - 1 = 0
  OBVIOUS
<1> QED
  BY <1>1, <1>2, <1>3, SlotArithmetic, SMTT(30), Z3T(30) DEF Slot

\* How many elements a process has added, by where it is.
LEMMA PostedType ==
  ASSUME TypeOK, NEW p \in Procs, Place(p)
  PROVE  /\ Posted(p) \in 0 .. 4 /\ Posted(p) <= Size /\ Size \in 1 .. 4
         /\ pc[p] \in {"operands", "command"} => Posted(p) \in 0 .. 3 /\ i[p] # 0 /\ Posted(p) = k[p] - 1
         /\ pc[p] \notin Posting => Posted(p) = IF i[p] = 0 THEN 0 ELSE Size
<1>1. k[p] \in 1 .. 4 /\ Size \in 1 .. 4
  BY Types, RoundIs, Zenon
<1>2. /\ i[p] # 0 => k[p] \in 1 .. Size /\ (pc[p] \notin Posting => k[p] = Size)
      /\ pc[p] \in {"operands", "command"} => i[p] # 0
  BY Zenon DEF Place
<1> QED
  BY <1>1, <1>2, SMTT(30), Z3T(30) DEF Posted, Posting

\* Where the AFU is.
LEMMA EngineArithmetic ==
  ASSUME NEW f \in Slots, NEW m \in 0 .. 4, NEW a \in Slots, NEW v \in {0, 1}, NEW w \in {0, 1},
         NEW d \in 0 .. m, d = a - f + (IF v = Lap(f, m, w) THEN 0 ELSE QueueLength)
  PROVE  /\ a = After(f, d)
         /\ d = m => a = After(f, m) /\ v = w
         /\ d < m => v = IF a < After(f, m) THEN w ELSE 1 - w
<1>1. QueueLength \in Nat /\ QueueLength >= 4
  BY QueueAssumption, TestAssumption, Zenon
<1> QED
  BY <1>1, SMTT(30), Z3T(30) DEF Slots, After, Lap

\* The AFU is at the slot that follows the elements it is done with, in the right lap.
LEMMA EngineAt ==
  ASSUME TypeOK, NEW p \in Procs, Place(p), Ring(p)
  PROVE  /\ Done(p) \in 0 .. 4 /\ Done(p) <= Posted(p)
         /\ engine[p].at = Slot(p, Done(p) + 1)
         /\ Done(p) = Posted(p) => engine[p].at = next[p] /\ engine[p].wrap = wrap[p]
         /\ Done(p) < Posted(p) => LapOf(p, engine[p].at) = engine[p].wrap
<1>1. /\ first_we[p] \in Slots /\ engine[p].at \in Slots /\ engine[p].wrap \in {0, 1} /\ wrap[p] \in {0, 1}
  BY Types, Zenon
<1>2. Posted(p) \in 0 .. 4 /\ Done(p) \in 0 .. Posted(p)
  BY PostedType, Zenon DEF Ring
<1>3. next[p] = After(first_we[p], Posted(p)) /\ Slot(p, Done(p) + 1) = After(first_we[p], Done(p))
  <2>1. Posted(p) + 1 - 1 = Posted(p) /\ Done(p) + 1 - 1 = Done(p)
    BY <1>2, SMTT(30), Z3T(30)
  <2>2. next[p] = Slot(p, Posted(p) + 1)
    BY Zenon DEF Ring
  <2> QED
    BY <1>2, <2>2, SMTT(30), Z3T(30) DEF Slot, After
<1>4. Done(p) = engine[p].at - first_we[p]
                  + (IF engine[p].wrap = Lap(first_we[p], Posted(p), wrap[p]) THEN 0 ELSE QueueLength)
  BY Zenon DEF Done, FirstWrap
<1>5. Done(p) \in 0 .. 4 /\ Done(p) <= Posted(p)
  BY <1>2, SMTT(30), Z3T(30)
<1> QED
  BY <1>1, <1>2, <1>3, <1>4, <1>5, EngineArithmetic, SMTT(30), Z3T(30) DEF LapOf

-------------------------------------------------------------------------------
(* What a step leaves as it is.                                             *)

\* Nothing of the process p, and no buffer of it.
Same(p) ==
  /\ queue'[p] = queue[p] /\ next'[p] = next[p] /\ wrap'[p] = wrap[p] /\ engine'[p] = engine[p]
  /\ irqs'[p] = irqs[p] /\ trouble'[p] = trouble[p] /\ dst'[p] = dst[p] /\ pc'[p] = pc[p]
  /\ k'[p] = k[p] /\ i'[p] = i[p] /\ first_we'[p] = first_we[p] /\ last_we'[p] = last_we[p]
  /\ result'[p] = result[p] /\ args' = args /\ forked' = forked
  /\ mem'[Src(p)] = mem[Src(p)] /\ mem'[NewSrc(p)] = mem[NewSrc(p)]
  /\ args.work # "atomic" => mem'[dst[p]] = mem[dst[p]]

\* A process that a step leaves alone stays as it is.
LEMMA OtherAlright ==
  ASSUME NEW p \in Procs, Alright(p), Same(p)
  PROVE  Alright(p)'
<1>1. /\ Size' = Size /\ Posted(p)' = Posted(p) /\ FirstWrap(p)' = FirstWrap(p) /\ Done(p)' = Done(p)
      /\ Round(p)' = Round(p)
  BY Zenon DEF Same, Size, Posted, FirstWrap, Done, Round, Source, Lap
<1>2. /\ \A n : Slot(p, n)' = Slot(p, n) /\ Ran(p, n)' = Ran(p, n) /\ Operands(p, n)' = Operands(p, n)
      /\ \A s : LapOf(p, s)' = LapOf(p, s)
  BY <1>1, Zenon DEF Same, Slot, Ran, LapOf, Operands, After
<1>3. Place(p)'
  BY <1>1, <1>2, Zenon DEF Same, Alright, Place
<1>4. Ring(p)' /\ Laps(p)'
  BY <1>1, <1>2, Zenon DEF Same, Alright, Ring, Laps
<1>5. RoundElements(p)'
  <2>1. ASSUME NEW n, Element(p, n) PROVE Element(p, n)'
    BY <1>1, <1>2, <2>1, Zenon DEF Same, Element
  <2> QED
    BY <1>1, <1>2, <2>1, Zenon DEF Same, Alright, RoundElements
<1>6. Fetched(p)'
  BY <1>1, <1>2, Zenon DEF Same, Alright, Fetched
<1>7. Errors(p)'
  BY <1>1, <1>2, SMTT(30), Z3T(30) DEF Same, Alright, Errors
<1>8. Interrupts(p)'
  BY <1>1, <1>2, Zenon DEF Same, Alright, Interrupts, Refused, LastStatus
<1>9. Buffers(p)' /\ Data(p)'
  BY <1>1, <1>2, Zenon DEF Same, Alright, Buffers, Data, Source
<1> QED
  BY <1>3, <1>4, <1>5, <1>6, <1>7, <1>8, <1>9, Zenon DEF Alright

\* The ring is as it was, though the AFU may have gone on within an element.
Still(p) ==
  /\ next'[p] = next[p] /\ wrap'[p] = wrap[p] /\ k'[p] = k[p] /\ i'[p] = i[p]
  /\ first_we'[p] = first_we[p] /\ args' = args /\ forked' = forked
  /\ engine'[p].at = engine[p].at /\ engine'[p].wrap = engine[p].wrap
  /\ pc'[p] \in {"operands", "command"} <=> pc[p] \in {"operands", "command"}

\* While the pointers stay, so do the places on the ring.
LEMMA StillRing ==
  ASSUME NEW p \in Procs, Still(p)
  PROVE  /\ Size' = Size /\ Posted(p)' = Posted(p) /\ FirstWrap(p)' = FirstWrap(p) /\ Done(p)' = Done(p)
         /\ \A n : Slot(p, n)' = Slot(p, n)
         /\ \A s : LapOf(p, s)' = LapOf(p, s)
<1>1. Size' = Size /\ Posted(p)' = Posted(p)
  BY Zenon DEF Still, Size, Posted
<1>2. FirstWrap(p)' = FirstWrap(p)
  BY <1>1, Zenon DEF Still, FirstWrap, Lap
<1>3. Done(p)' = Done(p)
  BY <1>2, Zenon DEF Still, Done
<1>4. /\ \A n : Slot(p, n)' = Slot(p, n)
      /\ \A s : LapOf(p, s)' = LapOf(p, s)
  BY Zenon DEF Still, Slot, LapOf, After
<1> QED
  BY <1>1, <1>2, <1>3, <1>4, Zenon

\* A round changes only in where its copies go.
LEMMA RoundStays ==
  ASSUME NEW p \in Procs, args' = args
  PROVE  /\ Round(p)' = RoundTo(p, dst'[p])
         /\ dst'[p] = dst[p] => Round(p)' = Round(p)
  BY Zenon DEF Round, RoundTo, Source

\* A step of the process outside memcpy3_add_we(): what is in the queue, and how
\* far the AFU is with it, stays as it is.
Quiet(p) ==
  /\ Still(p) /\ queue'[p] = queue[p] /\ last_we'[p] = last_we[p]
  /\ pc[p] \notin Posting /\ pc'[p] \notin Posting
  /\ engine'[p].phase = engine[p].phase /\ engine'[p].we = engine[p].we
  /\ engine'[p].outcome = engine[p].outcome /\ engine'[p].loaded = engine[p].loaded
  /\ dst'[p] = dst[p] \/ Done(p) = Posted(p)

\* A step that touches neither the queue nor the AFU keeps what is said of them.
LEMMA QuietStep ==
  ASSUME TypeOK, NEW p \in Procs, Alright(p), Quiet(p)
  PROVE  /\ Laps(p)' /\ RoundElements(p)' /\ Fetched(p)'
         /\ Posted(p)' = Posted(p) /\ Done(p)' = Done(p) /\ Size' = Size
         /\ \A n : Ran(p, n)' = Ran(p, n)
         /\ \A n : Slot(p, n)' = Slot(p, n)
         /\ LastStatus(p)' = LastStatus(p) /\ Refused(p)' = Refused(p)
<1>1. /\ Size' = Size /\ Posted(p)' = Posted(p) /\ FirstWrap(p)' = FirstWrap(p) /\ Done(p)' = Done(p)
      /\ \A n : Slot(p, n)' = Slot(p, n)
      /\ \A s : LapOf(p, s)' = LapOf(p, s)
  BY StillRing, Zenon DEF Quiet
<1>2. Laps(p)'
  BY <1>1, Zenon DEF Quiet, Still, Alright, Laps
<1>3. \A n : Ran(p, n)' = Ran(p, n)
  BY <1>1, Zenon DEF Ran, Quiet
<1>4. LastStatus(p)' = LastStatus(p) /\ Refused(p)' = Refused(p)
  BY <1>1, Zenon DEF LastStatus, Refused, Quiet, Still
<1>5. args \in memcpy_test_args /\ Posted(p) <= Size /\ Posted(p) \in 0 .. 4 /\ Size \in 1 .. 4 /\ args' = args
  BY Types, PostedType, Zenon DEF Alright, Quiet, Still
<1>6. ASSUME NEW n \in 1 .. Posted(p)
      PROVE  /\ Round(p)'[n].name = Round(p)[n].name
             /\ n > Done(p) => Operands(p, n)' = Operands(p, n)
  <2>1. n \in 1 .. Size
    BY <1>5, SMTT(30), Z3T(30)
  <2>2. Round(p)'[n].name = Round(p)[n].name
    BY <1>5, <2>1, RoundKinds, RoundStays, SMTT(30), Z3T(30)
  <2>3. n > Done(p) => dst'[p] = dst[p]
    BY <1>5, SMTT(30), Z3T(30) DEF Quiet
  <2>4. n > Done(p) => Operands(p, n)' = Operands(p, n)
    BY <1>5, <2>3, RoundStays, Zenon DEF Operands, Quiet, Still
  <2> QED
    BY <2>2, <2>4, Zenon
<1>7. RoundElements(p)'
  <2>1. ASSUME NEW n \in 1 .. Posted(p) PROVE Element(p, n)'
    <3>1. Element(p, n)
      BY Zenon DEF Alright, RoundElements
    <3> QED
      BY <1>1, <1>6, <3>1, Zenon DEF Element, Quiet, Still
  <2>2. pc'[p] # "command"
    BY Zenon DEF Quiet, Posting
  <2> QED
    BY <1>1, <2>1, <2>2, Zenon DEF RoundElements
<1>8. Fetched(p)'
  <2>1. CASE engine[p].phase = "fetch"
    BY <2>1, Zenon DEF Quiet, Fetched
  <2>2. CASE engine[p].phase # "fetch"
    <3>1. Done(p) < Posted(p) /\ Done(p) \in 0 .. 4
      BY <2>2, EngineAt, Zenon DEF Alright, Ring
    <3>2. Done(p) + 1 \in 1 .. Posted(p) /\ Done(p) + 1 > Done(p)
      BY <1>5, <3>1, SMTT(30), Z3T(30)
    <3> QED
      BY <1>1, <1>6, <3>2, Zenon DEF Fetched, Quiet, Alright
  <2> QED
    BY <2>1, <2>2, Zenon
<1> QED
  BY <1>1, <1>2, <1>3, <1>4, <1>7, <1>8, Zenon

-------------------------------------------------------------------------------
(* The steps of a process outside memcpy3_add_we().                         *)

\* The test gives up, with a reason.
LEMMA GivesUp ==
  ASSUME TypeOK, NEW p \in Procs, Alright(p), Quiet(p),
         pc[p] \notin {"close", "done"}, pc'[p] = "close", result'[p] = "fail", trouble'[p],
         engine'[p] = engine[p], dst'[p] = dst[p]
  PROVE  Alright(p)'
<1>1. /\ Laps(p)' /\ RoundElements(p)' /\ Fetched(p)'
      /\ Posted(p)' = Posted(p) /\ Done(p)' = Done(p) /\ Size' = Size
      /\ \A n : Slot(p, n)' = Slot(p, n)
  BY QuietStep, Zenon
<1>2. Place(p)'
  BY <1>1, SMTT(30), Z3T(30) DEF Alright, Place, Quiet, Still, Posting, Labels
<1>3. Ring(p)'
  BY <1>1, Zenon DEF Alright, Ring, Quiet, Still, Posting
<1>4. Errors(p)'
  <2>1. \A s \in Slots : queue[p][s].cmd.valid /\ queue[p][s].status = 0 =>
           \E n \in Done(p) + 1 .. Posted(p) : s = Slot(p, n)
    BY Zenon DEF Alright, Errors, Quiet, Posting
  <2> QED
    BY <1>1, <2>1, Zenon DEF Errors, Quiet
<1>5. Interrupts(p)' /\ Data(p)'
  BY Zenon DEF Interrupts, Data, Source
<1>6. Buffers(p)'
  BY Zenon DEF Alright, Buffers, Quiet, Still
<1> QED
  BY <1>1, <1>2, <1>3, <1>4, <1>5, <1>6, Zenon DEF Alright

\* The test goes on.
LEMMA GoesOn ==
  ASSUME TypeOK, NEW p \in Procs, Alright(p), Quiet(p), result'[p] = result[p], trouble'[p] = trouble[p],
         irqs'[p] \subseteq irqs[p], "err" \in irqs[p] => "err" \in irqs'[p],
         Place(p)', pc'[p] \in {"event", "check", "restart", "clear", "round"} => Done(p) = Posted(p),
         Interrupts(p)', Buffers(p)', Data(p)'
  PROVE  Alright(p)'
<1>1. /\ Laps(p)' /\ RoundElements(p)' /\ Fetched(p)'
      /\ Posted(p)' = Posted(p) /\ Done(p)' = Done(p) /\ Size' = Size
      /\ \A n : Slot(p, n)' = Slot(p, n)
  BY QuietStep, Zenon
<1>2. Ring(p)'
  BY <1>1, Zenon DEF Alright, Ring, Quiet, Still, Posting
<1>3. Errors(p)'
  <2>1. \A s \in Slots : queue[p][s].cmd.valid /\ queue[p][s].status = 0 =>
           \E n \in Done(p) + 1 .. Posted(p) : s = Slot(p, n)
    BY Zenon DEF Alright, Errors, Quiet, Posting
  <2>2. "err" \in irqs'[p] <=> "err" \in irqs[p]
    BY Zenon
  <2>3. /\ queue'[p] = queue[p] /\ engine'[p].phase = engine[p].phase /\ engine'[p].outcome = engine[p].outcome
    BY Zenon DEF Quiet
  <2>4. Errors(p)
    BY Zenon DEF Alright
  <2>5. /\ \A s \in Slots : queue'[p][s].status = 255 => "err" \in irqs'[p] \/ result'[p] = "fail"
        /\ engine'[p].phase = "complete" /\ engine'[p].outcome = 255 => "err" \in irqs'[p] \/ result'[p] = "fail"
    BY <2>2, <2>3, <2>4, SMTT(30), Z3T(30) DEF Errors
  <2>6. "err" \in irqs'[p] \/ result'[p] = "fail" => trouble'[p]
    BY <2>2, <2>4, Zenon DEF Errors
  <2>7. \A s \in Slots : queue'[p][s].cmd.valid /\ queue'[p][s].status = 0 =>
           \E n \in Done(p)' + 1 .. Posted(p)' : s = Slot(p, n)'
    BY <1>1, <2>1, <2>3, Zenon
  <2> QED
    BY <2>5, <2>6, <2>7, Zenon DEF Errors
<1> QED
  BY <1>1, <1>2, <1>3, Zenon DEF Alright

\* The types, one variable at a time.
LEMMA FunctionTypes ==
  ASSUME IInv
  PROVE  /\ TypeOK /\ \A p \in Procs : Alright(p)
         /\ pc \in [Procs -> Labels] /\ result \in [Procs -> {"none", "pass", "fail"}]
         /\ trouble \in [Procs -> BOOLEAN] /\ irqs \in [Procs -> SUBSET Irqs]
         /\ queue \in [Procs -> [Slots -> Elements]] /\ next \in [Procs -> Slots]
         /\ wrap \in [Procs -> {0, 1}] /\ dst \in [Procs -> Addresses]
         /\ k \in [Procs -> 1 .. 4] /\ i \in [Procs -> 0 .. args.loop_count]
         /\ first_we \in [Procs -> Slots] /\ last_we \in [Procs -> Slots]
         /\ mem \in [Addresses -> Nat]
         /\ engine \in [Procs -> [enabled : BOOLEAN, stopped : BOOLEAN, at : Slots, wrap : {0, 1},
                           phase : {"fetch", "execute", "store", "complete"}, we : Elements,
                           outcome : Statuses, loaded : Nat]]
  BY Zenon DEF IInv, TypeOK, QueueTypeOK

\* A call that fails or times out keeps its process alright.
LEMMA HostFailsStep ==
  ASSUME IInv, NEW p \in Procs, HostFails(p)
  PROVE  Alright(p)'
<1>1. /\ pc[p] \in {"setup", "irq", "event", "status", "restart", "clear", "round"}
      /\ trouble' = [trouble EXCEPT ![p] = TRUE] /\ Return(p, "fail")
      /\ UNCHANGED <<queueVars, afuVars, argVars, k, i, first_we, last_we>>
  BY Zenon DEF HostFails, SetupFails, WaitFails, restart_afu_fails, ReallocateFails, FinishFails, At
<1>2. pc'[p] = "close" /\ result'[p] = "fail" /\ trouble'[p]
  BY <1>1, FunctionTypes, Zenon DEF Return, Goto
<1>3. Quiet(p)
  BY <1>1, <1>2, Zenon DEF Quiet, Still, Posting, queueVars, afuVars, argVars
<1> QED
  BY <1>1, <1>2, <1>3, FunctionTypes, GivesUp, Zenon DEF afuVars, argVars

\* Taking an interrupt that is not the completion of the AFU: there was an error.
LEMMA OtherInterrupt ==
  ASSUME IInv, NEW p \in Procs, NEW irq \in irqs[p], irq # "afu"
  PROVE  irq = "err" /\ trouble[p]
<1>1. irqs[p] \subseteq {"afu", "err"}
  BY FunctionTypes, Zenon DEF Irqs
<1>2. "err" \in irqs[p] => trouble[p]
  BY FunctionTypes, Zenon DEF Alright, Errors
<1> QED
  BY <1>1, <1>2, Zenon

\* What the waits have in common: the step of an interrupt.
LEMMA TakesInterrupt ==
  ASSUME IInv, NEW p \in Procs, NEW irq \in irqs[p],
         pc[p] \in {"irq", "event", "round"},
         irqs' = [irqs EXCEPT ![p] = @ \ {irq}],
         UNCHANGED <<queueVars, engine, mem, trouble, argVars, k, i, first_we, last_we>>
  PROVE  /\ irq # "afu" /\ Return(p, "fail") => Alright(p)'
         /\ \A l \in {"status", "check"} : Goto(p, l) => Quiet(p) /\ pc'[p] = l
         /\ irq = "afu" => irqs'[p] \subseteq irqs[p] /\ ("err" \in irqs[p] => "err" \in irqs'[p])
                           /\ "afu" \notin irqs'[p]
<1>1. ASSUME irq # "afu", Return(p, "fail")
      PROVE  Alright(p)'
  <2>1. pc'[p] = "close" /\ result'[p] = "fail" /\ trouble'[p]
    BY <1>1, FunctionTypes, OtherInterrupt, Zenon DEF Return, Goto
  <2>2. Quiet(p)
    BY <2>1, Zenon DEF Quiet, Still, Posting, queueVars, argVars
  <2> QED
    BY <2>1, <2>2, FunctionTypes, GivesUp, Zenon DEF argVars
<1>2. ASSUME NEW l \in {"status", "check"}, Goto(p, l)
      PROVE  Quiet(p) /\ pc'[p] = l
  <2>1. pc'[p] = l
    BY <1>2, FunctionTypes, Zenon DEF Goto
  <2> QED
    BY <1>2, <2>1, Zenon DEF Quiet, Still, Posting, queueVars, argVars
<1>3. irqs'[p] = irqs[p] \ {irq}
  BY FunctionTypes, Zenon
<1> QED
  BY <1>1, <1>2, <1>3, Zenon

\* The wait for the interrupt keeps its process alright.
LEMMA WaitForIrqStep ==
  ASSUME IInv, NEW p \in Procs, wait_for_irq(p)
  PROVE  Alright(p)'
<1>1. PICK irq \in irqs[p] :
        /\ irqs' = [irqs EXCEPT ![p] = @ \ {irq}]
        /\ \/ irq = "afu" /\ Goto(p, "status") /\ UNCHANGED result
           \/ irq # "afu" /\ Return(p, "fail")
  BY Zenon DEF wait_for_irq
<1>2. /\ pc[p] = "irq"
      /\ UNCHANGED <<queueVars, engine, mem, trouble, argVars, k, i, first_we, last_we>>
  BY Zenon DEF wait_for_irq, At
<1>3. CASE irq # "afu"
  BY <1>1, <1>2, <1>3, TakesInterrupt, Zenon
<1>4. CASE irq = "afu"
  <2>1. /\ Quiet(p) /\ pc'[p] = "status" /\ irqs'[p] \subseteq irqs[p]
        /\ "err" \in irqs[p] => "err" \in irqs'[p]
        /\ "afu" \notin irqs'[p] /\ result'[p] = result[p]
    BY <1>1, <1>2, <1>4, TakesInterrupt, Zenon
  <2>2. Alright(p) /\ TypeOK
    BY FunctionTypes, Zenon
  <2>3. \A n : Ran(p, n)' = Ran(p, n) /\ Slot(p, n)' = Slot(p, n)
    BY <2>1, <2>2, QuietStep, Zenon
  <2>4. Size' = Size
    BY <2>1, <2>2, QuietStep, Zenon
  <2>5. Place(p)'
    BY <1>2, <2>1, <2>2, <2>3, <2>4, Zenon DEF Alright, Place, Quiet, Still, Posting, Labels, argVars
  <2>6. Interrupts(p)'
    BY <1>2, <1>4, <2>1, <2>2, <2>3, <2>4, Zenon DEF Alright, Interrupts, argVars
  <2>7. Buffers(p)' /\ Data(p)'
    BY <1>2, <2>1, <2>2, <2>3, Zenon DEF Alright, Buffers, Data, Source, Waiting, argVars
  <2> QED
    BY <1>2, <2>1, <2>2, <2>5, <2>6, <2>7, GoesOn, Zenon
<1> QED
  BY <1>3, <1>4, Zenon

\* The last element has a status: the AFU is through with the round.
LEMMA LastIsDone ==
  ASSUME IInv, NEW p \in Procs, pc[p] \notin Posting, i[p] # 0, LastStatus(p) # 0
  PROVE  Done(p) = Posted(p) /\ Posted(p) = Size
<1>1. TypeOK /\ Alright(p)
  BY FunctionTypes, Zenon
<1>2. Posted(p) = Size /\ Size \in 1 .. 4 /\ Done(p) \in 0 .. Posted(p) /\ last_we[p] = Slot(p, Size)
  BY <1>1, PostedType, Zenon DEF Alright, Place, Ring, Posting
<1>3. Element(p, Size)
  BY <1>1, <1>2, SMTT(30), Z3T(30) DEF Alright, RoundElements
<1>4. Size > Done(p) => LastStatus(p) = 0
  BY <1>2, <1>3, Zenon DEF Element, LastStatus
<1> QED
  BY <1>2, <1>4, SMTT(30), Z3T(30)

\* The wait for the status keeps its process alright.
LEMMA WaitForStatusStep ==
  ASSUME IInv, NEW p \in Procs, wait_for_status(p)
  PROVE  Alright(p)'
<1>1. /\ pc[p] = "status" /\ LastStatus(p) # 0
      /\ Goto(p, IF args.completion = "wake" /\ LastStatus(p) # 1 THEN "event" ELSE "check")
      /\ UNCHANGED <<queueVars, afuVars, trouble, argVars, k, i, first_we, last_we, result>>
  BY Zenon DEF wait_for_status, At
<1>2. pc'[p] = IF args.completion = "wake" /\ LastStatus(p) # 1 THEN "event" ELSE "check"
  BY <1>1, FunctionTypes, Zenon DEF Goto
<1>3. Quiet(p)
  BY <1>1, <1>2, Zenon DEF Quiet, Still, Posting, queueVars, afuVars, argVars
<1>4. TypeOK /\ Alright(p)
  BY FunctionTypes, Zenon
<1>5. Done(p) = Posted(p) /\ Posted(p) = Size /\ Size \in 1 .. 4
  BY <1>1, <1>4, LastIsDone, PostedType, Zenon DEF Alright, Place, Posting
<1>6. Size' = Size /\ Refused(p)' = Refused(p) /\ \A n : Slot(p, n)' = Slot(p, n) /\ Ran(p, n)' = Ran(p, n)
  BY <1>3, <1>4, QuietStep, Zenon
<1>7. Place(p)'
  BY <1>1, <1>2, <1>4, <1>6, Zenon DEF Alright, Place, Posting, Labels, afuVars, argVars
<1>8. Interrupts(p)'
  <2>1. ~trouble[p] /\ "afu" \in irqs[p] => args.completion = "wake" /\ LastStatus(p) = 17 /\ Refused(p)
    BY <1>1, <1>4, <1>5, SMTT(30), Z3T(30) DEF Alright, Interrupts, Refused
  <2> QED
    BY <1>1, <1>2, <1>6, <2>1, SMTT(30), Z3T(30) DEF Interrupts, afuVars, argVars
<1>9. Buffers(p)' /\ Data(p)'
  BY <1>1, <1>2, <1>4, <1>6, Zenon DEF Alright, Buffers, Data, Source, Waiting, afuVars, argVars
<1> QED
  BY <1>1, <1>2, <1>3, <1>4, <1>5, <1>7, <1>8, <1>9, GoesOn, Zenon DEF afuVars

\* The wait for the thread to be woken keeps its process alright.
LEMMA WaitFastStep ==
  ASSUME IInv, NEW p \in Procs, wait_fast(p)
  PROVE  Alright(p)'
<1>1. PICK irq \in irqs[p] :
        /\ irqs' = [irqs EXCEPT ![p] = @ \ {irq}]
        /\ \/ irq = "afu" /\ Goto(p, "check") /\ UNCHANGED result
           \/ irq # "afu" /\ Return(p, "fail")
  BY Zenon DEF wait_fast
<1>2. /\ pc[p] = "event"
      /\ UNCHANGED <<queueVars, engine, mem, trouble, argVars, k, i, first_we, last_we>>
  BY Zenon DEF wait_fast, At
<1>3. CASE irq # "afu"
  BY <1>1, <1>2, <1>3, TakesInterrupt, Zenon
<1>4. CASE irq = "afu"
  <2>1. /\ Quiet(p) /\ pc'[p] = "check" /\ irqs'[p] \subseteq irqs[p]
        /\ "err" \in irqs[p] => "err" \in irqs'[p]
        /\ "afu" \notin irqs'[p] /\ result'[p] = result[p]
    BY <1>1, <1>2, <1>4, TakesInterrupt, Zenon
  <2>2. Alright(p) /\ TypeOK
    BY FunctionTypes, Zenon
  <2>3. Size' = Size /\ \A n : Ran(p, n)' = Ran(p, n) /\ Slot(p, n)' = Slot(p, n)
    BY <2>1, <2>2, QuietStep, Zenon
  <2>4. Done(p) = Posted(p)
    BY <1>2, <2>2, Zenon DEF Alright, Ring
  <2>5. Place(p)'
    BY <1>2, <2>1, <2>2, <2>3, Zenon DEF Alright, Place, Quiet, Still, Posting, Labels, argVars
  <2>6. Interrupts(p)'
    BY <2>1, Zenon DEF Interrupts
  <2>7. Buffers(p)' /\ Data(p)'
    BY <1>2, <2>1, <2>2, <2>3, Zenon DEF Alright, Buffers, Data, Source, Waiting, argVars
  <2> QED
    BY <1>2, <2>1, <2>2, <2>4, <2>5, <2>6, <2>7, GoesOn, Zenon
<1> QED
  BY <1>3, <1>4, Zenon

\* A check fails only after an error of the AFU.
LEMMA ChecksAreGood ==
  ASSUME IInv, NEW p \in Procs, pc[p] = "check", ~trouble[p]
  PROVE  StatusesAreGood(p) /\ DataIsGood(p)
<1>1. TypeOK /\ Alright(p)
  BY FunctionTypes, Zenon
<1>2. /\ Done(p) = Size /\ Posted(p) = Size /\ Size \in 1 .. 4 /\ i[p] # 0
      /\ last_we[p] = Slot(p, Size)
  BY <1>1, PostedType, Zenon DEF Alright, Place, Ring, Posting
<1>3. /\ args.completion \in {"poll", "irq", "wake"} /\ args.work \in {"atomic", "copy", "increment"}
      /\ args.completion # "poll" => Size # 1
  <2>1. args.completion \in {"poll", "irq", "wake"} /\ args.work \in {"atomic", "copy", "increment"}
    BY <1>1, Types, RoundIs, Zenon
  <2> QED
    BY <2>1, SMTT(30), Z3T(30) DEF Size
<1>4. ASSUME NEW n \in 1 .. Size
      PROVE  /\ queue[p][Slot(p, n)].status \in {1, 17}
             /\ queue[p][Slot(p, n)].status = 17 => args.completion = "wake" /\ n = Size
  <2>1. Element(p, n)
    BY <1>1, <1>2, Zenon DEF Alright, RoundElements
  <2>2. Slot(p, n) \in Slots
    BY <1>1, <1>2, SlotsOfRound, SMTT(30), Z3T(30)
  <2>3. queue[p][Slot(p, n)].status \in {0, 1, 17, 255}
    <3>1. queue[p][Slot(p, n)] \in Elements
      BY <2>2, FunctionTypes, SMTT(30), Z3T(30)
    <3> QED
      BY <3>1, ElementTypes, Zenon DEF Statuses
  <2>4. queue[p][Slot(p, n)].status # 255
    <3>1. Errors(p)
      BY <1>1, Zenon DEF Alright
    <3> QED
      BY <2>2, <3>1, SMTT(30), Z3T(30) DEF Errors
  <2> QED
    BY <1>2, <2>1, <2>3, <2>4, SMTT(30), Z3T(30) DEF Element
<1>5. queue[p][first_we[p]].status = 1
  <2>1. 1 \in 1 .. Size /\ Slot(p, 1) = first_we[p]
    BY <1>1, <1>2, SlotsOfRound, SMTT(30), Z3T(30)
  <2> QED
    BY <1>3, <1>4, <2>1, Zenon
<1>6. LastStatus(p) \in {1, 17} /\ (LastStatus(p) = 17 => args.completion = "wake")
  <2>1. Size \in 1 .. Size
    BY <1>2, SMTT(30), Z3T(30)
  <2> QED
    BY <1>2, <1>4, <2>1, Zenon DEF LastStatus
<1>7. DataIsGood(p)
  <2>1. Ran(p, 1) /\ pc[p] \in Waiting
    BY <1>2, SMTT(30), Z3T(30) DEF Ran, Waiting
  <2> QED
    BY <1>1, <1>3, <2>1, Zenon DEF Alright, Data, Source, DataIsGood
<1> QED
  BY <1>3, <1>5, <1>6, <1>7, Zenon DEF StatusesAreGood

\* The comparison after a round keeps its process alright.
LEMMA CheckStep ==
  ASSUME IInv, NEW p \in Procs, Check(p)
  PROVE  Alright(p)'
<1>1. /\ pc[p] = "check"
      /\ UNCHANGED <<queueVars, afuVars, trouble, argVars, k, i, first_we, last_we>>
  BY Zenon DEF Check, At
<1>2. TypeOK /\ Alright(p)
  BY FunctionTypes, Zenon
<1>3. CASE StatusesAreGood(p) /\ DataIsGood(p)
  <2>1. Goto(p, IF args.completion = "poll" THEN "clear" ELSE "restart") /\ UNCHANGED result
    BY <1>3, Zenon DEF Check
  <2>2. pc'[p] \in {"clear", "restart"}
    BY <2>1, FunctionTypes, Zenon DEF Goto
  <2>3. Quiet(p)
    BY <1>1, <2>2, Zenon DEF Quiet, Still, Posting, queueVars, afuVars, argVars
  <2>4. Size' = Size /\ \A n : Slot(p, n)' = Slot(p, n)
    BY <1>2, <2>3, QuietStep, Zenon
  <2>5. Place(p)'
    BY <1>1, <1>2, <2>1, <2>2, <2>4, Zenon DEF Alright, Place, Posting, Labels, afuVars, argVars
  <2>6. Interrupts(p)'
    BY <1>1, <1>2, <2>2, Zenon DEF Alright, Interrupts, afuVars
  <2>7. Done(p) = Posted(p) /\ engine[p].phase = "fetch"
    BY <1>1, <1>2, EngineAt, SMTT(30), Z3T(30) DEF Alright, Ring
  <2>8. Buffers(p)' /\ Data(p)'
    BY <1>1, <1>2, <2>2, <2>7, Zenon DEF Alright, Buffers, Data, Source, Waiting, afuVars, argVars
  <2> QED
    BY <1>1, <1>2, <2>1, <2>2, <2>3, <2>5, <2>6, <2>7, <2>8, GoesOn, Zenon DEF afuVars
<1>4. CASE ~(StatusesAreGood(p) /\ DataIsGood(p))
  <2>1. Return(p, "fail") /\ trouble[p]
    BY <1>1, <1>4, ChecksAreGood, Zenon DEF Check
  <2>2. pc'[p] = "close" /\ result'[p] = "fail" /\ trouble'[p]
    BY <1>1, <2>1, FunctionTypes, Zenon DEF Return, Goto
  <2>3. Quiet(p)
    BY <1>1, <2>2, Zenon DEF Quiet, Still, Posting, queueVars, afuVars, argVars
  <2> QED
    BY <1>1, <1>2, <2>2, <2>3, GivesUp, Zenon DEF afuVars, argVars
<1> QED
  BY <1>3, <1>4, Zenon

\* The steps between two rounds, at which the AFU has nothing to do.
LEMMA BetweenRounds ==
  ASSUME IInv, NEW p \in Procs, pc[p] \in {"setup", "restart", "clear"},
         NEW l \in {"clear", "round"}, Goto(p, l), pc[p] = "setup" => l = "round",
         UNCHANGED <<queueVars, irqs, trouble, args, forked, k, i, first_we, last_we, result>>,
         engine'[p].at = engine[p].at, engine'[p].wrap = engine[p].wrap,
         engine'[p].phase = engine[p].phase, engine'[p].we = engine[p].we,
         engine'[p].outcome = engine[p].outcome, engine'[p].loaded = engine[p].loaded,
         Buffers(p)', args.work = "atomic" /\ ~trouble[p] => mem'[Src(p)] = 0
  PROVE  Alright(p)'
<1>1. pc'[p] = l
  BY FunctionTypes, Zenon DEF Goto
<1>2. TypeOK /\ Alright(p)
  BY FunctionTypes, Zenon
<1>3. Done(p) = Posted(p) /\ engine[p].phase = "fetch"
  <2>1. CASE pc[p] = "setup"
    <3>1. Posted(p) = 0
      BY <1>2, <2>1, Zenon DEF Alright, Place, Posted
    <3> QED
      BY <1>2, <3>1, SMTT(30), Z3T(30) DEF Alright, Ring
  <2>2. CASE pc[p] # "setup"
    BY <1>2, <2>2, EngineAt, SMTT(30), Z3T(30) DEF Alright, Ring
  <2> QED
    BY <2>1, <2>2, Zenon
<1>4. Quiet(p)
  BY <1>1, <1>3, Zenon DEF Quiet, Still, Posting, queueVars
<1>5. Size' = Size /\ \A n : Slot(p, n)' = Slot(p, n)
  BY <1>2, <1>4, QuietStep, Zenon
<1>6. Place(p)'
  BY <1>1, <1>2, <1>5, Zenon DEF Alright, Place, Posting, Labels
<1>7. Interrupts(p)'
  BY <1>1, <1>2, Zenon DEF Alright, Interrupts
<1>8. Data(p)'
  BY <1>1, <1>2, <1>3, Zenon DEF Data, Source, Waiting
<1> QED
  BY <1>1, <1>2, <1>3, <1>4, <1>6, <1>7, <1>8, GoesOn, Zenon

\* Opening the AFU and starting it keeps its process alright.
LEMMA SetupStep ==
  ASSUME IInv, NEW p \in Procs, Setup(p)
  PROVE  Alright(p)'
<1>1. /\ pc[p] = "setup" /\ Goto(p, "round")
      /\ engine' = [engine EXCEPT ![p].enabled = TRUE]
      /\ UNCHANGED <<queueVars, irqs, trouble, argVars, k, i, first_we, last_we, result>>
  BY Zenon DEF Setup, At, Enable
<1>2. /\ engine'[p].at = engine[p].at /\ engine'[p].wrap = engine[p].wrap
      /\ engine'[p].phase = engine[p].phase /\ engine'[p].we = engine[p].we
      /\ engine'[p].outcome = engine[p].outcome /\ engine'[p].loaded = engine[p].loaded
  BY <1>1, FunctionTypes, SMTT(30), Z3T(30)
<1>3. args.work = "atomic" => mem'[Src(p)] = 0
  <2>1. Src(p) \in Addresses
    BY Zenon DEF Addresses
  <2>2. mem' = [mem EXCEPT ![Src(p)] = IF args.work = "atomic" THEN 0
                                    ELSE IF args.work = "increment" THEN pid - 1 ELSE pid]
    BY Zenon DEF Setup
  <2> QED
    BY <2>1, <2>2, FunctionTypes, Zenon
<1>4. Buffers(p)'
  BY <1>1, FunctionTypes, Zenon DEF Alright, Buffers, argVars
<1> QED
  BY <1>1, <1>2, <1>3, <1>4, BetweenRounds, Zenon DEF argVars

\* restart_afu() keeps its process alright.
LEMMA RestartStep ==
  ASSUME IInv, NEW p \in Procs, restart_afu(p)
  PROVE  Alright(p)'
<1>1. /\ pc[p] = "restart" /\ Goto(p, "clear")
      /\ engine' = IF engine[p].stopped THEN [engine EXCEPT ![p].stopped = FALSE] ELSE engine
      /\ UNCHANGED <<queueVars, irqs, mem, trouble, argVars, k, i, first_we, last_we, result>>
  BY Zenon DEF restart_afu, At
<1>2. /\ engine'[p].at = engine[p].at /\ engine'[p].wrap = engine[p].wrap
      /\ engine'[p].phase = engine[p].phase /\ engine'[p].we = engine[p].we
      /\ engine'[p].outcome = engine[p].outcome /\ engine'[p].loaded = engine[p].loaded
  BY <1>1, FunctionTypes, Zenon
<1>3. args.work = "atomic" /\ ~trouble[p] => mem'[Src(p)] = 0
  BY <1>1, FunctionTypes, Zenon DEF Alright, Data, Source
<1>4. Buffers(p)'
  BY <1>1, FunctionTypes, Zenon DEF Alright, Buffers, argVars
<1> QED
  BY <1>1, <1>2, <1>3, <1>4, BetweenRounds, Zenon DEF argVars

\* Clearing the destination keeps its process alright.
LEMMA ClearStep ==
  ASSUME IInv, NEW p \in Procs, ClearDestination(p)
  PROVE  Alright(p)'
<1>1. /\ pc[p] = "clear" /\ Goto(p, "round")
      /\ mem' = IF args.work = "atomic" THEN mem ELSE [mem EXCEPT ![dst[p]] = 0]
      /\ UNCHANGED <<queueVars, engine, irqs, trouble, argVars, k, i, first_we, last_we, result>>
  BY Zenon DEF ClearDestination, At
<1>2. args.work = "atomic" /\ ~trouble[p] => mem'[Src(p)] = 0
  BY <1>1, FunctionTypes, Zenon DEF Alright, Data, Source
<1>3. Buffers(p)'
  BY <1>1, FunctionTypes, Zenon DEF Alright, Buffers, argVars
<1> QED
  BY <1>1, <1>2, <1>3, BetweenRounds, Zenon DEF argVars

\* Moving to a new destination keeps its process alright.
LEMMA ReallocateStep ==
  ASSUME IInv, NEW p \in Procs, Reallocate(p)
  PROVE  Alright(p)'
<1>1. /\ pc[p] = "clear" /\ Goto(p, "round") /\ args.reallocate
      /\ UNCHANGED <<queueVars, engine, irqs, trouble, args, forked, k, i, first_we, last_we, result>>
  BY Zenon DEF Reallocate, At
<1>2. args.work = "copy"
  BY <1>1, FunctionTypes, Zenon DEF TypeOK, memcpy_test_args
<1>3. PICK d \in {Dst(p), NewDst(p)} : dst' = [dst EXCEPT ![p] = d]
  BY Zenon DEF Reallocate
<1>4. Buffers(p)'
  BY <1>1, <1>2, <1>3, FunctionTypes, Zenon DEF Buffers
<1> QED
  BY <1>1, <1>2, <1>4, BetweenRounds, Zenon

\* Closing the AFU keeps its process alright.
LEMMA CloseStep ==
  ASSUME IInv, NEW p \in Procs, Close(p)
  PROVE  Alright(p)'
<1>1. /\ pc[p] = "close" /\ Goto(p, "done")
      /\ engine' = [engine EXCEPT ![p].enabled = FALSE]
      /\ UNCHANGED <<queueVars, irqs, mem, trouble, argVars, k, i, first_we, last_we, result>>
  BY Zenon DEF Close, At, Disable
<1>2. /\ engine'[p].at = engine[p].at /\ engine'[p].wrap = engine[p].wrap
      /\ engine'[p].phase = engine[p].phase /\ engine'[p].we = engine[p].we
      /\ engine'[p].outcome = engine[p].outcome /\ engine'[p].loaded = engine[p].loaded
      /\ ~engine'[p].enabled /\ pc'[p] = "done"
  BY <1>1, FunctionTypes, SMTT(30), Z3T(30) DEF Goto
<1>3. TypeOK /\ Alright(p)
  BY FunctionTypes, Zenon
<1>4. Quiet(p)
  BY <1>1, <1>2, Zenon DEF Quiet, Still, Posting, queueVars, argVars
<1>5. Size' = Size /\ \A n : Slot(p, n)' = Slot(p, n)
  BY <1>3, <1>4, QuietStep, Zenon
<1>6. Place(p)'
  BY <1>1, <1>2, <1>3, <1>5, Zenon DEF Alright, Place, Posting, Labels, argVars
<1>7. Interrupts(p)'
  BY <1>1, <1>2, <1>3, Zenon DEF Alright, Interrupts
<1>8. Data(p)' /\ Buffers(p)'
  BY <1>1, <1>2, <1>3, Zenon DEF Alright, Data, Source, Buffers, Waiting, argVars
<1> QED
  BY <1>1, <1>2, <1>3, <1>4, <1>6, <1>7, <1>8, GoesOn, Zenon

\* The end of the last round keeps its process alright.
LEMMA FinishStep ==
  ASSUME IInv, NEW p \in Procs, Finish(p)
  PROVE  Alright(p)'
<1>1. /\ pc[p] = "round" /\ i[p] = args.loop_count
      /\ UNCHANGED <<queueVars, engine, mem, trouble, argVars, k, i, first_we, last_we>>
  BY Zenon DEF Finish, At
<1>2. TypeOK /\ Alright(p)
  BY FunctionTypes, Zenon
<1>3. CASE \E irq \in irqs[p] : Return(p, "fail") /\ irqs' = [irqs EXCEPT ![p] = @ \ {irq}]
  <2>1. PICK irq \in irqs[p] : Return(p, "fail") /\ irqs' = [irqs EXCEPT ![p] = @ \ {irq}]
    BY <1>3, Zenon
  <2>2. CASE irq # "afu"
    BY <1>1, <2>1, <2>2, TakesInterrupt, Zenon
  <2>3. CASE irq = "afu"
    <3>1. trouble[p]
      BY <1>1, <1>2, <2>3, Zenon DEF Alright, Interrupts
    <3>2. pc'[p] = "close" /\ result'[p] = "fail" /\ trouble'[p]
      BY <1>1, <2>1, <3>1, FunctionTypes, Zenon DEF Return, Goto
    <3>3. Quiet(p)
      BY <1>1, <3>2, Zenon DEF Quiet, Still, Posting, queueVars, argVars
    <3> QED
      BY <1>1, <1>2, <3>2, <3>3, GivesUp, Zenon DEF argVars
  <2> QED
    BY <2>2, <2>3, Zenon
<1>4. CASE irqs[p] = {} /\ Return(p, "pass") /\ UNCHANGED irqs
  <2>1. pc'[p] = "close" /\ result'[p] = "pass"
    BY <1>4, FunctionTypes, Zenon DEF Return, Goto
  <2>2. Quiet(p)
    BY <1>1, <2>1, Zenon DEF Quiet, Still, Posting, queueVars, argVars
  <2>3. /\ Laps(p)' /\ RoundElements(p)' /\ Fetched(p)'
        /\ Posted(p)' = Posted(p) /\ Done(p)' = Done(p) /\ Size' = Size
        /\ \A n : Slot(p, n)' = Slot(p, n)
    BY <1>2, <2>2, QuietStep, ZenonT(30)
  <2>4. Done(p) = Posted(p) /\ engine[p].phase = "fetch" /\ Posted(p) \in Nat /\ result[p] = "none"
    BY <1>1, <1>2, EngineAt, PostedType, SMTT(30), Z3T(30) DEF Alright, Ring, Place
  <2>5. Place(p)'
    BY <1>1, <1>2, <2>1, <2>3, Zenon DEF Alright, Place, Posting, Labels, argVars
  <2>6. Ring(p)'
    BY <1>2, <2>2, <2>3, <2>4, Zenon DEF Alright, Ring, Quiet, Still, Posting
  <2>7. Errors(p)'
    <3>1. \A s \in Slots : queue[p][s].status # 255
      BY <1>2, <1>4, <2>4, Zenon DEF Alright, Errors
    <3>2. \A s \in Slots : ~(queue[p][s].cmd.valid /\ queue[p][s].status = 0)
      BY <1>1, <1>2, <2>4, SMTT(30), Z3T(30) DEF Alright, Errors
    <3> QED
      BY <1>1, <1>4, <2>1, <2>4, <3>1, <3>2, Zenon DEF Errors, queueVars
  <2>8. Interrupts(p)' /\ Data(p)' /\ Buffers(p)'
    BY <1>1, <1>2, <1>4, <2>1, <2>4, Zenon DEF Alright, Interrupts, Data, Source, Buffers, Waiting, argVars
  <2> QED
    BY <2>3, <2>5, <2>6, <2>7, <2>8, Zenon DEF Alright
<1> QED
  BY <1>3, <1>4, Zenon DEF Finish

-------------------------------------------------------------------------------
(* The steps of memcpy3_add_we().                                           *)

\* While a round is posted the AFU waits for its first element.
LEMMA AfuWaits ==
  ASSUME IInv, NEW p \in Procs, pc[p] \in Posting
  PROVE  /\ TypeOK /\ Alright(p) /\ i[p] # 0 /\ i[p] \in Nat
         /\ Done(p) = 0 /\ engine[p].phase = "fetch" /\ result[p] = "none" /\ p \in forked
         /\ ~trouble[p] => "afu" \notin irqs[p]
         /\ Posted(p) \in 0 .. 4 /\ Posted(p) <= Size /\ Size \in 1 .. 4
<1>1. TypeOK /\ Alright(p) /\ i[p] \in Nat
  BY FunctionTypes, Types, Zenon
<1>2. Posted(p) \in 0 .. 4 /\ Posted(p) <= Size /\ Size \in 1 .. 4
  BY <1>1, PostedType, Zenon DEF Alright
<1> QED
  BY <1>1, <1>2, Zenon DEF Alright, Place, Ring, Interrupts, Posting

\* What the steps that post a round leave alone.
LEMMA PostingRest ==
  ASSUME IInv, NEW p \in Procs, pc[p] \in {"round"} \cup Posting, engine[p].phase = "fetch",
         UNCHANGED <<engine, irqs, trouble, argVars>>, Done(p)' = 0,
         pc'[p] \in Posting \cup {IF args.completion = "irq" THEN "irq" ELSE "status"},
         args.work = "atomic" => mem' = mem
  PROVE  Fetched(p)' /\ Interrupts(p)' /\ Buffers(p)' /\ Data(p)'
<1>1. Alright(p) /\ TypeOK
  BY FunctionTypes, Zenon
<1>2. Fetched(p)'
  BY Zenon DEF Fetched
<1>3. Interrupts(p)'
  <2>1. ~trouble[p] => "afu" \notin irqs[p]
    BY <1>1, Zenon DEF Alright, Interrupts, Posting
  <2>2. args.completion = "irq" => pc'[p] # "status"
    BY Zenon DEF Posting
  <2> QED
    BY <2>1, <2>2, Zenon DEF Interrupts, argVars
<1>4. Buffers(p)'
  BY <1>1, Zenon DEF Alright, Buffers, argVars
<1>5. Data(p)'
  <2>1. ~Ran(p, 1)'
    BY SMTT(30), Z3T(30) DEF Ran
  <2> QED
    BY <1>1, <2>1, Zenon DEF Alright, Data, Source, argVars
<1> QED
  BY <1>2, <1>3, <1>4, <1>5, Zenon

\* The start of a round keeps its process alright.
LEMMA StartRoundStep ==
  ASSUME IInv, NEW p \in Procs, StartRound(p)
  PROVE  Alright(p)'
<1>1. /\ pc[p] = "round" /\ i' = [i EXCEPT ![p] = @ + 1] /\ k' = [k EXCEPT ![p] = 1]
      /\ first_we' = [first_we EXCEPT ![p] = next[p]] /\ Goto(p, "operands")
      /\ mem' = IF args.work = "increment" THEN [mem EXCEPT ![Src(p)] = @ + 1] ELSE mem
      /\ UNCHANGED <<queueVars, engine, irqs, trouble, argVars, last_we, result>>
  BY Zenon DEF StartRound, At
<1>2. Alright(p) /\ TypeOK /\ i[p] \in Nat /\ next[p] \in Slots /\ wrap[p] \in {0, 1}
  BY FunctionTypes, Types, Zenon
<1>3. i'[p] = i[p] + 1 /\ k'[p] = 1 /\ first_we'[p] = next[p] /\ pc'[p] = "operands" /\ i'[p] # 0
  BY <1>1, <1>2, FunctionTypes, SMTT(30), Z3T(30) DEF Goto
<1>4. Done(p) = Posted(p) /\ engine[p].phase = "fetch" /\ engine[p].at = next[p] /\ engine[p].wrap = wrap[p]
  BY <1>1, <1>2, EngineAt, SMTT(30), Z3T(30) DEF Alright, Ring
<1>5. Posted(p)' = 0 /\ Size' = Size
  BY <1>1, <1>3, SMTT(30), Z3T(30) DEF Posted, Size, argVars
<1>6. FirstWrap(p)' = wrap[p] /\ Slot(p, 1)' = next[p] /\ Done(p)' = 0
  <2>1. Lap(next[p], 0, wrap[p]) = wrap[p] /\ After(next[p], 1 - 1) = next[p] /\ next[p] - next[p] + 0 = 0
    BY <1>2, QueueAssumption, SMTT(30), Z3T(30) DEF Lap, After, Slots
  <2>2. FirstWrap(p)' = wrap[p]
    BY <1>1, <1>3, <1>5, <2>1, Zenon DEF FirstWrap, queueVars
  <2>3. Slot(p, 1)' = next[p]
    BY <1>3, <2>1, Zenon DEF Slot
  <2> QED
    BY <1>1, <1>3, <1>4, <2>1, <2>2, <2>3, Zenon DEF Done
<1>7. Size \in 1 .. 4 /\ p \in forked /\ result[p] = "none"
  BY <1>1, <1>2, PostedType, ZenonT(30) DEF Alright, Place
<1>8. Place(p)'
  BY <1>1, <1>2, <1>3, <1>5, <1>7, SMTT(30), Z3T(30) DEF Alright, Place, Posting, Labels, argVars
<1>9. Ring(p)'
  <2>1. 0 \in 0 .. 0 /\ 0 + 1 = 1
    OBVIOUS
  <2> QED
    BY <1>1, <1>3, <1>4, <1>5, <1>6, <1>7, <2>1, Zenon DEF Ring, queueVars
<1>10. Laps(p)' /\ RoundElements(p)'
  <2>1. Laps(p)'
    BY <1>1, <1>2, ZenonT(30) DEF Alright, Laps, LapOf, queueVars
  <2> QED
    BY <1>3, <1>5, <2>1, SMTT(30), Z3T(30) DEF RoundElements
<1>11. Errors(p)'
  <2>1. \A s \in Slots : ~(queue[p][s].cmd.valid /\ queue[p][s].status = 0)
    <3>1. Posted(p) \in 0 .. 4
      BY <1>2, PostedType, Zenon DEF Alright
    <3> QED
      BY <1>1, <1>2, <1>4, <3>1, SMTT(30), Z3T(30) DEF Alright, Errors
  <2> QED
    BY <1>1, <1>2, <2>1, SMTT(30), Z3T(30) DEF Alright, Errors, queueVars
<1>12. args.work = "atomic" => mem' = mem
  BY <1>1, Zenon
<1> QED
  BY <1>1, <1>3, <1>4, <1>6, <1>8, <1>9, <1>10, <1>11, <1>12, PostingRest, Zenon DEF Alright, Posting

\* The first half of memcpy3_add_we() keeps its process alright.
LEMMA PutOperandsStep ==
  ASSUME IInv, NEW p \in Procs, PutOperands(p)
  PROVE  Alright(p)'
<1>1. /\ pc[p] = "operands" /\ Goto(p, "command") /\ last_we' = [last_we EXCEPT ![p] = next[p]]
      /\ queue' = [queue EXCEPT ![p][next[p]].status = 0, ![p][next[p]].args = NextElement(p).args]
      /\ UNCHANGED <<next, wrap, afuVars, trouble, argVars, k, i, first_we, result>>
  BY Zenon DEF PutOperands, At, AddOperands
<1>2. pc'[p] = "command" /\ last_we'[p] = next[p]
  BY <1>1, FunctionTypes, Zenon DEF Goto
<1>3. /\ TypeOK /\ Alright(p) /\ i[p] # 0 /\ Done(p) = 0 /\ engine[p].phase = "fetch"
      /\ result[p] = "none" /\ p \in forked /\ Posted(p) \in 0 .. 3 /\ Posted(p) + 1 = k[p] /\ k[p] \in 1 .. 4
      /\ next[p] = Slot(p, k[p]) /\ next[p] \in Slots /\ Size \in 1 .. 4 /\ k[p] \in 1 .. Size
  <2>1. TypeOK /\ Alright(p) /\ k[p] \in 1 .. 4 /\ next[p] \in Slots
    BY FunctionTypes, Types, Zenon
  <2>2. pc[p] \in Posting
    BY <1>1, Zenon DEF Posting
  <2>3. Posted(p) \in 0 .. 3 /\ Posted(p) + 1 = k[p]
    BY <1>1, <2>1, PostedType, SMTT(30), Z3T(30) DEF Alright
  <2> QED
    BY <1>1, <2>1, <2>2, <2>3, AfuWaits, Zenon DEF Alright, Ring, Place
<1>4. Still(p)
  BY <1>1, <1>2, Zenon DEF Still, afuVars, argVars
<1>5. /\ Size' = Size /\ Posted(p)' = Posted(p) /\ FirstWrap(p)' = FirstWrap(p) /\ Done(p)' = Done(p)
      /\ \A n : Slot(p, n)' = Slot(p, n)
      /\ \A s : LapOf(p, s)' = LapOf(p, s)
  BY <1>4, StillRing, Zenon
<1>6. /\ \A s \in Slots : s # next[p] => queue'[p][s] = queue[p][s]
      /\ queue'[p][next[p]].cmd = queue[p][next[p]].cmd /\ queue'[p][next[p]].status = 0
      /\ queue'[p][next[p]].args = NextElement(p).args
  BY <1>1, <1>3, FunctionTypes, SMTT(30), Z3T(30) DEF Elements
<1>7. Place(p)'
  BY <1>1, <1>2, <1>3, <1>5, Zenon DEF Alright, Place, Posting, Labels, afuVars, argVars
<1>8. Ring(p)'
  BY <1>1, <1>2, <1>3, <1>5, Zenon DEF Alright, Ring, Posting, afuVars
<1>9. Laps(p)'
  BY <1>3, <1>5, <1>6, ZenonT(30) DEF Alright, Laps
<1>10. \A n : Round(p)' = Round(p) /\ Operands(p, n)' = Operands(p, n)
  BY <1>1, RoundStays, Zenon DEF Operands, argVars
<1>11. RoundElements(p)'
  <2>1. ASSUME NEW n \in 1 .. Posted(p) PROVE Element(p, n)'
    <3>1. Element(p, n)
      BY <1>3, Zenon DEF Alright, RoundElements
    <3>2. n \in 1 .. 4 /\ n # k[p]
      BY <1>3, SMTT(30), Z3T(30)
    <3>3. Slot(p, n) \in Slots /\ Slot(p, n) # next[p]
      BY <1>3, <3>2, SlotsOfRound, SMTT(30), Z3T(30)
    <3>4. pc[p] \in Posting
      BY <1>1, Zenon DEF Posting
    <3> QED
      BY <1>1, <1>5, <1>6, <1>10, <3>1, <3>3, <3>4, Zenon DEF Element, argVars
  <2>2. NextElement(p).args = Operands(p, k[p])
    BY Zenon DEF NextElement, Operands
  <2> QED
    BY <1>1, <1>5, <1>6, <1>10, <2>1, <2>2, Zenon DEF RoundElements
<1>12. Errors(p)'
  <2>1. \A s \in Slots : /\ queue'[p][s].cmd.valid = queue[p][s].cmd.valid
                         /\ queue'[p][s].status = queue[p][s].status \/ (s = next[p] /\ queue'[p][s].status = 0)
    BY <1>6, Zenon
  <2>2. \A s \in Slots : queue'[p][s].status = 255 => queue[p][s].status = 255
    BY <2>1, SMTT(30), Z3T(30)
  <2>3. \A s \in Slots : queue[p][s].cmd.valid /\ queue[p][s].status = 0 =>
           \E n \in Done(p) + 1 .. Posted(p) : s = Slot(p, n)
    BY <1>1, <1>3, Zenon DEF Alright, Errors
  <2>4. \A s \in Slots : queue'[p][s].cmd.valid /\ queue'[p][s].status = 0 =>
           \/ \E n \in Done(p)' + 1 .. Posted(p)' : s = Slot(p, n)'
           \/ pc'[p] = "command" /\ s = next'[p]
    <3>1. ASSUME NEW s \in Slots, s # next[p], queue'[p][s].cmd.valid /\ queue'[p][s].status = 0
          PROVE  \E n \in Done(p)' + 1 .. Posted(p)' : s = Slot(p, n)'
      <4>1. PICK n \in Done(p) + 1 .. Posted(p) : s = Slot(p, n)
        BY <1>6, <2>3, <3>1, Zenon
      <4> QED
        BY <1>5, <4>1, Zenon
    <3> QED
      BY <1>1, <1>2, <3>1, Zenon
  <2> QED
    BY <1>1, <1>3, <2>2, <2>4, ZenonT(60) DEF Alright, Errors, afuVars
<1> QED
  BY <1>1, <1>2, <1>3, <1>5, <1>7, <1>8, <1>9, <1>11, <1>12, PostingRest, Zenon DEF Alright, Posting, afuVars

\* What memcpy3_add_we() does at the end of the queue keeps the laps apart.
LEMMA CommandArithmetic ==
  ASSUME NEW f \in Slots, NEW m \in 0 .. 3, NEW w \in {0, 1}, NEW x \in Slots, x = After(f, m),
         NEW y, y = After(x, 1), NEW v, v = IF x = QueueLength - 1 THEN 1 - w ELSE w
  PROVE  /\ y = After(f, m + 1) /\ y \in Slots /\ v \in {0, 1}
         /\ Lap(f, m + 1, v) = Lap(f, m, w)
         /\ (IF x < y THEN v ELSE 1 - v) = w
         /\ \A s \in Slots : s # x => (IF s < y THEN v ELSE 1 - v) = (IF s < x THEN w ELSE 1 - w)
<1>1. QueueLength \in Nat /\ QueueLength >= 4
  BY QueueAssumption, TestAssumption, Zenon
<1> QED
  BY <1>1, SMTT(30), Z3T(30) DEF Slots, After, Lap

\* After an element of the round, the next one or the end.
LEMMA AfterElementIs ==
  ASSUME IInv, NEW p \in Procs, AfterElement(p)
  PROVE  \/ pc'[p] = "go" /\ k'[p] = k[p] /\ k[p] = Size
         \/ pc'[p] = "operands" /\ k'[p] = k[p] + 1 /\ k[p] # Size
<1>1. Len(Round(p)) = Size
  BY FunctionTypes, Types, RoundIs, Zenon
<1> QED
  BY <1>1, FunctionTypes, Zenon DEF AfterElement, Goto

\* Its second half, after the barrier, keeps its process alright.
LEMMA PutCommandStep ==
  ASSUME IInv, NEW p \in Procs, PutCommand(p)
  PROVE  Alright(p)'
<1> DEFINE we == NextElement(p)
<1>1. /\ pc[p] = "command"
      /\ queue' = [queue EXCEPT ![p][next[p]].cmd = [name |-> we.name, valid |-> we.valid, wrap |-> wrap[p]]]
      /\ next' = [next EXCEPT ![p] = (@ + 1) % QueueLength]
      /\ wrap' = [wrap EXCEPT ![p] = NextWrap(p)]
      /\ IF Round(p)[k[p]].mark THEN Goto(p, "mark") /\ UNCHANGED k ELSE AfterElement(p)
      /\ UNCHANGED <<afuVars, trouble, argVars, i, first_we, last_we, result>>
  BY Zenon DEF PutCommand, At, AddCommand
<1>2. /\ TypeOK /\ Alright(p) /\ i[p] # 0 /\ Done(p) = 0 /\ engine[p].phase = "fetch"
      /\ result[p] = "none" /\ p \in forked /\ Posted(p) \in 0 .. 3 /\ Posted(p) = k[p] - 1 /\ k[p] \in 1 .. 4
      /\ next[p] = Slot(p, k[p]) /\ next[p] \in Slots /\ Size \in 1 .. 4 /\ k[p] \in 1 .. Size
      /\ wrap[p] \in {0, 1} /\ first_we[p] \in Slots
  <2>1. TypeOK /\ Alright(p) /\ k[p] \in 1 .. 4 /\ next[p] \in Slots /\ wrap[p] \in {0, 1} /\ first_we[p] \in Slots
    BY FunctionTypes, Types, Zenon
  <2>2. pc[p] \in Posting
    BY <1>1, Zenon DEF Posting
  <2>3. Posted(p) \in 0 .. 3 /\ Posted(p) = k[p] - 1
    BY <1>1, <2>1, PostedType, Zenon DEF Alright
  <2> QED
    BY <1>1, <2>1, <2>2, <2>3, AfuWaits, SMTT(30), Z3T(30) DEF Alright, Ring, Place
<1>3. \/ pc'[p] = "mark" /\ k'[p] = k[p] /\ k[p] # 1
      \/ pc'[p] = "go" /\ k'[p] = k[p] /\ k[p] = Size
      \/ pc'[p] = "operands" /\ k'[p] = k[p] + 1 /\ k[p] # Size
  <2>1. CASE Round(p)[k[p]].mark
    <3>1. k[p] # 1
      BY <1>2, <2>1, Types, RoundKinds, Zenon
    <3> QED
      BY <1>1, <2>1, <3>1, FunctionTypes, Zenon DEF Goto
  <2>2. CASE ~Round(p)[k[p]].mark
    BY <1>1, <2>2, AfterElementIs, Zenon
  <2> QED
    BY <2>1, <2>2, Zenon
<1>4. /\ Posted(p)' = Posted(p) + 1 /\ Posted(p)' = k[p] /\ Size' = Size
      /\ \A n : Slot(p, n)' = Slot(p, n)
  <2>1. Posted(p)' = k[p]
    BY <1>1, <1>2, <1>3, SMTT(30), Z3T(30) DEF Posted
  <2>2. Size' = Size /\ \A n : Slot(p, n)' = Slot(p, n)
    BY <1>1, Zenon DEF Size, Slot, argVars
  <2> QED
    BY <1>2, <2>1, <2>2, SMTT(30), Z3T(30)
<1>5. /\ next'[p] = After(next[p], 1)
      /\ wrap'[p] = IF next[p] = QueueLength - 1 THEN 1 - wrap[p] ELSE wrap[p]
      /\ next[p] = After(first_we[p], Posted(p))
  BY <1>1, <1>2, NextSlot, FunctionTypes, Zenon DEF NextWrap, Slot
<1>6. /\ next'[p] = Slot(p, k[p] + 1) /\ FirstWrap(p)' = FirstWrap(p)
      /\ \A s \in Slots : s = next[p] => LapOf(p, s)' = wrap[p]
      /\ \A s \in Slots : s # next[p] => LapOf(p, s)' = LapOf(p, s)
  <2>1. /\ next'[p] = After(first_we[p], Posted(p) + 1)
        /\ Lap(first_we[p], Posted(p) + 1, wrap'[p]) = Lap(first_we[p], Posted(p), wrap[p])
        /\ (IF next[p] < next'[p] THEN wrap'[p] ELSE 1 - wrap'[p]) = wrap[p]
        /\ \A s \in Slots : s # next[p] =>
             (IF s < next'[p] THEN wrap'[p] ELSE 1 - wrap'[p]) = (IF s < next[p] THEN wrap[p] ELSE 1 - wrap[p])
    <3>1. first_we[p] \in Slots /\ Posted(p) \in 0 .. 3 /\ wrap[p] \in {0, 1} /\ next[p] \in Slots
      BY <1>2, Zenon
    <3> QED
      BY <1>5, <3>1, CommandArithmetic, SMTT(30), Z3T(30)
  <2>2. k[p] + 1 - 1 = Posted(p) + 1
    BY <1>2, SMTT(30), Z3T(30)
  <2>3. first_we'[p] = first_we[p]
    BY <1>1, Zenon
  <2>4. next'[p] = Slot(p, k[p] + 1)
    BY <1>2, <2>1, <2>2, SMTT(30), Z3T(30) DEF Slot, After
  <2>5. FirstWrap(p)' = FirstWrap(p)
    BY <1>4, <2>1, <2>3, Zenon DEF FirstWrap
  <2> QED
    BY <2>1, <2>4, <2>5, Zenon DEF LapOf
<1>7. Done(p)' = 0
  BY <1>1, <1>2, <1>6, Zenon DEF Done, afuVars
<1>8. /\ \A s \in Slots : s # next[p] => queue'[p][s] = queue[p][s]
      /\ queue'[p][next[p]].cmd = [name |-> we.name, valid |-> we.valid, wrap |-> wrap[p]]
      /\ queue'[p][next[p]].status = queue[p][next[p]].status
      /\ queue'[p][next[p]].args = queue[p][next[p]].args
  BY <1>1, <1>2, FunctionTypes, SMTT(30), Z3T(30) DEF Elements
<1>9. we.name = Round(p)[k[p]].name /\ we.valid = Round(p)[k[p]].valid /\ (k[p] = 1 => ~we.valid)
  BY <1>2, Types, RoundKinds, Zenon DEF NextElement
<1> HIDE DEF we
<1>10. Place(p)'
  <2>1. pc[p] # "operands" /\ last_we[p] = Slot(p, k[p])
    BY <1>1, <1>2, Zenon DEF Alright, Place
  <2>2. pc'[p] # "operands" => last_we'[p] = Slot(p, k[p])'
    BY <1>1, <1>3, <1>4, <2>1, Zenon
  <2>3. k'[p] \in 1 .. Size
    BY <1>2, <1>3, SMTT(30), Z3T(30)
  <2> QED
    BY <1>1, <1>2, <1>3, <1>4, <2>2, <2>3, Zenon DEF Alright, Place, Posting, Labels, afuVars, argVars
<1>11. Ring(p)'
  <2>1. next'[p] = Slot(p, Posted(p) + 1)'
    BY <1>4, <1>6, Zenon
  <2> QED
    BY <1>1, <1>2, <1>3, <1>4, <1>7, <2>1, SMTT(30), Z3T(30) DEF Ring, afuVars
<1>12. Laps(p)'
  <2>1. ASSUME NEW s \in Slots, queue'[p][s].cmd.valid PROVE queue'[p][s].cmd.wrap = LapOf(p, s)'
    <3>1. CASE s = next[p]
      BY <1>6, <1>8, <3>1, SMTT(30), Z3T(30)
    <3>2. CASE s # next[p]
      BY <1>2, <1>6, <1>8, <2>1, <3>2, Zenon DEF Alright, Laps
    <3> QED
      BY <3>1, <3>2, Zenon
  <2> QED
    BY <2>1, Zenon DEF Laps
<1>13. \A n : Round(p)' = Round(p) /\ Operands(p, n)' = Operands(p, n)
  BY <1>1, RoundStays, Zenon DEF Operands, argVars
<1>14. ASSUME NEW n \in 1 .. k[p] PROVE Element(p, n)'
  <2>1. CASE n = k[p]
    <3>1. Slot(p, n)' = next[p]
      BY <1>2, <1>4, <2>1, Zenon
    <3>2. queue[p][next[p]].status = 0 /\ queue[p][next[p]].args = Operands(p, k[p])
      BY <1>1, <1>2, Zenon DEF Alright, RoundElements
    <3>3. ~(n <= 0)
      BY <2>1, <1>2, SMTT(30), Z3T(30)
    <3>4. LapOf(p, Slot(p, n))' = wrap[p]
      BY <1>2, <1>6, <3>1, Zenon DEF LapOf
    <3>5. queue'[p][next[p]].cmd.name = Round(p)[n].name /\ queue'[p][next[p]].cmd.wrap = wrap[p]
          /\ (n = 1 => ~queue'[p][next[p]].cmd.valid)
      BY <1>8, <1>9, <2>1, SMTT(30), Z3T(30)
    <3> QED
      BY <1>7, <1>8, <1>13, <2>1, <3>1, <3>2, <3>3, <3>4, <3>5, SMTT(30), Z3T(30) DEF Element
  <2>2. CASE n # k[p]
    <3>1. n \in 1 .. Posted(p) /\ n \in 1 .. 4
      BY <1>2, <2>2, SMTT(30), Z3T(30)
    <3>2. Element(p, n)
      BY <1>2, <3>1, Zenon DEF Alright, RoundElements
    <3>3. Slot(p, n) \in Slots /\ Slot(p, n) # next[p]
      BY <1>2, <2>2, <3>1, SlotsOfRound, SMTT(30), Z3T(30)
    <3>4. pc[p] \in Posting /\ Done(p)' = Done(p)
      BY <1>1, <1>2, <1>7, Zenon DEF Posting
    <3> QED
      BY <1>1, <1>4, <1>6, <1>8, <1>13, <3>2, <3>3, <3>4, Zenon DEF Element, argVars
  <2> QED
    BY <2>1, <2>2, ZenonT(30)
<1>15. RoundElements(p)'
  BY <1>3, <1>4, <1>14, Zenon DEF RoundElements
<1>16. Errors(p)'
  <2>1. \A s \in Slots : queue'[p][s].status = queue[p][s].status
    BY <1>8, Zenon
  <2>2. ASSUME NEW s \in Slots, queue'[p][s].cmd.valid /\ queue'[p][s].status = 0
        PROVE  \E n \in Done(p)' + 1 .. Posted(p)' : s = Slot(p, n)'
    <3>1. CASE s = next[p]
      <4>1. PICK n \in 1 .. 4 : n = k[p]
        BY <1>2, Zenon
      <4>2. n \in Done(p)' + 1 .. Posted(p)' /\ s = Slot(p, n)'
        BY <1>2, <1>4, <1>7, <3>1, <4>1, SMTT(30), Z3T(30)
      <4> QED
        BY <4>2, Zenon
    <3>2. CASE s # next[p]
      <4>1. PICK n \in Done(p) + 1 .. Posted(p) : s = Slot(p, n)
        BY <1>2, <1>8, <2>2, <3>2, Zenon DEF Alright, Errors
      <4>2. n \in Done(p)' + 1 .. Posted(p)' /\ s = Slot(p, n)'
        BY <1>2, <1>4, <1>7, <4>1, SMTT(30), Z3T(30)
      <4> QED
        BY <4>2, Zenon
    <3> QED
      BY <3>1, <3>2, Zenon
  <2>3. Errors(p)
    BY <1>2, Zenon DEF Alright
  <2> QED
    BY <1>1, <2>1, <2>2, <2>3, SMTT(30), Z3T(30) DEF Errors, afuVars
<1>17. pc[p] \in {"round"} \cup Posting /\ pc'[p] \in Posting
  BY <1>1, <1>3, Zenon DEF Posting
<1> QED
  BY <1>1, <1>2, <1>7, <1>10, <1>11, <1>12, <1>15, <1>16, <1>17, PostingRest, Zenon DEF Alright, afuVars

\* Element m of the round is set valid, the first one as the last step.
LEMMA SetsValid ==
  ASSUME IInv, NEW p \in Procs, pc[p] \in {"mark", "go"}, NEW m \in 1 .. 4, m <= Posted(p),
         SetValid(p, Slot(p, m)), Posted(p)' = Posted(p), m = 1 => pc'[p] \notin Posting,
         UNCHANGED <<afuVars, trouble, argVars, i, first_we, last_we, result>>,
         pc'[p] \in {"go", "operands", IF args.completion = "irq" THEN "irq" ELSE "status"},
         Place(p)'
  PROVE  Alright(p)'
<1>1. queue' = [queue EXCEPT ![p][Slot(p, m)].cmd.valid = TRUE] /\ UNCHANGED <<next, wrap>>
  BY Zenon DEF SetValid
<1>2. /\ TypeOK /\ Alright(p) /\ Done(p) = 0 /\ engine[p].phase = "fetch" /\ result[p] = "none"
      /\ Posted(p) \in 0 .. 4 /\ pc[p] \in Posting
  <2>1. pc[p] \in Posting
    BY Zenon DEF Posting
  <2> QED
    BY <2>1, AfuWaits, Zenon
<1>3. Slot(p, m) \in Slots /\ Element(p, m)
  BY <1>2, SlotsOfRound, SMTT(30), Z3T(30) DEF Alright, RoundElements
<1>4. /\ Size' = Size /\ FirstWrap(p)' = FirstWrap(p)
      /\ \A n : Slot(p, n)' = Slot(p, n)
      /\ \A s : LapOf(p, s)' = LapOf(p, s)
  BY <1>1, Zenon DEF Size, FirstWrap, Slot, LapOf, argVars
<1>5. Done(p)' = 0
  BY <1>2, <1>4, Zenon DEF Done, afuVars
<1>6. /\ \A s \in Slots : s # Slot(p, m) => queue'[p][s] = queue[p][s]
      /\ \A s \in Slots : /\ queue'[p][s].status = queue[p][s].status /\ queue'[p][s].args = queue[p][s].args
                          /\ queue'[p][s].cmd.name = queue[p][s].cmd.name
                          /\ queue'[p][s].cmd.wrap = queue[p][s].cmd.wrap
  BY <1>1, <1>3, FunctionTypes, SMTT(30), Z3T(30) DEF Elements
<1>7. Ring(p)'
  <2>1. next'[p] = Slot(p, Posted(p) + 1)'
    BY <1>1, <1>2, <1>4, Zenon DEF Alright, Ring
  <2>2. pc'[p] \notin {"event", "check", "restart", "clear", "round"}
    OBVIOUS
  <2> QED
    BY <1>2, <1>5, <2>1, <2>2, SMTT(30), Z3T(30) DEF Ring, afuVars
<1>8. Laps(p)'
  <2>1. ASSUME NEW s \in Slots, queue'[p][s].cmd.valid PROVE queue'[p][s].cmd.wrap = LapOf(p, s)'
    <3>1. CASE s = Slot(p, m)
      BY <1>3, <1>4, <1>6, <3>1, Zenon DEF Element
    <3>2. CASE s # Slot(p, m)
      BY <1>2, <1>4, <1>6, <2>1, <3>2, Zenon DEF Alright, Laps
    <3> QED
      BY <3>1, <3>2, Zenon
  <2> QED
    BY <2>1, Zenon DEF Laps
<1>9. \A n : Round(p)' = Round(p) /\ Operands(p, n)' = Operands(p, n)
  BY RoundStays, Zenon DEF Operands, argVars
<1>10. ASSUME NEW n \in 1 .. Posted(p) PROVE Element(p, n)'
  <2>1. Element(p, n) /\ Slot(p, n) \in Slots /\ n \in 1 .. 4
    BY <1>2, SlotsOfRound, SMTT(30), Z3T(30) DEF Alright, RoundElements
  <2>2. n = 1 /\ pc'[p] \in Posting => queue'[p][Slot(p, n)] = queue[p][Slot(p, n)]
    BY <1>2, <1>6, <2>1, SlotsOfRound, SMTT(30), Z3T(30)
  <2>3. n = 1 /\ pc'[p] \in Posting => ~queue'[p][Slot(p, n)].cmd.valid
    BY <1>2, <2>1, <2>2, Zenon DEF Element
  <2>4. Slot(p, n)' = Slot(p, n) /\ LapOf(p, Slot(p, n))' = LapOf(p, Slot(p, n)) /\ args' = args
    BY <1>4, Zenon DEF argVars
  <2>5. queue'[p][Slot(p, n)].status = 17 => args'.completion = "wake" /\ n = Size'
    BY <1>4, <1>6, <2>1, <2>4, Zenon DEF Element
  <2> QED
    BY <1>2, <1>5, <1>6, <1>9, <2>1, <2>3, <2>4, <2>5, ZenonT(30) DEF Element
<1>11. RoundElements(p)'
  BY <1>10, ZenonT(30) DEF RoundElements
<1>12. Errors(p)'
  <2>1. ASSUME NEW s \in Slots, queue'[p][s].cmd.valid /\ queue'[p][s].status = 0
        PROVE  \E n \in Done(p)' + 1 .. Posted(p)' : s = Slot(p, n)'
    <3>1. CASE s = Slot(p, m)
      BY <1>2, <1>4, <1>5, <3>1, SMTT(30), Z3T(30)
    <3>2. CASE s # Slot(p, m)
      <4>1. PICK n \in Done(p) + 1 .. Posted(p) : s = Slot(p, n)
        BY <1>2, <1>6, <2>1, <3>2, Zenon DEF Alright, Errors
      <4>2. n \in Done(p)' + 1 .. Posted(p)' /\ s = Slot(p, n)'
        BY <1>2, <1>4, <1>5, <4>1, Zenon
      <4> QED
        BY <4>2, Zenon
    <3> QED
      BY <3>1, <3>2, ZenonT(60)
  <2>2. Errors(p)
    BY <1>2, Zenon DEF Alright
  <2>3. engine'[p] = engine[p] /\ irqs'[p] = irqs[p] /\ result'[p] = result[p] /\ trouble'[p] = trouble[p]
    BY ZenonT(60) DEF afuVars
  <2>4. \A s \in Slots : queue'[p][s].status = 255 => "err" \in irqs'[p] \/ result'[p] = "fail"
    <3>1. \A s \in Slots : queue[p][s].status = 255 => "err" \in irqs[p] \/ result[p] = "fail"
      BY <2>2, Zenon DEF Errors
    <3>2. \A s \in Slots : queue'[p][s].status = queue[p][s].status
      BY <1>6, Zenon
    <3> QED
      BY <2>3, <3>1, <3>2, SMTT(30), Z3T(30)
  <2>5. /\ engine'[p].phase = "complete" /\ engine'[p].outcome = 255
           => "err" \in irqs'[p] \/ result'[p] = "fail"
        /\ "err" \in irqs'[p] \/ result'[p] = "fail" => trouble'[p]
    BY <2>2, <2>3, ZenonT(60) DEF Errors
  <2> QED
    BY <2>1, <2>4, <2>5, Zenon DEF Errors
<1>13. pc'[p] \in Posting \cup {IF args.completion = "irq" THEN "irq" ELSE "status"}
  BY Zenon DEF Posting
<1> QED
  BY <1>2, <1>5, <1>7, <1>8, <1>11, <1>12, <1>13, PostingRest, Zenon DEF Alright, afuVars

\* Setting a later element valid keeps its process alright.
LEMMA MarkStep ==
  ASSUME IInv, NEW p \in Procs, Mark(p)
  PROVE  Alright(p)'
<1>1. /\ pc[p] = "mark" /\ SetValid(p, last_we[p]) /\ AfterElement(p)
      /\ UNCHANGED <<afuVars, trouble, argVars, i, first_we, last_we, result>>
  BY Zenon DEF Mark, At
<1>2. TypeOK /\ Alright(p) /\ i[p] # 0 /\ Size \in 1 .. 4
  BY <1>1, AfuWaits, Zenon DEF Posting
<1>3. /\ k[p] \in 1 .. Size /\ k[p] # 1 /\ Posted(p) = k[p] /\ last_we[p] = Slot(p, k[p])
      /\ result[p] = "none" /\ p \in forked
  BY <1>1, <1>2, Zenon DEF Alright, Place, Posted
<1>4. \/ pc'[p] = "go" /\ k'[p] = k[p] /\ k[p] = Size
      \/ pc'[p] = "operands" /\ k'[p] = k[p] + 1 /\ k[p] # Size
  BY <1>1, AfterElementIs, Zenon
<1>5. Posted(p)' = Posted(p) /\ Size' = Size /\ \A n : Slot(p, n)' = Slot(p, n)
  <2>1. Posted(p)' = Posted(p)
    BY <1>1, <1>2, <1>3, <1>4, SMTT(30), Z3T(30) DEF Posted
  <2> QED
    BY <1>1, <2>1, Zenon DEF Size, Slot, argVars
<1>6. Place(p)'
  <2>1. k'[p] \in 1 .. Size
    BY <1>2, <1>3, <1>4, SMTT(30), Z3T(30)
  <2>2. pc'[p] # "operands" => last_we'[p] = Slot(p, k[p])'
    BY <1>1, <1>3, <1>4, <1>5, ZenonT(30)
  <2> QED
    BY <1>1, <1>2, <1>3, <1>4, <1>5, <2>1, <2>2, ZenonT(30) DEF Alright, Place, Posting, Labels, afuVars, argVars
<1> QED
  BY <1>1, <1>2, <1>3, <1>4, <1>5, <1>6, SetsValid, SMTT(30), Z3T(30)

\* Setting the first element valid keeps its process alright.
LEMMA GoStep ==
  ASSUME IInv, NEW p \in Procs, Go(p)
  PROVE  Alright(p)'
<1>1. /\ pc[p] = "go" /\ SetValid(p, first_we[p]) /\ Goto(p, IF args.completion = "irq" THEN "irq" ELSE "status")
      /\ UNCHANGED <<afuVars, trouble, argVars, k, i, first_we, last_we, result>>
  BY Zenon DEF Go, At
<1>2. TypeOK /\ Alright(p) /\ i[p] # 0 /\ Size \in 1 .. 4
  BY <1>1, AfuWaits, Zenon DEF Posting
<1>3. /\ k[p] = Size /\ Posted(p) = k[p] /\ first_we[p] = Slot(p, 1)
      /\ result[p] = "none" /\ p \in forked
  BY <1>1, <1>2, SlotsOfRound, Zenon DEF Alright, Place, Posted
<1>4. pc'[p] = IF args.completion = "irq" THEN "irq" ELSE "status"
  BY <1>1, FunctionTypes, Zenon DEF Goto
<1>5. Posted(p)' = Posted(p) /\ Size' = Size /\ \A n : Slot(p, n)' = Slot(p, n)
  <2>1. Posted(p)' = Posted(p)
    BY <1>1, <1>2, <1>3, <1>4, Zenon DEF Posted
  <2> QED
    BY <1>1, <2>1, Zenon DEF Size, Slot, argVars
<1>6. Place(p)'
  BY <1>1, <1>2, <1>3, <1>4, <1>5, Zenon DEF Alright, Place, Posting, Labels, afuVars, argVars
<1>7. pc'[p] \notin Posting
  BY <1>4, Zenon DEF Posting
<1> QED
  BY <1>1, <1>2, <1>3, <1>4, <1>5, <1>6, <1>7, SetsValid, SMTT(30), Z3T(30)


===============================================================================

--------------------------------- MODULE Afp3 ---------------------------------
(***************************************************************************)
(* The two tests of the AFP3 AFU.  ocxl_afp3 lets the AFU load and store   *)
(* in a buffer and reports, from eight counters read one after the other,  *)
(* what it did meanwhile.  ocxl_afp3_latency plays ping-pong: a write of   *)
(* the enable register is answered by a store into the buffer.  Both set   *)
(* the registers of the AFU first, where an earlier program may have left  *)
(* anything, the AFU running included.                                     *)
(*                                                                         *)
(* The AFU is external: it is modelled as the two programs rely on it.     *)
(***************************************************************************)
EXTENDS Integers, Sequences

CONSTANTS
  CommandLines,   \* bound: the options the program is started with
  Happenings,     \* bound: what the AFU may count
  MaxEvents,      \* bound: how often it does
  Width           \* bound: bits of a counter and of a loop count (64)

Wrap == 2 ^ Width

PAGE_BYTES == 4096
Counters   == 0 .. 7
Nothing    == [c \in Counters |-> 0]

\* The counters that count each event: cycles, good responses (total, load,
\* store), retries (total, load, store), cycles without credit.
Counts ==
  [cycle |-> {0}, load |-> {1, 2}, store |-> {1, 3},
   retried_load |-> {4, 5}, retried_store |-> {4, 6}, no_credit |-> {7}]

ASSUME Afp3Assumption ==
  /\ Happenings \subseteq DOMAIN Counts
  /\ MaxEvents \in Nat
  /\ Width \in Nat \ {0}
  /\ \A o \in CommandLines : o.program = "ocxl_afp3_latency" => o.iterations \in 0 .. Wrap - 1

VARIABLES
  opt,                  \* the options: constant
  reg,                  \* the registers of the AFU
  count,                \* its eight counters
  pending,              \* a ping it has not answered
  flag,                 \* the word of the buffer where the answer is stored
  pc, k,                \* where the program is; the next register or counter
  handle,               \* the AFU handle
  sample, prev, delta,  \* countN, countN_prev, delta_cntN
  round,                \* ocxl_afp3: readings of all counters so far
  j, reported,          \* ocxl_afp3_latency: pings so far, *count at the end
  flag_stop,
  rc,                   \* what the program returns
  foreign,              \* history: the AFU was on before the program set its enable register
  truth, zero,          \* history: what the AFU has counted ever, and at the last reset
  seen, seen_prev,      \* history: truth when each counter was read, and the time before
  pings, pongs, late    \* history: pings sent, answered, and sent after a signal

afuVars     == <<reg, count, pending, flag, truth>>
countVars   == <<sample, prev, delta, round, seen, seen_prev>>
pingVars    == <<j, reported, pings, late>>
programVars == <<opt, handle, foreign>>
vars == <<afuVars, countVars, pingVars, programVars, pc, k, flag_stop, rc, zero, pongs>>

Bandwidth == opt.program = "ocxl_afp3"

-------------------------------------------------------------------------------
(* The options, and what the registers are given.                           *)

\* size_enc_ld and size_enc_st.
Encoding(size) == CASE size = 64 -> 1 [] size = 128 -> 2 [] size \in {256, 512} -> 3

LegalSizes == {64, 128, 256} \cup IF Bandwidth THEN {} ELSE {512}

\* The buffer: its size, to which it is aligned, and some address it may have.
Pages  == IF Bandwidth THEN 1024 ELSE 131072
Buffer == Pages * PAGE_BYTES

\* offsetmask before it is shifted, in pages: ocxl_afp3_latency has its own.
Mask == IF Bandwidth THEN opt.offsetmask ELSE 127

WarnsOfMask == Bandwidth /\ opt.offsetmask > 1023

wed_in ==
  Buffer + opt.tags_ld * 512 + Encoding(opt.size_ld) * 128 + opt.tags_st * 8
         + Encoding(opt.size_st) * 2

extra_read_ea_in == Buffer + 1024

\* The bits of the enable register: on, ping-pong, 512 byte stores, large data,
\* extra read, 512 byte loads.
Off == {}

enable_in ==
  IF Bandwidth THEN {63}
  ELSE {63, 62} \cup (IF opt.size_st = 512 THEN {61} ELSE {})
                \cup (IF opt.size_ld = 512 THEN {58} ELSE {})
                \cup (IF opt.size_ping # 8 THEN {60} ELSE {})
                \cup (IF opt.extra_read THEN {59} ELSE {})

\* Mutant of Writes: ocxl_afp3_latency takes the AFU as it finds it.
WritesAsFound ==
  IF Bandwidth
  THEN <<"pasid", "wed", "bufmask", "control", "enable">>
  ELSE <<"wed", "bufmask">>
       \o (IF opt.size_ping # 8 THEN <<"misc">> ELSE <<>>)
       \o <<"control">>
       \o (IF opt.extra_read THEN <<"extra_read_ea">> ELSE <<>>)

\* The registers that are written before the measurement, in their order.
Writes ==
  IF Bandwidth
  THEN <<"pasid", "wed", "bufmask", "control", "enable">>
  ELSE <<"enable", "wed", "bufmask">>
       \o (IF opt.size_ping # 8 THEN <<"misc">> ELSE <<>>)
       \o <<"control">>
       \o (IF opt.extra_read THEN <<"extra_read_ea">> ELSE <<>>)

Pasid == 1
Stale == 0

Value ==
  [pasid |-> Pasid, wed |-> wed_in, bufmask |-> Mask, misc |-> 4096,
   extra_read_ea |-> extra_read_ea_in, enable |-> IF Bandwidth THEN enable_in ELSE Off]

\* ~0ull when the test is to run for ever.
loop_count == IF opt.iterations = 0 THEN Wrap - 1 ELSE opt.iterations

-------------------------------------------------------------------------------
(* The AFU.                                                                 *)

\* Loads, stores and their retries, and the cycles that pass.
AfuCounts(e) ==
  /\ 63 \in reg.enable /\ 62 \notin reg.enable
  /\ truth[0] + truth[1] + truth[4] + truth[7] < MaxEvents
  /\ count' = [c \in Counters |-> IF c \in Counts[e] THEN (count[c] + 1) % Wrap ELSE count[c]]
  /\ truth' = [c \in Counters |-> IF c \in Counts[e] THEN truth[c] + 1 ELSE truth[c]]
  /\ UNCHANGED <<reg, pending, flag, countVars, pingVars, programVars, pc, k, flag_stop, rc,
                 zero, pongs>>

AfuAnswers ==
  /\ pending
  /\ pending' = FALSE
  /\ flag' = 1
  /\ pongs' = pongs + 1
  /\ UNCHANGED <<reg, count, truth, countVars, pingVars, programVars, pc, k, flag_stop, rc, zero>>

-------------------------------------------------------------------------------
(* Both programs: up to the measurement, and after it.                      *)

Returns(result) == rc' = result /\ pc' = "exit"

\* A step of the program that changes nothing but where it is.
Quietly == UNCHANGED <<afuVars, countVars, pingVars, opt, foreign, k, flag_stop, zero, pongs>>

IllegalSize ==
  /\ pc = "start"
  /\ {opt.size_ld, opt.size_st} \ LegalSizes # {}
  /\ Returns("illegal")
  /\ UNCHANGED handle /\ Quietly

ocxl_afu_open ==
  /\ pc = "start"
  /\ {opt.size_ld, opt.size_st} \subseteq LegalSizes
  /\ handle' = "open"
  /\ pc' = "attach"
  /\ UNCHANGED rc /\ Quietly

\* ocxl_afu_attach(), ocxl_mmio_map() with ocxl_mmio_get_info(), posix_memalign().
Prepare ==
  /\ \/ pc = "attach" /\ pc' = "map"
     \/ pc = "map" /\ pc' = "alloc"
     \/ pc = "alloc" /\ pc' = "write"
  /\ UNCHANGED <<handle, rc>> /\ Quietly

\* A call fails: the program returns at once, whatever it has opened or set.
CallFails ==
  /\ \/ pc = "start" /\ {opt.size_ld, opt.size_st} \subseteq LegalSizes
     \/ pc \in {"attach", "map", "alloc", "write", "sample", "off"}
  /\ Returns("failed")
  /\ UNCHANGED handle /\ Quietly

\* Writing the control register resets the counters.
WriteRegister ==
  /\ pc = "write"
  /\ LET r == Writes[k] IN
       /\ IF r = "control"
          THEN count' = Nothing /\ zero' = truth /\ UNCHANGED reg
          ELSE reg' = [reg EXCEPT ![r] = Value[r]] /\ UNCHANGED <<count, zero>>
       /\ foreign' = (foreign /\ r # "enable")
  /\ IF k = Len(Writes)
     THEN k' = 0 /\ pc' = IF Bandwidth THEN "sample" ELSE "clear buffer"
     ELSE k' = k + 1 /\ UNCHANGED pc
  /\ UNCHANGED <<pending, flag, truth, countVars, pingVars, opt, handle, flag_stop, rc, pongs>>

TurnOff ==
  /\ pc = "off"
  /\ reg' = [reg EXCEPT !.enable = Off]
  /\ pc' = "close"
  /\ UNCHANGED <<count, pending, flag, truth, countVars, pingVars, programVars, k, flag_stop,
                 rc, zero, pongs>>

\* ocxl_mmio_unmap() in ocxl_afp3_latency, ocxl_afu_close() in both.
ocxl_afu_close ==
  /\ pc = "close"
  /\ handle' = "closed"
  /\ Returns("ok")
  /\ Quietly

-------------------------------------------------------------------------------
(* ocxl_afp3: the counters are read one after the other.                    *)

ocxl_mmio_read64 ==
  /\ pc = "sample"
  /\ sample' = [sample EXCEPT ![k] = count[k]]
  /\ seen' = [seen EXCEPT ![k] = truth[k]]
  /\ IF k = 7 THEN k' = 0 /\ pc' = "report" ELSE k' = k + 1 /\ UNCHANGED pc
  /\ UNCHANGED <<afuVars, prev, delta, round, seen_prev, pingVars, programVars, flag_stop, rc,
                 zero, pongs>>

\* The first reading only fills countN_prev.
KeepFirst ==
  /\ pc = "report" /\ round = 0
  /\ prev' = sample /\ seen_prev' = seen
  /\ round' = 1
  /\ pc' = IF opt.numLoops = 0 THEN "off" ELSE "sample"
  /\ UNCHANGED <<afuVars, sample, delta, seen, pingVars, programVars, k, flag_stop, rc, zero, pongs>>

\* Mutant of Report: the differences are taken as signed numbers.
ReportSigned ==
  /\ pc = "report" /\ round > 0
  /\ delta' = [c \in Counters |-> sample[c] - prev[c]]
  /\ prev' = sample
  /\ round' = round + 1
  /\ pc' = "reported"
  /\ UNCHANGED <<afuVars, sample, seen, seen_prev, pingVars, programVars, k, flag_stop, rc,
                 zero, pongs>>

\* Mutant of Report: one of the eight assignments to countN_prev is missing.
ReportForgets ==
  /\ pc = "report" /\ round > 0
  /\ delta' = [c \in Counters |-> (sample[c] - prev[c]) % Wrap]
  /\ prev' = [sample EXCEPT ![3] = prev[3]]
  /\ round' = round + 1
  /\ pc' = "reported"
  /\ UNCHANGED <<afuVars, sample, seen, seen_prev, pingVars, programVars, k, flag_stop, rc,
                 zero, pongs>>

Report ==
  /\ pc = "report" /\ round > 0
  /\ delta' = [c \in Counters |-> (sample[c] - prev[c]) % Wrap]
  /\ prev' = sample
  /\ round' = round + 1
  /\ pc' = "reported"
  /\ UNCHANGED <<afuVars, sample, seen, seen_prev, pingVars, programVars, k, flag_stop, rc,
                 zero, pongs>>

\* The head of the loop: round counts the reading before the loop as well.
NextLoop ==
  /\ pc = "reported"
  /\ pc' = IF round <= opt.numLoops THEN "sample" ELSE "off"
  /\ seen_prev' = seen
  /\ UNCHANGED <<afuVars, sample, prev, delta, round, seen, pingVars, programVars, k, flag_stop,
                 rc, zero, pongs>>

-------------------------------------------------------------------------------
(* ocxl_afp3_latency: ping_8B(), ping_OVER_8B() and the signal handler.     *)

ClearBuffer ==
  /\ pc = "clear buffer"
  /\ flag' = 0
  /\ pc' = IF opt.size_ping = 8 THEN "ping" ELSE "ping over 8"
  /\ UNCHANGED <<reg, count, pending, truth, countVars, pingVars, programVars, k, flag_stop, rc,
                 zero, pongs>>

\* Disabled: it claims one iteration.
ping_OVER_8B ==
  /\ pc = "ping over 8"
  /\ reported' = 1
  /\ pc' = "off"
  /\ UNCHANGED <<afuVars, countVars, j, pings, late, programVars, k, flag_stop, rc, zero, pongs>>

PingStarts ==
  /\ pc = "ping"
  /\ j < loop_count /\ ~flag_stop
  /\ pc' = "clear"
  /\ UNCHANGED <<handle, rc>> /\ Quietly

PingEnds ==
  /\ pc = "ping"
  /\ j >= loop_count \/ flag_stop
  /\ reported' = j
  /\ pc' = "off"
  /\ UNCHANGED <<afuVars, countVars, j, pings, late, programVars, k, flag_stop, rc, zero, pongs>>

\* Mutant of ClearFlag: the flag is not cleared before each ping.
ClearFlagOnce ==
  /\ pc = "clear"
  /\ pc' = "trigger"
  /\ UNCHANGED <<afuVars, countVars, pingVars, programVars, k, flag_stop, rc, zero, pongs>>

\* Mutant of ClearFlag: the flag is cleared when the AFU has been told already.
ClearFlagLate ==
  /\ \/ pc = "clear" /\ pc' = "trigger" /\ UNCHANGED flag
     \/ pc = "spin" /\ flag' = 0 /\ UNCHANGED pc
  /\ UNCHANGED <<reg, count, pending, truth, countVars, pingVars, programVars, k, flag_stop, rc,
                 zero, pongs>>

ClearFlag ==
  /\ pc = "clear"
  /\ flag' = 0
  /\ pc' = "trigger"
  /\ UNCHANGED <<reg, count, pending, truth, countVars, pingVars, programVars, k, flag_stop, rc,
                 zero, pongs>>

Trigger ==
  /\ pc = "trigger"
  /\ reg' = [reg EXCEPT !.enable = enable_in]
  /\ pending' = TRUE
  /\ pings' = pings + 1
  /\ late' = IF flag_stop THEN late + 1 ELSE late
  /\ pc' = "spin"
  /\ UNCHANGED <<count, flag, truth, countVars, j, reported, programVars, k, flag_stop, rc, zero,
                 pongs>>

Spin ==
  /\ pc = "spin"
  /\ flag # 0
  /\ j' = j + 1
  /\ pc' = "ping"
  /\ UNCHANGED <<afuVars, countVars, reported, pings, late, programVars, k, flag_stop, rc, zero,
                 pongs>>

\* Ctrl-C: the handler of ocxl_afp3_latency runs; ocxl_afp3 has none and dies.
Interrupt ==
  /\ pc # "exit"
  /\ IF Bandwidth
     THEN Returns("killed") /\ UNCHANGED flag_stop
     ELSE flag_stop' = TRUE /\ UNCHANGED <<pc, rc>>
  /\ UNCHANGED <<afuVars, countVars, pingVars, programVars, k, zero, pongs>>

-------------------------------------------------------------------------------
Init ==
  /\ opt \in CommandLines
  /\ reg \in [pasid : {Stale}, wed : {Stale}, bufmask : {Stale}, misc : {Stale},
              extra_read_ea : {Stale}, enable : {Off, {63}}]
  /\ foreign = (reg.enable # Off)
  /\ count = [c \in Counters |-> 1]
  /\ pending = FALSE /\ flag = 1
  /\ pc = "start" /\ k = 1
  /\ handle = "none"
  /\ sample = Nothing /\ prev = Nothing /\ delta = Nothing /\ round = 0
  /\ j = 0 /\ reported = 0
  /\ flag_stop = FALSE
  /\ rc = "running"
  /\ truth = Nothing /\ zero = Nothing /\ seen = Nothing /\ seen_prev = Nothing
  /\ pings = 0 /\ pongs = 0 /\ late = 0

Program ==
  \/ IllegalSize \/ ocxl_afu_open \/ Prepare \/ CallFails \/ WriteRegister
  \/ ocxl_mmio_read64 \/ KeepFirst \/ Report \/ NextLoop
  \/ ClearBuffer \/ ping_OVER_8B \/ PingStarts \/ PingEnds \/ ClearFlag \/ Trigger \/ Spin
  \/ TurnOff \/ ocxl_afu_close

Next == Program \/ AfuAnswers \/ (\E e \in Happenings : AfuCounts(e)) \/ Interrupt

\* The program runs on, and the AFU answers what it was asked.
Spec == Init /\ [][Next]_vars /\ WF_vars(Program) /\ WF_vars(AfuAnswers)

-------------------------------------------------------------------------------
TypeOK ==
  /\ opt \in CommandLines
  /\ reg.enable \subseteq 58 .. 63
  /\ count \in [Counters -> 0 .. Wrap - 1]
  /\ pending \in BOOLEAN /\ flag \in {0, 1} /\ flag_stop \in BOOLEAN
  /\ k \in 0 .. 7
  /\ handle \in {"none", "open", "closed"}
  /\ sample \in [Counters -> 0 .. Wrap - 1]
  /\ prev \in [Counters -> 0 .. Wrap - 1]
  /\ delta \in [Counters -> 0 .. Wrap - 1]
  /\ j \in 0 .. Wrap - 1
  /\ rc \in {"running", "illegal", "failed", "killed", "ok"}

\* Each "Curr Count" printed is what the AFU has counted since the reset, and
\* each "Count Diff." what it has counted between the two readings of that very
\* counter, with counters that wrap; and the total, which is read before its
\* parts, is never ahead of them, although the AFU goes on between the reads.
SamplesAreSound ==
  pc = "reported" =>
    /\ \A c \in Counters : /\ prev[c] = (seen[c] - zero[c]) % Wrap
                           /\ delta[c] = (seen[c] - seen_prev[c]) % Wrap
    /\ seen[1] <= seen[2] + seen[3]
    /\ seen[4] <= seen[5] + seen[6]

\* The AFU still runs as an earlier program has left it: until the first write of
\* ocxl_afp3_latency, and until the last of ocxl_afp3, which does not turn it off
\* and until then changes its registers under it, one after the other.
LeftRunning == foreign /\ (Bandwidth \/ reg.wed = Stale)

\* What the program sets: ocxl_afp3_latency writes no PASID at all, and the misc
\* register only for a ping of more than 8 bytes, so these stay as they are found.
Settings == {Writes[i] : i \in 1 .. Len(Writes)} \ {"control", "enable"}

\* The program never lets the AFU work before all that it sets is set, nor after
\* it has returned 0; and what it sets is what was asked for: parts of the work
\* element descriptor that give back the options, a part of the buffer that lies
\* inside it (unless a warning was printed), an extra read that "does not overlap
\* with MMIO Latency DMA Writes".
AfuRunsAsAsked ==
  /\ reg.enable # Off /\ ~LeftRunning =>
       /\ \A r \in Settings : reg[r] = Value[r]
       /\ reg.wed \div PAGE_BYTES = Pages
       /\ (reg.wed \div 512) % 8 = opt.tags_ld /\ (reg.wed \div 8) % 8 = opt.tags_st
       /\ (reg.wed \div 128) % 4 = Encoding(opt.size_ld)
       /\ (reg.wed \div 2) % 4 = Encoding(opt.size_st)
       /\ reg.bufmask < Pages \/ WarnsOfMask
       /\ 59 \in reg.enable => reg.extra_read_ea >= Buffer + opt.size_st
  /\ rc = "ok" => reg.enable = Off /\ handle = "closed" /\ ~pending

\* The answer to a ping is never taken for the answer to the next, nor lost:
\* each iteration that ocxl_afp3_latency reports was one ping and its answer,
\* none is under way when the AFU is turned off, and a signal, which may come at
\* any time, lets at most one more ping be sent.
PingsAreAnswered ==
  /\ pending => pc = "spin"
  /\ pc = "off" /\ ~Bandwidth /\ opt.size_ping = 8 => reported = pings /\ pings = pongs
  /\ late <= 1

\* Both programs end when the AFU answers: the flag that is polled without a
\* timeout is always set.
Terminates == <>(pc = "exit")

===============================================================================

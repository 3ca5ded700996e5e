------------------------------ MODULE CacheBench ------------------------------
(***************************************************************************)
(* The cache benchmark (zealcode/misc/bench: main.c and the process side   *)
(* of time.c).  A working set is read over and over: either for a number   *)
(* of seconds, until SIGALRM clears g_do_loop, or a number of times, in a  *)
(* forked child whose elapsed time the parent reports.                     *)
(*                                                                         *)
(* pc is where main stands.  A turn of a loop is one action; the signal    *)
(* handler may come between any two.  The build has no -O (Makefile), so   *)
(* g_do_loop is read from memory in every turn.                            *)
(***************************************************************************)
EXTENDS Integers

CONSTANTS
  Args,         \* the numbers an option may carry: what atoi and atoll return
  DEF_DURATION, DEF_SIZE, DEF_TIMES, DEF_STRIDE,
  KB,           \* bytes in a "kb" (1024)
  Align,        \* BENCH_ALIGN_MASK (32)
  IntKb,        \* kb in half the values of an int (2^31 bytes)
  Long, LongLong,   \* half the number of values of a long and of a long long
  Mapped,       \* bytes that can be read below work_set_ptr
  Million,      \* microseconds in a second
  MaxClock      \* bound of gettimeofday, in microseconds

Pos == Nat \ {0}

ASSUME BenchAssumption ==
  /\ Args \subseteq -LongLong .. LongLong - 1
  /\ {DEF_DURATION, DEF_SIZE, DEF_TIMES, DEF_STRIDE, KB, Align, IntKb, Long,
       LongLong, Million} \subseteq Pos
  /\ DEF_TIMES < LongLong /\ Long <= LongLong /\ Align < KB
  /\ {Mapped, MaxClock} \subseteq Nat

VARIABLES
  pc,       \* where main stands
  opt,      \* g_op_type, g_duration, g_buffer_size, g_stride
  times,    \* g_times of the parent
  tty,      \* stdout is a terminal (line buffered) or a file (fully buffered)
  sigchld,  \* the disposition of SIGCHLD the program was started with
  skew,     \* address of work_set modulo Align
  i, iter,  \* of do_cache_read
  at,       \* the offsets from work_set_ptr the last step has read
  passes,   \* history: how often the end of the working set was reached
  flag,     \* g_do_loop
  alarm,    \* the timer: off, armed, rung
  child,    \* the timed process: none, running, leaving, gone, killed
  left,     \* g_times of the child
  rounds,   \* history: rounds the child has read
  start, stop, elapsed,  \* of resource_t; stop is the second gettimeofday
  buf, out  \* how often a line is in stdout's buffer and in its file

mainVars == <<opt, times, skew, start, stop, elapsed>>
readVars == <<i, iter, passes>>
loopVars == <<flag, alarm>>
childVars == <<child, left, rounds>>
textVars == <<buf, out>>
worldVars == <<tty, sigchld>>
vars == <<pc, mainVars, readVars, at, loopVars, childVars, textVars, worldVars>>

DURATION == "duration"   \* LOOP_TYPE_DURATION
TIMES == "times"         \* LOOP_TYPE_TIMES
NoTime == [sec |-> 0, usec |-> -1]
Clock(t) == [sec |-> t \div Million, usec |-> t % Million]

(* Mutant: a counter not reduced to the width of a long. *)
SuccUnbounded(n) == n + 1

(* A signed counter wraps in a build without -O: a long, a long long. *)
Succ(n) == IF n = Long - 1 THEN -Long ELSE n + 1
Pred(n) == IF n = -LongLong THEN LongLong - 1 ELSE n - 1

(* BENCH_KB2BYTE is a product of ints: it keeps the lower bits of the size *)
Signed(n, half) == ((n + half) % (2 * half)) - half
Bytes == KB * Signed(opt.size, IntKb)

(* BENCH_GET_BYTE, and BEACH_ALIGN of an address *)
(* Mutant: no room for moving the pointer up. *)
BareBytes == Bytes
BENCH_GET_BYTE == Bytes + Align
BEACH_ALIGN(a) == (a + Align - 1) - ((a + Align - 1) % Align)

(* stdout: a terminal gets every line, a file what is flushed *)
Lines == {"usage", "cannot open", "no memory", "bucket", "test", "summ",
          "loop_times", "error waiting", "finish"}
Count(f, S) == [l \in Lines |-> f[l] + (IF l \in S THEN 1 ELSE 0)]
Say(S) == IF tty THEN out' = Count(out, S) /\ UNCHANGED buf
                 ELSE buf' = Count(buf, S) /\ UNCHANGED out
(* exit or return from main: stdio's buffers are written *)
SayAndExit(S) == /\ out' = [l \in Lines |-> out[l] + buf[l] + (IF l \in S THEN 1 ELSE 0)]
                 /\ buf' = [l \in Lines |-> 0]
                 /\ pc' = "ended"

Init ==
  /\ pc = "options"
  /\ opt = [op |-> "none", duration |-> 0, size |-> 0, stride |-> 0]
  /\ times = 0 /\ tty \in BOOLEAN /\ sigchld \in {"default", "ignored"}
  /\ skew = 0 /\ i = 0 /\ iter = 0 /\ at = {} /\ passes = 0
  /\ flag = 0 /\ alarm = "off"
  /\ child = "none" /\ left = 0 /\ rounds = 0
  /\ start = NoTime /\ stop = NoTime /\ elapsed = NoTime
  /\ buf = [l \in Lines |-> 0] /\ out = [l \in Lines |-> 0]

(* one turn of the getopt loop *)
ReadOption ==
  /\ pc = "options"
  /\ \/ \E f \in {"duration", "size", "stride"}, n \in Args :
          opt' = [opt EXCEPT ![f] = n] /\ UNCHANGED times
     \/ \E n \in Args : times' = n /\ UNCHANGED opt
     \/ \E t \in {DURATION, TIMES} : opt' = [opt EXCEPT !.op = t] /\ UNCHANGED times
  /\ UNCHANGED <<pc, skew, start, stop, elapsed, readVars, at, loopVars,
                 childVars, textVars, worldVars>>

(* no argument, -h or an unknown option *)
Usage ==
  /\ pc = "options"
  /\ SayAndExit({"usage"})
  /\ UNCHANGED <<mainVars, readVars, at, loopVars, childVars, worldVars>>

(* do_init: the ARM build may find no switch driver *)
InitFails ==
  /\ pc = "options"
  /\ SayAndExit({"cannot open"})
  /\ UNCHANGED <<mainVars, readVars, at, loopVars, childVars, worldVars>>

Or(n, default) == IF n = 0 THEN default ELSE n
(* Mutant: no default for the duration, and alarm (0) arms nothing. *)
BeginNoDuration ==
  /\ pc = "options"
  /\ opt' = [opt EXCEPT !.size = Or(@, DEF_SIZE), !.stride = Or(@, DEF_STRIDE)]
  /\ times' = Or(times, DEF_TIMES)
  /\ pc' = "alloc"
  /\ UNCHANGED <<skew, start, stop, elapsed, readVars, at, loopVars, childVars,
                 textVars, worldVars>>

(* the defaults of main *)
Begin ==
  /\ pc = "options"
  /\ opt' = [opt EXCEPT !.duration = Or(@, DEF_DURATION),
                        !.size = Or(@, DEF_SIZE), !.stride = Or(@, DEF_STRIDE)]
  /\ times' = Or(times, DEF_TIMES)
  /\ pc' = "alloc"
  /\ UNCHANGED <<skew, start, stop, elapsed, readVars, at, loopVars, childVars,
                 textVars, worldVars>>

(* beach_alloc, do_first_summ and warm_up, which reads the whole set once. *)
(* No malloc has room for a negative size, a huge one as a size_t.         *)
Alloc ==
  /\ pc = "alloc" /\ BENCH_GET_BYTE >= 0
  /\ skew' \in 0 .. Align - 1
  /\ Say({"bucket", "test"})
  /\ at' = 0 .. Bytes - 1
  /\ pc' = IF opt.op = DURATION THEN "arm" ELSE "fork"
  /\ UNCHANGED <<opt, times, start, stop, elapsed, readVars, loopVars, childVars, worldVars>>

AllocFails ==
  /\ pc = "alloc"
  /\ SayAndExit({"no memory"})
  /\ UNCHANGED <<mainVars, readVars, at, loopVars, childVars, worldVars>>

(* wake_me: alarm (0) would arm nothing, a negative number is a large one *)
WakeMe ==
  /\ pc = "arm"
  /\ alarm' = IF opt.duration # 0 THEN "armed" ELSE "off"
  /\ pc' = "flag"
  /\ UNCHANGED <<mainVars, readVars, at, flag, childVars, textVars, worldVars>>

StartLoop ==
  /\ pc = "flag"
  /\ flag' = 1 /\ i' = 0 /\ iter' = 0
  /\ pc' = "loop"
  /\ UNCHANGED <<mainVars, at, passes, alarm, childVars, textVars, worldVars>>

(* a turn of the endless loop *)
Turn ==
  LET k == IF i >= Bytes THEN 0 ELSE i IN
  /\ pc = "loop" /\ flag = 1 /\ k >= -Mapped
  /\ iter' = IF i >= Bytes THEN Succ(iter) ELSE iter
  /\ at' = {k}
  /\ i' = k + opt.stride
  /\ passes' = IF k + opt.stride >= Bytes THEN Succ(passes) ELSE passes
  /\ UNCHANGED <<pc, mainVars, loopVars, childVars, textVars, worldVars>>

(* a negative stride has led below the memory there is: SIGSEGV *)
Segfault ==
  /\ pc = "loop" /\ flag = 1 /\ i < -Mapped
  /\ pc' = "ended"
  /\ UNCHANGED <<mainVars, readVars, at, loopVars, childVars, textVars, worldVars>>

(* the loop left: g_times takes over iter, do_summ *)
LoopEnds ==
  /\ pc = "loop" /\ flag = 0
  /\ times' = iter
  /\ Say({"summ", "loop_times"})
  /\ pc' = "finish"
  /\ UNCHANGED <<opt, skew, start, stop, elapsed, readVars, at, loopVars, childVars, worldVars>>

(* report, the handler of SIGALRM, between any two steps of main *)
Alarm ==
  /\ alarm = "armed" /\ pc # "ended"
  /\ alarm' = "rung" /\ flag' = 0
  /\ UNCHANGED <<pc, mainVars, readVars, at, childVars, textVars, worldVars>>

(* run_command *)
Fork ==
  /\ pc = "fork"
  /\ \E t \in 0 .. MaxClock : start' = Clock(t)
  /\ child' = "running" /\ left' = times /\ rounds' = 0
  /\ pc' = "wait"
  /\ UNCHANGED <<opt, times, skew, stop, elapsed, readVars, at, loopVars, textVars, worldVars>>

ForkFails ==
  /\ pc = "fork"
  /\ SayAndExit({})
  /\ UNCHANGED <<mainVars, readVars, at, loopVars, childVars, worldVars>>

(* Mutant: do ... while (--g_times). *)
ChildRoundShort ==
  /\ child = "running" /\ (Bytes = 0 \/ opt.stride > 0)
  /\ at' = {k \in 0 .. Bytes - 1 : k % opt.stride = 0}
  /\ rounds' = rounds + 1
  /\ left' = Pred(left)
  /\ child' = IF left' = 0 THEN "leaving" ELSE "running"
  /\ UNCHANGED <<pc, mainVars, readVars, loopVars, textVars, worldVars>>

(* a round of do ... while (g_times--), over the child's own g_times *)
ChildRound ==
  /\ child = "running" /\ (Bytes = 0 \/ opt.stride > 0)
  /\ at' = {k \in 0 .. Bytes - 1 : k % opt.stride = 0}
  /\ rounds' = rounds + 1
  /\ left' = Pred(left)
  /\ child' = IF left = 0 THEN "leaving" ELSE "running"
  /\ UNCHANGED <<pc, mainVars, readVars, loopVars, textVars, worldVars>>

(* with a negative stride, i < size holds until SIGSEGV *)
ChildSegfault ==
  /\ child = "running" /\ Bytes > 0 /\ opt.stride < 0
  /\ at' = {k \in -Mapped .. 0 : k % (-opt.stride) = 0}
  /\ child' = "killed"
  /\ UNCHANGED <<pc, mainVars, readVars, loopVars, left, rounds, textVars, worldVars>>

(* Mutant: the child leaves by exit, which writes its copy of the buffer. *)
ChildExitFlushes ==
  /\ child = "leaving"
  /\ child' = "gone"
  /\ out' = [l \in Lines |-> out[l] + buf[l]]
  /\ UNCHANGED <<pc, mainVars, readVars, at, loopVars, left, rounds, buf, worldVars>>

(* _exit: the copy of the parent's buffer is dropped *)
ChildExits ==
  /\ child = "leaving"
  /\ child' = "gone"
  /\ UNCHANGED <<pc, mainVars, readVars, at, loopVars, left, rounds, textVars, worldVars>>

ChildKilled ==
  /\ child \in {"running", "leaving"}
  /\ child' = "killed"
  /\ UNCHANGED <<pc, mainVars, readVars, at, loopVars, left, rounds, textVars, worldVars>>

(* Mutant: the carry forgotten. *)
SinceNoCarry(a, b) == [sec |-> b.sec - a.sec, usec |-> b.usec - a.usec]

(* the time from a to b, with the carry of resuse_end *)
Since(a, b) ==
  IF b.usec < a.usec
  THEN [sec |-> b.sec - a.sec - 1, usec |-> b.usec + Million - a.usec]
  ELSE [sec |-> b.sec - a.sec, usec |-> b.usec - a.usec]

Later(a, b) == a.sec < b.sec \/ (a.sec = b.sec /\ a.usec <= b.usec)

(* resuse_end, and the summary on stderr *)
ChildReaped ==
  /\ pc = "wait" /\ child \in {"gone", "killed"} /\ sigchld = "default"
  /\ \E t \in 0 .. MaxClock : stop' = Clock(t)
  /\ Later(start, stop')
  /\ elapsed' = Since(start, stop')
  /\ pc' = "finish"
  /\ UNCHANGED <<opt, times, skew, start, readVars, at, loopVars, childVars, textVars, worldVars>>

(* with SIGCHLD ignored, wait3 fails once the child has ended; elapsed is *)
(* summarized as it was                                                   *)
WaitFails ==
  /\ pc = "wait" /\ child \in {"gone", "killed"} /\ sigchld = "ignored"
  /\ Say({"error waiting"})
  /\ pc' = "finish"
  /\ UNCHANGED <<mainVars, readVars, at, loopVars, childVars, worldVars>>

(* beach_free, do_exit and the return from main *)
Finish ==
  /\ pc = "finish"
  /\ SayAndExit({"finish"})
  /\ UNCHANGED <<mainVars, readVars, at, loopVars, childVars, worldVars>>

Rests == pc = "ended" /\ UNCHANGED vars

MainStep ==
  \/ Usage \/ InitFails \/ Begin \/ Alloc \/ AllocFails \/ WakeMe \/ StartLoop
  \/ Turn \/ Segfault \/ LoopEnds \/ Fork \/ ForkFails \/ ChildReaped \/ WaitFails \/ Finish
ChildStep == ChildRound \/ ChildSegfault \/ ChildExits
Next == ReadOption \/ MainStep \/ ChildStep \/ ChildKilled \/ Alarm \/ Rests

(* The command line ends, both processes run, an armed timer expires.  The *)
(* other turns of the option loop and kills are not promised.             *)
Spec == Init /\ [][Next]_vars /\ WF_vars(MainStep) /\ WF_vars(ChildStep) /\ WF_vars(Alarm)
-------------------------------------------------------------------------------
Time == [sec : Int, usec : -1 .. Million - 1]

(* Types of the program's variables: the counters stay within the width of *)
(* a long and of a long long.                                               *)
TypeOK ==
  /\ pc \in {"options", "alloc", "arm", "flag", "loop", "fork", "wait", "finish", "ended"}
  /\ opt \in [op : {"none", DURATION, TIMES}, duration : Int, size : Int, stride : Int]
  /\ times \in -LongLong .. LongLong - 1
  /\ tty \in BOOLEAN /\ sigchld \in {"default", "ignored"}
  /\ skew \in 0 .. Align - 1 /\ i \in Int /\ at \subseteq Int
  /\ iter \in -Long .. Long - 1 /\ passes \in -Long .. Long - 1
  /\ flag \in {0, 1} /\ alarm \in {"off", "armed", "rung"}
  /\ child \in {"none", "running", "leaving", "gone", "killed"}
  /\ left \in -LongLong .. LongLong - 1 /\ rounds \in Nat
  /\ {start, stop, elapsed} \subseteq Time
  /\ buf \in [Lines -> Nat] /\ out \in [Lines -> Nat]

(* Every byte read lies inside the block malloc returned, wherever malloc   *)
(* put it, although work_set_ptr is moved up to the next multiple of the    *)
(* cache line, the strides need not divide the size and the size wraps at   *)
(* the width of an int (main.c 85-95, 120-134, 171-176).  The one way out   *)
(* is a negative stride, which nothing rejects (220): it reads downwards    *)
(* from the start of the working set.                                       *)
InBuffer ==
  \A k \in at :
    \/ k >= 0 /\ BEACH_ALIGN(skew) + k < skew + BENCH_GET_BYTE
    \/ k < 0 /\ opt.stride < 0

(* The number printed as loop_times is the number of times the whole set    *)
(* was read, or one less when the alarm came between the last read of a     *)
(* pass and the test that counts it (main.c 120-129); a negative stride     *)
(* makes no passes.  A child that left by itself has read the set one time  *)
(* more than g_times says (134); a negative g_times, which nothing rejects  *)
(* (226), stands for a round more than that for every value of a long long. *)
RoundsCounted ==
  /\ pc = "finish" /\ opt.op = DURATION /\ opt.stride > 0
       => passes \in {times, Succ(times)}
  /\ child = "gone" => rounds = times + 1 + (IF times < 0 THEN 2 * LongLong ELSE 0)

(* No line appears twice in the output, although the child starts with a    *)
(* copy of what the parent has not written yet: it leaves by _exit          *)
(* (time.c 401).                                                            *)
LinesOnce == \A l \in Lines : out[l] <= 1

(* What is summarized as the elapsed time is the time between the two       *)
(* readings of the clock, with microseconds in range whatever the carry     *)
(* (time.c 66-74); only after a failed wait, which was reported, it is not. *)
ElapsedRight ==
  pc = "finish" /\ opt.op # DURATION =>
    IF elapsed = NoTime THEN out["error waiting"] + buf["error waiting"] = 1
    ELSE /\ elapsed.usec \in 0 .. Million - 1
         /\ elapsed.sec * Million + elapsed.usec
              = (stop.sec * Million + stop.usec) - (start.sec * Million + start.usec)

(* The alarm that came before g_do_loop was set (main.c 118, 148): nothing  *)
(* will end the loop.                                                       *)
AlarmLost == pc = "loop" /\ flag = 1 /\ alarm = "rung"

(* A negative number of rounds counts down and away from 0 (main.c 134,     *)
(* 226): the loop ends when a long long has wrapped round, after 2^64       *)
(* rounds or nearly so, which no user waits for.                            *)
CountsDown == child = "running" /\ left < 0

(* The benchmark ends, killed child or not, failing wait or not, whatever   *)
(* the options; the only ways round are the lost alarm and the negative     *)
(* number of rounds.                                                        *)
BenchEnds == <>(pc = "ended" \/ AlarmLost \/ CountsDown)
===============================================================================

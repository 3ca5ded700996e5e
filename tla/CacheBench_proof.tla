--------------------------- MODULE CacheBench_proof ---------------------------
(***************************************************************************)
(* Proofs about the cache benchmark, for every size of buffer, cache line  *)
(* and counter, every option value and every reading of the clock; and, in *)
(* the second part, about the access to the switch chip that main starts   *)
(* and ends with (do_init and do_exit call vtss_vit_init and               *)
(* vtss_vit_exit), for every set of ports and every value of a field.      *)
(***************************************************************************)
EXTENDS CacheBench, Switch, TLAPS

\* What main has settled at each point: the options, the working set, the loop.
PlaceInv ==
  /\ pc \notin {"options", "ended"} => opt.stride # 0
  /\ pc \in {"arm", "flag", "loop", "fork", "wait"} => Bytes >= 0
  /\ pc \in {"arm", "flag", "loop"} => opt.op = DURATION
  /\ pc \in {"fork", "wait"} => opt.op # DURATION
  /\ child \in {"running", "leaving"} => pc = "wait"
  /\ pc = "loop" /\ opt.stride > 0 => i >= 0

\* An offset reads have gone to: in the working set, at its start, which has
\* room for a byte even if the set has none, or below it.
Reached(k) ==
  \/ k = 0 /\ Bytes >= 0
  \/ 0 < k /\ k < Bytes
  \/ k < 0 /\ opt.stride < 0

\* Where reads may have gone.
ReadInv ==
  /\ pc \in {"options", "alloc"} => at = {}
  /\ \A k \in at : Reached(k)

\* The passes begun and counted, and the rounds the child has left.
CountInv ==
  /\ pc \in {"options", "alloc", "arm", "flag"} => passes = 0
  /\ pc = "loop" /\ opt.stride > 0
       => passes = (IF Bytes > 0 /\ i >= Bytes THEN Succ(iter) ELSE iter)
  /\ pc \notin {"wait", "finish", "ended"} => child = "none"
  /\ child = "running" => \/ left <= times /\ rounds = times - left
                          \/ /\ times < 0 /\ left >= 0
                             /\ rounds = times - left + 2 * LongLong
  /\ child = "running" /\ times >= 0 => left >= 0
  /\ child \in {"leaving", "gone"} =>
       rounds = times + 1 + (IF times < 0 THEN 2 * LongLong ELSE 0)
  /\ RoundsCounted

\* The lines that may have been written when main stands at p.
Said(p) ==
  CASE p \in {"options", "alloc"} -> {}
    [] p \in {"arm", "flag", "loop", "fork", "wait"} -> {"bucket", "test"}
    [] p = "finish" -> {"bucket", "test", "summ", "loop_times", "error waiting"}
    [] OTHER -> Lines

LineInv == \A l \in Lines : out[l] + buf[l] <= (IF l \in Said(pc) THEN 1 ELSE 0)

\* The clock's readings.
ClockInv ==
  /\ pc = "wait" => start.usec >= 0
  /\ pc \notin {"finish", "ended"} => elapsed = NoTime
  /\ ElapsedRight

IInv == TypeOK /\ PlaceInv /\ ReadInv /\ CountInv /\ LineInv /\ ClockInv

USE DEF DURATION, TIMES, Pos

\* The next value of a counter is a value of it, and so is the one before.
LEMMA SuccType == ASSUME NEW n \in -Long .. Long - 1 PROVE Succ(n) \in -Long .. Long - 1
  BY BenchAssumption DEF Succ

LEMMA PredType ==
  ASSUME NEW n \in -LongLong .. LongLong - 1 PROVE Pred(n) \in -LongLong .. LongLong - 1
  BY BenchAssumption DEF Pred

\* The bytes of a working set are an integer, and none of them are negative if
\* the block with room for the alignment is not.
LEMMA BytesInt == ASSUME TypeOK
                  PROVE  Bytes \in Int /\ (BENCH_GET_BYTE >= 0 => Bytes >= 0)
<1> DEFINE u == Signed(opt.size, IntKb)
<1>1. opt.size \in Int /\ KB \in Nat /\ KB >= 1 /\ Align \in Nat /\ Align < KB
  BY BenchAssumption DEF TypeOK
<1>2. \A n \in Int, h \in Nat \ {0} : ((n + h) % (2 * h)) - h \in Int
  OBVIOUS
<1>3. IntKb \in Nat \ {0}
  BY BenchAssumption
<1>4. u \in Int
  BY <1>1, <1>2, <1>3 DEF Signed
<1>5. Bytes = KB * u
  BY DEF Bytes
<1> HIDE DEF u
<1>6. Bytes \in Int
  BY <1>1, <1>4, <1>5
<1>7. ASSUME Bytes + Align >= 0 PROVE Bytes >= 0
  <2>1. \A x \in Nat, y \in Int : y <= -1 => x * y <= -x
    OBVIOUS
  <2>2. \A x \in Nat, y \in Int : y >= 0 => x * y >= 0
    OBVIOUS
  <2>3. CASE u >= 0
    BY <1>1, <1>4, <1>5, <2>2, <2>3
  <2>4. CASE u <= -1
    BY <1>1, <1>4, <1>5, <1>6, <1>7, <2>1, <2>4
  <2> QED
    BY <1>4, <2>3, <2>4
<1> QED
  BY <1>6, <1>7 DEF BENCH_GET_BYTE

\* A reading of the clock has its microseconds in range.
LEMMA ClockType == ASSUME NEW t \in Nat
                   PROVE  Clock(t) \in [sec : Int, usec : 0 .. Million - 1]
  BY BenchAssumption DEF Clock

\* The time from one reading to another, whatever the carry.
LEMMA SinceRight ==
  ASSUME NEW a \in [sec : Int, usec : 0 .. Million - 1],
         NEW b \in [sec : Int, usec : 0 .. Million - 1]
  PROVE  /\ Since(a, b) \in [sec : Int, usec : 0 .. Million - 1]
         /\ Since(a, b).sec * Million + Since(a, b).usec
              = (b.sec * Million + b.usec) - (a.sec * Million + a.usec)
<1>1. Million \in Nat /\ Million >= 1
  BY BenchAssumption
<1>2. \A x, y, m \in Int : /\ (x - y - 1) * m = x * m - y * m - m
                           /\ (x - y) * m = x * m - y * m
                           /\ x * m \in Int
  OBVIOUS
<1>3. CASE b.usec < a.usec
  <2>1. Since(a, b) = [sec |-> b.sec - a.sec - 1, usec |-> b.usec + Million - a.usec]
    BY <1>3 DEF Since
  <2>2. (b.sec - a.sec - 1) * Million = b.sec * Million - a.sec * Million - Million
    BY <1>1, <1>2
  <2>3. b.sec * Million \in Int /\ a.sec * Million \in Int
    BY <1>1, <1>2
  <2> QED
    BY <1>1, <1>3, <2>1, <2>2, <2>3
<1>4. CASE ~(b.usec < a.usec)
  <2>1. Since(a, b) = [sec |-> b.sec - a.sec, usec |-> b.usec - a.usec]
    BY <1>4 DEF Since
  <2>2. (b.sec - a.sec) * Million = b.sec * Million - a.sec * Million
    BY <1>1, <1>2
  <2>3. b.sec * Million \in Int /\ a.sec * Million \in Int
    BY <1>1, <1>2
  <2> QED
    BY <1>1, <1>4, <2>1, <2>2, <2>3
<1> QED
  BY <1>3, <1>4

\* Output goes to the terminal or to the buffer; in sum every line of S is
\* one more.
LEMMA SayAdds ==
  ASSUME NEW S \in SUBSET Lines, TypeOK, Say(S)
  PROVE  /\ out' \in [Lines -> Nat] /\ buf' \in [Lines -> Nat]
         /\ \A l \in Lines : out'[l] + buf'[l] = out[l] + buf[l] + (IF l \in S THEN 1 ELSE 0)
<1> USE DEF TypeOK, Say, Count
<1>1. CASE tty
  BY <1>1
<1>2. CASE ~tty
  BY <1>2
<1> QED
  BY <1>1, <1>2

\* The end of the program writes what is left.
LEMMA ExitAdds ==
  ASSUME NEW S \in SUBSET Lines, TypeOK, SayAndExit(S)
  PROVE  /\ out' \in [Lines -> Nat] /\ buf' \in [Lines -> Nat] /\ pc' = "ended"
         /\ \A l \in Lines : out'[l] + buf'[l] = out[l] + buf[l] + (IF l \in S THEN 1 ELSE 0)
  BY DEF TypeOK, SayAndExit

\* Every initial state satisfies the inductive invariant.
LEMMA InitInv == Init => IInv
<1> SUFFICES ASSUME Init PROVE IInv
  OBVIOUS
<1>1. /\ 0 \in -Long .. Long - 1 /\ 0 \in -LongLong .. LongLong - 1
      /\ 0 \in 0 .. Align - 1 /\ -1 \in -1 .. Million - 1
  BY BenchAssumption
<1>2. TypeOK
  BY <1>1 DEF Init, TypeOK, NoTime, Time
<1>3. LineInv
  BY DEF Init, LineInv, Said
<1> QED
  BY <1>2, <1>3 DEF Init, IInv, PlaceInv, ReadInv, CountInv, RoundsCounted, ClockInv, ElapsedRight

USE DEF mainVars, readVars, loopVars, childVars, textVars, worldVars

\* Every step keeps the variables in their types.
LEMMA TypeStep == IInv /\ [Next]_vars => TypeOK'
<1> SUFFICES ASSUME IInv, [Next]_vars PROVE TypeOK'
  OBVIOUS
<1> USE DEF IInv, TypeOK, PlaceInv, Time
<1>1. CASE ReadOption
  <2>1. CASE \E f \in {"duration", "size", "stride"}, n \in Args :
                opt' = [opt EXCEPT ![f] = n] /\ UNCHANGED times
    BY <1>1, <2>1, BenchAssumption DEF ReadOption
  <2>2. CASE ~\E f \in {"duration", "size", "stride"}, n \in Args :
                 opt' = [opt EXCEPT ![f] = n] /\ UNCHANGED times
    BY <1>1, <2>2, BenchAssumption DEF ReadOption
  <2> QED
    BY <2>1, <2>2
<1>2. CASE Usage
  <2>1. SayAndExit({"usage"}) /\ {"usage"} \in SUBSET Lines
    BY <1>2 DEF Usage, Lines
  <2>2. /\ out' \in [Lines -> Nat] /\ buf' \in [Lines -> Nat] /\ pc' = "ended"
        /\ \A l \in Lines :
             out'[l] + buf'[l] = out[l] + buf[l] + (IF l \in {"usage"} THEN 1 ELSE 0)
    BY <2>1, ExitAdds
  <2> QED
    BY <1>2, <2>2 DEF Usage
<1>3. CASE InitFails
  <2>1. SayAndExit({"cannot open"}) /\ {"cannot open"} \in SUBSET Lines
    BY <1>3 DEF InitFails, Lines
  <2>2. /\ out' \in [Lines -> Nat] /\ buf' \in [Lines -> Nat] /\ pc' = "ended"
        /\ \A l \in Lines :
             out'[l] + buf'[l] = out[l] + buf[l] + (IF l \in {"cannot open"} THEN 1 ELSE 0)
    BY <2>1, ExitAdds
  <2> QED
    BY <1>3, <2>2 DEF InitFails
<1>4. CASE Begin
  <2>1. /\ DEF_TIMES \in -LongLong .. LongLong - 1
        /\ DEF_DURATION \in Int /\ DEF_SIZE \in Int /\ DEF_STRIDE \in Int
    BY BenchAssumption
  <2>2. /\ Or(times, DEF_TIMES) \in -LongLong .. LongLong - 1
        /\ Or(opt.duration, DEF_DURATION) \in Int /\ Or(opt.size, DEF_SIZE) \in Int
        /\ Or(opt.stride, DEF_STRIDE) \in Int
    BY <2>1 DEF Or
  <2>3. opt' \in [op : {"none", DURATION, TIMES}, duration : Int, size : Int, stride : Int]
    BY <1>4, <2>2 DEF Begin
  <2> QED
    BY <1>4, <2>2, <2>3 DEF Begin
<1>5. CASE Alloc
  <2>1. Say({"bucket", "test"}) /\ {"bucket", "test"} \in SUBSET Lines
    BY <1>5 DEF Alloc, Lines
  <2>2. /\ out' \in [Lines -> Nat] /\ buf' \in [Lines -> Nat]
        /\ \A l \in Lines :
             out'[l] + buf'[l] = out[l] + buf[l] + (IF l \in {"bucket", "test"} THEN 1 ELSE 0)
    BY <2>1, SayAdds
  <2>3. at' \subseteq Int
    BY <1>5, BytesInt DEF Alloc
  <2> QED
    BY <1>5, <2>2, <2>3 DEF Alloc
<1>6. CASE AllocFails
  <2>1. SayAndExit({"no memory"}) /\ {"no memory"} \in SUBSET Lines
    BY <1>6 DEF AllocFails, Lines
  <2>2. /\ out' \in [Lines -> Nat] /\ buf' \in [Lines -> Nat] /\ pc' = "ended"
        /\ \A l \in Lines :
             out'[l] + buf'[l] = out[l] + buf[l] + (IF l \in {"no memory"} THEN 1 ELSE 0)
    BY <2>1, ExitAdds
  <2> QED
    BY <1>6, <2>2 DEF AllocFails
<1>7. CASE WakeMe
  BY <1>7 DEF WakeMe
<1>8. CASE StartLoop
  BY <1>8, BenchAssumption DEF StartLoop
<1>9. CASE Turn
  <2>1. iter' \in -Long .. Long - 1 /\ passes' \in -Long .. Long - 1
    BY <1>9, SuccType DEF Turn
  <2>2. at' \subseteq Int /\ i' \in Int
    BY <1>9 DEF Turn
  <2> QED
    BY <1>9, <2>1, <2>2 DEF Turn
<1>10. CASE LoopEnds
  <2>3. times' \in -LongLong .. LongLong - 1
    BY <1>10, BenchAssumption DEF LoopEnds
  <2>1. Say({"summ", "loop_times"}) /\ {"summ", "loop_times"} \in SUBSET Lines
    BY <1>10 DEF LoopEnds, Lines
  <2>2. /\ out' \in [Lines -> Nat] /\ buf' \in [Lines -> Nat]
        /\ \A l \in Lines :
             out'[l] + buf'[l] = out[l] + buf[l] + (IF l \in {"summ", "loop_times"} THEN 1 ELSE 0)
    BY <2>1, SayAdds
  <2> QED
    BY <1>10, <2>2, <2>3 DEF LoopEnds
<1>11. CASE Fork
  <2>1. start' \in Time
    BY <1>11, ClockType, BenchAssumption DEF Fork
  <2> QED
    BY <1>11, <2>1 DEF Fork
<1>12. CASE ForkFails
  <2>1. SayAndExit({}) /\ {} \in SUBSET Lines
    BY <1>12 DEF ForkFails, Lines
  <2>2. /\ out' \in [Lines -> Nat] /\ buf' \in [Lines -> Nat] /\ pc' = "ended"
        /\ \A l \in Lines :
             out'[l] + buf'[l] = out[l] + buf[l] + (IF l \in {} THEN 1 ELSE 0)
    BY <2>1, ExitAdds
  <2> QED
    BY <1>12, <2>2 DEF ForkFails
<1>13. CASE ChildReaped
  <2>1. stop' \in [sec : Int, usec : 0 .. Million - 1]
    BY <1>13, ClockType, BenchAssumption DEF ChildReaped
  <2>2. start \in [sec : Int, usec : 0 .. Million - 1]
    BY <1>13 DEF ChildReaped, ClockInv
  <2>3. elapsed' \in [sec : Int, usec : 0 .. Million - 1]
    BY <1>13, <2>1, <2>2, SinceRight DEF ChildReaped
  <2> QED
    BY <1>13, <2>1, <2>3 DEF ChildReaped
<1>14. CASE WaitFails
  <2>1. Say({"error waiting"}) /\ {"error waiting"} \in SUBSET Lines
    BY <1>14 DEF WaitFails, Lines
  <2>2. /\ out' \in [Lines -> Nat] /\ buf' \in [Lines -> Nat]
        /\ \A l \in Lines :
             out'[l] + buf'[l] = out[l] + buf[l] + (IF l \in {"error waiting"} THEN 1 ELSE 0)
    BY <2>1, SayAdds
  <2> QED
    BY <1>14, <2>2 DEF WaitFails
<1>15. CASE Finish
  <2>1. SayAndExit({"finish"}) /\ {"finish"} \in SUBSET Lines
    BY <1>15 DEF Finish, Lines
  <2>2. /\ out' \in [Lines -> Nat] /\ buf' \in [Lines -> Nat] /\ pc' = "ended"
        /\ \A l \in Lines :
             out'[l] + buf'[l] = out[l] + buf[l] + (IF l \in {"finish"} THEN 1 ELSE 0)
    BY <2>1, ExitAdds
  <2> QED
    BY <1>15, <2>2 DEF Finish
<1>16. CASE ChildRound
  <2>1. left' \in -LongLong .. LongLong - 1 /\ at' \subseteq Int
    BY <1>16, PredType DEF ChildRound
  <2> QED
    BY <1>16, <2>1 DEF ChildRound
<1>17. CASE ChildExits
  BY <1>17 DEF ChildExits
<1>18. CASE ChildKilled
  BY <1>18 DEF ChildKilled
<1>19. CASE Alarm
  BY <1>19 DEF Alarm
<1>20. CASE UNCHANGED vars
  BY <1>20 DEF vars
<1>21. CASE Segfault
  BY <1>21 DEF Segfault
<1>22. CASE ChildSegfault
  BY <1>22 DEF ChildSegfault
<1> QED
  BY <1>1, <1>2, <1>3, <1>4, <1>5, <1>6, <1>7, <1>8, <1>9, <1>10, <1>11, <1>12, <1>13,
     <1>14, <1>15, <1>16, <1>17, <1>18, <1>19, <1>20, <1>21, <1>22
  DEF Next, MainStep, ChildStep, Rests

\* Main settles the options before it reaches a loop.
LEMMA PlaceStep == IInv /\ [Next]_vars => PlaceInv'
<1> SUFFICES ASSUME IInv, [Next]_vars PROVE PlaceInv'
  OBVIOUS
<1> USE DEF IInv, TypeOK, PlaceInv
<1>0. opt' = opt => Bytes' = Bytes
  BY DEF Bytes
<1>1. CASE ReadOption
  BY <1>1 DEF ReadOption
<1>2. CASE Usage
  BY <1>2 DEF Usage, SayAndExit
<1>3. CASE InitFails
  BY <1>3 DEF InitFails, SayAndExit
<1>4. CASE Begin
  BY <1>4, BenchAssumption DEF Begin, Or
<1>5. CASE Alloc
  BY <1>0, <1>5, BytesInt DEF Alloc
<1>6. CASE AllocFails
  BY <1>6 DEF AllocFails, SayAndExit
<1>7. CASE WakeMe
  BY <1>0, <1>7 DEF WakeMe
<1>8. CASE StartLoop
  BY <1>0, <1>8 DEF StartLoop
<1>9. CASE Turn
  BY <1>0, <1>9 DEF Turn
<1>10. CASE LoopEnds
  BY <1>0, <1>10 DEF LoopEnds
<1>11. CASE Fork
  BY <1>0, <1>11 DEF Fork
<1>12. CASE ForkFails
  BY <1>12 DEF ForkFails, SayAndExit
<1>13. CASE ChildReaped
  BY <1>0, <1>13 DEF ChildReaped
<1>14. CASE WaitFails
  BY <1>0, <1>14 DEF WaitFails
<1>15. CASE Finish
  BY <1>15 DEF Finish, SayAndExit
<1>16. CASE ChildRound
  BY <1>0, <1>16 DEF ChildRound
<1>17. CASE ChildExits
  BY <1>0, <1>17 DEF ChildExits
<1>18. CASE ChildKilled
  BY <1>0, <1>18 DEF ChildKilled
<1>19. CASE Alarm
  BY <1>0, <1>19 DEF Alarm
<1>20. CASE UNCHANGED vars
  BY <1>0, <1>20 DEF vars
<1>21. CASE Segfault
  BY <1>21 DEF Segfault
<1>22. CASE ChildSegfault
  BY <1>0, <1>22 DEF ChildSegfault
<1> QED
  BY <1>1, <1>2, <1>3, <1>4, <1>5, <1>6, <1>7, <1>8, <1>9, <1>10, <1>11, <1>12, <1>13,
     <1>14, <1>15, <1>16, <1>17, <1>18, <1>19, <1>20, <1>21, <1>22
  DEF Next, MainStep, ChildStep, Rests

\* Reads stay in the working set.
LEMMA ReadStep == IInv /\ [Next]_vars => ReadInv'
<1> SUFFICES ASSUME IInv, [Next]_vars PROVE ReadInv'
  OBVIOUS
<1> USE DEF IInv, TypeOK, PlaceInv, ReadInv
<1> USE DEF Reached
<1>0. opt' = opt => Bytes' = Bytes
  BY DEF Bytes
<1>1. CASE ReadOption
  BY <1>1 DEF ReadOption
<1>2. CASE Usage
  BY <1>0, <1>2 DEF Usage, SayAndExit
<1>3. CASE InitFails
  BY <1>0, <1>3 DEF InitFails, SayAndExit
<1>4. CASE Begin
  BY <1>4 DEF Begin
<1>5. CASE Alloc
  <2>1. at' = 0 .. Bytes - 1 /\ Bytes' = Bytes /\ Bytes \in Int /\ Bytes >= 0
    BY <1>0, <1>5, BytesInt DEF Alloc
  <2>2. \A k \in at' : k \in Int /\ 0 <= k /\ k < Bytes'
    BY <2>1
  <2> QED
    BY <1>5, <2>1, <2>2 DEF Alloc
<1>6. CASE AllocFails
  BY <1>0, <1>6 DEF AllocFails, SayAndExit
<1>7. CASE WakeMe
  BY <1>0, <1>7 DEF WakeMe
<1>8. CASE StartLoop
  BY <1>0, <1>8 DEF StartLoop
<1>9. CASE Turn
  <2>1. Bytes' = Bytes /\ opt' = opt /\ Bytes \in Int /\ Bytes >= 0
    BY <1>0, <1>9, BytesInt DEF Turn
  <2>2. \A k \in at' : k = IF i >= Bytes THEN 0 ELSE i
    BY <1>9 DEF Turn
  <2>3. opt.stride > 0 => i >= 0
    BY <1>9 DEF Turn
  <2>4. opt.stride \in Int /\ opt.stride # 0
    BY <1>9 DEF Turn
  <2> QED
    BY <1>9, <2>1, <2>2, <2>3, <2>4 DEF Turn
<1>10. CASE LoopEnds
  BY <1>0, <1>10 DEF LoopEnds
<1>11. CASE Fork
  BY <1>0, <1>11 DEF Fork
<1>12. CASE ForkFails
  BY <1>0, <1>12 DEF ForkFails, SayAndExit
<1>13. CASE ChildReaped
  BY <1>0, <1>13 DEF ChildReaped
<1>14. CASE WaitFails
  BY <1>0, <1>14 DEF WaitFails
<1>15. CASE Finish
  BY <1>0, <1>15 DEF Finish, SayAndExit
<1>16. CASE ChildRound
  <2>1. Bytes' = Bytes /\ Bytes \in Int /\ pc' = pc /\ pc = "wait"
    BY <1>0, <1>16, BytesInt DEF ChildRound
  <2>2. \A k \in at' : k \in Int /\ 0 <= k /\ k < Bytes'
    BY <1>16, <2>1 DEF ChildRound
  <2> QED
    BY <2>1, <2>2
<1>17. CASE ChildExits
  BY <1>0, <1>17 DEF ChildExits
<1>18. CASE ChildKilled
  BY <1>0, <1>18 DEF ChildKilled
<1>19. CASE Alarm
  BY <1>0, <1>19 DEF Alarm
<1>21. CASE Segfault
  BY <1>0, <1>21 DEF Segfault
<1>22. CASE ChildSegfault
  <2>1. opt' = opt /\ Bytes' = Bytes /\ Bytes > 0 /\ pc' = pc /\ pc = "wait"
    BY <1>0, <1>22 DEF ChildSegfault
  <2>2. \A k \in at' : k \in Int /\ k <= 0
    BY <1>22, BenchAssumption DEF ChildSegfault
  <2>3. opt.stride < 0
    BY <1>22 DEF ChildSegfault
  <2>4. Bytes \in Int
    BY BytesInt
  <2> QED
    BY <2>1, <2>2, <2>3, <2>4
<1>20. CASE UNCHANGED vars
  BY <1>0, <1>20 DEF vars
<1> QED
  BY <1>1, <1>2, <1>3, <1>4, <1>5, <1>6, <1>7, <1>8, <1>9, <1>10, <1>11, <1>12, <1>13,
     <1>14, <1>15, <1>16, <1>17, <1>18, <1>19, <1>20, <1>21, <1>22
  DEF Next, MainStep, ChildStep, Rests

\* Passes and rounds are counted as they are read.
LEMMA CountStep == IInv /\ [Next]_vars => CountInv'
<1> SUFFICES ASSUME IInv, [Next]_vars PROVE CountInv'
  OBVIOUS
<1> USE DEF IInv, TypeOK, PlaceInv, CountInv, RoundsCounted
<1>0. opt' = opt => Bytes' = Bytes
  BY DEF Bytes
<1>1. CASE ReadOption
  BY <1>0, <1>1 DEF ReadOption
<1>2. CASE Usage
  BY <1>0, <1>2 DEF Usage, SayAndExit
<1>3. CASE InitFails
  BY <1>0, <1>3 DEF InitFails, SayAndExit
<1>4. CASE Begin
  BY <1>0, <1>4 DEF Begin
<1>5. CASE Alloc
  BY <1>0, <1>5 DEF Alloc
<1>6. CASE AllocFails
  BY <1>0, <1>6 DEF AllocFails, SayAndExit
<1>7. CASE WakeMe
  BY <1>0, <1>7 DEF WakeMe
<1>8. CASE StartLoop
  BY <1>0, <1>8, BytesInt DEF StartLoop
<1>9. CASE Turn
  <2>1. Bytes' = Bytes /\ opt' = opt /\ Bytes \in Int /\ Bytes >= 0
    BY <1>0, <1>9, BytesInt DEF Turn
  <2>2. CASE opt.stride > 0
    <3>1. passes = (IF Bytes > 0 /\ i >= Bytes THEN Succ(iter) ELSE iter) /\ i \in Int /\ i >= 0
      BY <1>9, <2>2 DEF Turn
    <3>2. passes' = (IF Bytes' > 0 /\ i' >= Bytes' THEN Succ(iter') ELSE iter')
      BY <1>9, <2>1, <2>2, <3>1 DEF Turn
    <3> QED
      BY <1>9, <2>1, <3>2 DEF Turn
  <2>3. CASE ~(opt.stride > 0)
    BY <1>9, <2>1, <2>3 DEF Turn
  <2> QED
    BY <2>2, <2>3
<1>10. CASE LoopEnds
  BY <1>0, <1>10 DEF LoopEnds
<1>11. CASE Fork
  BY <1>0, <1>11 DEF Fork
<1>12. CASE ForkFails
  BY <1>0, <1>12 DEF ForkFails, SayAndExit
<1>13. CASE ChildReaped
  BY <1>0, <1>13 DEF ChildReaped
<1>14. CASE WaitFails
  BY <1>0, <1>14 DEF WaitFails
<1>15. CASE Finish
  BY <1>0, <1>15 DEF Finish, SayAndExit
<1>16. CASE ChildRound
  <2>1. /\ rounds' = rounds + 1 /\ left' = Pred(left) /\ times' = times
        /\ child = "running" /\ child' = IF left = 0 THEN "leaving" ELSE "running"
        /\ pc' = pc /\ pc = "wait" /\ passes' = passes
    BY <1>16 DEF ChildRound
  <2>2. LongLong \in Nat /\ LongLong >= 1
    BY BenchAssumption
  <2>3. /\ child' = "running" =>
             \/ left' <= times' /\ rounds' = times' - left'
             \/ times' < 0 /\ left' >= 0 /\ rounds' = times' - left' + 2 * LongLong
        /\ child' = "running" /\ times' >= 0 => left' >= 0
        /\ child' \in {"leaving", "gone"} =>
             rounds' = times' + 1 + (IF times' < 0 THEN 2 * LongLong ELSE 0)
    BY <2>1, <2>2 DEF Pred
  <2> QED
    BY <2>1, <2>3
<1>17. CASE ChildExits
  BY <1>0, <1>17 DEF ChildExits
<1>18. CASE ChildKilled
  BY <1>0, <1>18 DEF ChildKilled
<1>19. CASE Alarm
  BY <1>0, <1>19 DEF Alarm
<1>20. CASE UNCHANGED vars
  BY <1>0, <1>20 DEF vars
<1>21. CASE Segfault
  BY <1>0, <1>21 DEF Segfault
<1>22. CASE ChildSegfault
  BY <1>0, <1>22 DEF ChildSegfault
<1> QED
  BY <1>1, <1>2, <1>3, <1>4, <1>5, <1>6, <1>7, <1>8, <1>9, <1>10, <1>11, <1>12, <1>13,
     <1>14, <1>15, <1>16, <1>17, <1>18, <1>19, <1>20, <1>21, <1>22
  DEF Next, MainStep, ChildStep, Rests

\* Writing lines that have not been written keeps each of them single.
LEMMA LinesAdd ==
  ASSUME NEW S \in SUBSET Lines, TypeOK, LineInv,
         \A l \in Lines : out'[l] + buf'[l] = out[l] + buf[l] + (IF l \in S THEN 1 ELSE 0),
         Said(pc) \cup S \subseteq Said(pc'), S \cap Said(pc) = {}
  PROVE  LineInv'
<1> SUFFICES ASSUME NEW l \in Lines
             PROVE  out'[l] + buf'[l] <= (IF l \in Said(pc') THEN 1 ELSE 0)
  BY DEF LineInv
<1>1. out[l] \in Nat /\ buf[l] \in Nat /\ out[l] + buf[l] <= (IF l \in Said(pc) THEN 1 ELSE 0)
  BY DEF TypeOK, LineInv
<1>2. CASE l \in S
  BY <1>1, <1>2
<1>3. CASE l \notin S
  BY <1>1, <1>3
<1> QED
  BY <1>2, <1>3

\* A step that writes nothing keeps the lines.
LEMMA LinesKept ==
  ASSUME TypeOK, LineInv, Said(pc) \subseteq Said(pc'), out' = out, buf' = buf
  PROVE  LineInv'
<1> SUFFICES ASSUME NEW l \in Lines
             PROVE  out[l] + buf[l] <= (IF l \in Said(pc') THEN 1 ELSE 0)
  BY DEF LineInv
<1>1. out[l] \in Nat /\ buf[l] \in Nat /\ out[l] + buf[l] <= (IF l \in Said(pc) THEN 1 ELSE 0)
  BY DEF TypeOK, LineInv
<1> QED
  BY <1>1

\* A line said for the first time is there once.
LEMMA SaidOnce ==
  ASSUME NEW l \in Lines, TypeOK, LineInv, l \notin Said(pc), Say({l})
  PROVE  out'[l] + buf'[l] = 1
<1>1. out[l] \in Nat /\ buf[l] \in Nat
  BY DEF TypeOK
<1>2. out[l] + buf[l] = 0
  BY <1>1 DEF LineInv
<1>3. l \in {l} /\ {l} \in SUBSET Lines
  OBVIOUS
<1>4. out'[l] + buf'[l] = out[l] + buf[l] + (IF l \in {l} THEN 1 ELSE 0)
  BY <1>3, SayAdds
<1> QED
  BY <1>1, <1>2, <1>4

\* No step writes a line that has been written.
LEMMA LineStep == IInv /\ [Next]_vars => LineInv'
<1> SUFFICES ASSUME IInv, [Next]_vars PROVE LineInv'
  OBVIOUS
<1>1. CASE ReadOption
  <2>1. Said(pc) \subseteq Said(pc') /\ out' = out /\ buf' = buf
    BY <1>1 DEF ReadOption, Said
  <2> QED
    BY <2>1, LinesKept DEF IInv
<1>2. CASE Usage
  <2>1. SayAndExit({"usage"}) /\ {"usage"} \in SUBSET Lines
    BY <1>2 DEF Usage, Lines
  <2>2. \A l \in Lines :
           out'[l] + buf'[l] = out[l] + buf[l] + (IF l \in {"usage"} THEN 1 ELSE 0)
    BY <2>1, ExitAdds DEF IInv
  <2>3. Said(pc) \cup {"usage"} \subseteq Said(pc') /\ {"usage"} \cap Said(pc) = {}
    BY <1>2, <2>1 DEF Usage, Said, SayAndExit, Lines
  <2> QED
    BY <2>1, <2>2, <2>3, LinesAdd DEF IInv
<1>3. CASE InitFails
  <2>1. SayAndExit({"cannot open"}) /\ {"cannot open"} \in SUBSET Lines
    BY <1>3 DEF InitFails, Lines
  <2>2. \A l \in Lines :
           out'[l] + buf'[l] = out[l] + buf[l] + (IF l \in {"cannot open"} THEN 1 ELSE 0)
    BY <2>1, ExitAdds DEF IInv
  <2>3. Said(pc) \cup {"cannot open"} \subseteq Said(pc') /\ {"cannot open"} \cap Said(pc) = {}
    BY <1>3, <2>1 DEF InitFails, Said, SayAndExit, Lines
  <2> QED
    BY <2>1, <2>2, <2>3, LinesAdd DEF IInv
<1>4. CASE Begin
  <2>1. Said(pc) \subseteq Said(pc') /\ out' = out /\ buf' = buf
    BY <1>4 DEF Begin, Said
  <2> QED
    BY <2>1, LinesKept DEF IInv
<1>5. CASE Alloc
  <2>1. Say({"bucket", "test"}) /\ {"bucket", "test"} \in SUBSET Lines
    BY <1>5 DEF Alloc, Lines
  <2>2. \A l \in Lines :
           out'[l] + buf'[l] = out[l] + buf[l] + (IF l \in {"bucket", "test"} THEN 1 ELSE 0)
    BY <2>1, SayAdds DEF IInv
  <2>3. Said(pc) \cup {"bucket", "test"} \subseteq Said(pc') /\ {"bucket", "test"} \cap Said(pc) = {}
    BY <1>5, <2>1 DEF Alloc, Said, IInv, PlaceInv
  <2> QED
    BY <2>1, <2>2, <2>3, LinesAdd DEF IInv
<1>6. CASE AllocFails
  <2>1. SayAndExit({"no memory"}) /\ {"no memory"} \in SUBSET Lines
    BY <1>6 DEF AllocFails, Lines
  <2>2. \A l \in Lines :
           out'[l] + buf'[l] = out[l] + buf[l] + (IF l \in {"no memory"} THEN 1 ELSE 0)
    BY <2>1, ExitAdds DEF IInv
  <2>3. Said(pc) \cup {"no memory"} \subseteq Said(pc') /\ {"no memory"} \cap Said(pc) = {}
    BY <1>6, <2>1 DEF AllocFails, Said, SayAndExit, Lines
  <2> QED
    BY <2>1, <2>2, <2>3, LinesAdd DEF IInv
<1>7. CASE WakeMe
  <2>1. Said(pc) \subseteq Said(pc') /\ out' = out /\ buf' = buf
    BY <1>7 DEF WakeMe, Said
  <2> QED
    BY <2>1, LinesKept DEF IInv
<1>8. CASE StartLoop
  <2>1. Said(pc) \subseteq Said(pc') /\ out' = out /\ buf' = buf
    BY <1>8 DEF StartLoop, Said
  <2> QED
    BY <2>1, LinesKept DEF IInv
<1>9. CASE Turn
  <2>1. Said(pc) \subseteq Said(pc') /\ out' = out /\ buf' = buf
    BY <1>9 DEF Turn, Said
  <2> QED
    BY <2>1, LinesKept DEF IInv
<1>10. CASE LoopEnds
  <2>1. Say({"summ", "loop_times"}) /\ {"summ", "loop_times"} \in SUBSET Lines
    BY <1>10 DEF LoopEnds, Lines
  <2>2. \A l \in Lines :
           out'[l] + buf'[l] = out[l] + buf[l] + (IF l \in {"summ", "loop_times"} THEN 1 ELSE 0)
    BY <2>1, SayAdds DEF IInv
  <2>3. Said(pc) \cup {"summ", "loop_times"} \subseteq Said(pc') /\ {"summ", "loop_times"} \cap Said(pc) = {}
    BY <1>10, <2>1 DEF LoopEnds, Said, IInv, PlaceInv
  <2> QED
    BY <2>1, <2>2, <2>3, LinesAdd DEF IInv
<1>11. CASE Fork
  <2>1. Said(pc) \subseteq Said(pc') /\ out' = out /\ buf' = buf
    BY <1>11 DEF Fork, Said
  <2> QED
    BY <2>1, LinesKept DEF IInv
<1>12. CASE ForkFails
  <2>1. SayAndExit({}) /\ {} \in SUBSET Lines
    BY <1>12 DEF ForkFails, Lines
  <2>2. \A l \in Lines :
           out'[l] + buf'[l] = out[l] + buf[l] + (IF l \in {} THEN 1 ELSE 0)
    BY <2>1, ExitAdds DEF IInv
  <2>3. Said(pc) \cup {} \subseteq Said(pc') /\ {} \cap Said(pc) = {}
    BY <1>12, <2>1 DEF ForkFails, Said, SayAndExit, Lines
  <2> QED
    BY <2>1, <2>2, <2>3, LinesAdd DEF IInv
<1>13. CASE ChildReaped
  <2>1. Said(pc) \subseteq Said(pc') /\ out' = out /\ buf' = buf
    BY <1>13 DEF ChildReaped, Said
  <2> QED
    BY <2>1, LinesKept DEF IInv
<1>14. CASE WaitFails
  <2>1. Say({"error waiting"}) /\ {"error waiting"} \in SUBSET Lines
    BY <1>14 DEF WaitFails, Lines
  <2>2. \A l \in Lines :
           out'[l] + buf'[l] = out[l] + buf[l] + (IF l \in {"error waiting"} THEN 1 ELSE 0)
    BY <2>1, SayAdds DEF IInv
  <2>3. Said(pc) \cup {"error waiting"} \subseteq Said(pc') /\ {"error waiting"} \cap Said(pc) = {}
    BY <1>14, <2>1 DEF WaitFails, Said, IInv, PlaceInv
  <2> QED
    BY <2>1, <2>2, <2>3, LinesAdd DEF IInv
<1>15. CASE Finish
  <2>1. SayAndExit({"finish"}) /\ {"finish"} \in SUBSET Lines
    BY <1>15 DEF Finish, Lines
  <2>2. \A l \in Lines :
           out'[l] + buf'[l] = out[l] + buf[l] + (IF l \in {"finish"} THEN 1 ELSE 0)
    BY <2>1, ExitAdds DEF IInv
  <2>3. Said(pc) \cup {"finish"} \subseteq Said(pc') /\ {"finish"} \cap Said(pc) = {}
    BY <1>15, <2>1 DEF Finish, Said, SayAndExit, Lines
  <2> QED
    BY <2>1, <2>2, <2>3, LinesAdd DEF IInv
<1>16. CASE ChildRound
  <2>1. Said(pc) \subseteq Said(pc') /\ out' = out /\ buf' = buf
    BY <1>16 DEF ChildRound, Said
  <2> QED
    BY <2>1, LinesKept DEF IInv
<1>17. CASE ChildExits
  <2>1. Said(pc) \subseteq Said(pc') /\ out' = out /\ buf' = buf
    BY <1>17 DEF ChildExits, Said
  <2> QED
    BY <2>1, LinesKept DEF IInv
<1>18. CASE ChildKilled
  <2>1. Said(pc) \subseteq Said(pc') /\ out' = out /\ buf' = buf
    BY <1>18 DEF ChildKilled, Said
  <2> QED
    BY <2>1, LinesKept DEF IInv
<1>19. CASE Alarm
  <2>1. Said(pc) \subseteq Said(pc') /\ out' = out /\ buf' = buf
    BY <1>19 DEF Alarm, Said
  <2> QED
    BY <2>1, LinesKept DEF IInv
<1>20. CASE UNCHANGED vars
  BY <1>20, LinesKept DEF vars, IInv, Said
<1>21. CASE Segfault
  <2>1. Said(pc) \subseteq Said(pc') /\ out' = out /\ buf' = buf
    BY <1>21 DEF Segfault, Said, Lines
  <2> QED
    BY <2>1, LinesKept DEF IInv
<1>22. CASE ChildSegfault
  <2>1. Said(pc) \subseteq Said(pc') /\ out' = out /\ buf' = buf
    BY <1>22 DEF ChildSegfault, Said, Lines
  <2> QED
    BY <2>1, LinesKept DEF IInv
<1> QED
  BY <1>1, <1>2, <1>3, <1>4, <1>5, <1>6, <1>7, <1>8, <1>9, <1>10, <1>11, <1>12, <1>13,
     <1>14, <1>15, <1>16, <1>17, <1>18, <1>19, <1>20, <1>21, <1>22
  DEF Next, MainStep, ChildStep, Rests

\* The elapsed time is what lies between the clock's readings.
LEMMA ClockStep == IInv /\ [Next]_vars => ClockInv'
<1> SUFFICES ASSUME IInv, [Next]_vars PROVE ClockInv'
  OBVIOUS
<1> USE DEF IInv, TypeOK, PlaceInv, ClockInv, ElapsedRight
<1>1. CASE ReadOption
  BY <1>1 DEF ReadOption
<1>2. CASE Usage
  BY <1>2 DEF Usage, SayAndExit
<1>3. CASE InitFails
  BY <1>3 DEF InitFails, SayAndExit
<1>4. CASE Begin
  BY <1>4 DEF Begin
<1>5. CASE Alloc
  BY <1>5 DEF Alloc
<1>6. CASE AllocFails
  BY <1>6 DEF AllocFails, SayAndExit
<1>7. CASE WakeMe
  BY <1>7 DEF WakeMe
<1>8. CASE StartLoop
  BY <1>8 DEF StartLoop
<1>9. CASE Turn
  BY <1>9 DEF Turn
<1>10. CASE LoopEnds
  BY <1>10 DEF LoopEnds
<1>11. CASE Fork
  <2>1. start'.usec >= 0
    BY <1>11, ClockType, BenchAssumption DEF Fork
  <2> QED
    BY <1>11, <2>1 DEF Fork
<1>12. CASE ForkFails
  BY <1>12 DEF ForkFails, SayAndExit
<1>13. CASE ChildReaped
  <2>1. stop' \in [sec : Int, usec : 0 .. Million - 1]
    BY <1>13, ClockType, BenchAssumption DEF ChildReaped
  <2>2. start \in [sec : Int, usec : 0 .. Million - 1]
    BY <1>13 DEF ChildReaped, Time
  <2>3. /\ elapsed' \in [sec : Int, usec : 0 .. Million - 1]
        /\ elapsed'.sec * Million + elapsed'.usec
             = (stop'.sec * Million + stop'.usec) - (start.sec * Million + start.usec)
    BY <1>13, <2>1, <2>2, SinceRight DEF ChildReaped
  <2>4. elapsed' # NoTime /\ start' = start /\ pc' = "finish"
    BY <1>13, <2>3 DEF ChildReaped, NoTime
  <2> QED
    BY <2>3, <2>4
<1>14. CASE WaitFails
  <2>1. Say({"error waiting"}) /\ {"error waiting"} \in SUBSET Lines
    BY <1>14 DEF WaitFails, Lines
  <2>2. "error waiting" \in Lines /\ "error waiting" \notin Said(pc)
    BY <1>14 DEF WaitFails, Said, Lines
  <2>3. out'["error waiting"] + buf'["error waiting"] = 1
    BY <2>1, <2>2, SaidOnce
  <2>4. elapsed' = NoTime /\ pc' = "finish"
    BY <1>14 DEF WaitFails
  <2> QED
    BY <2>3, <2>4
<1>15. CASE Finish
  BY <1>15 DEF Finish, SayAndExit
<1>16. CASE ChildRound
  BY <1>16 DEF ChildRound
<1>17. CASE ChildExits
  BY <1>17 DEF ChildExits
<1>18. CASE ChildKilled
  BY <1>18 DEF ChildKilled
<1>19. CASE Alarm
  BY <1>19 DEF Alarm
<1>20. CASE UNCHANGED vars
  BY <1>20 DEF vars
<1>21. CASE Segfault
  BY <1>21 DEF Segfault
<1>22. CASE ChildSegfault
  BY <1>22 DEF ChildSegfault
<1> QED
  BY <1>1, <1>2, <1>3, <1>4, <1>5, <1>6, <1>7, <1>8, <1>9, <1>10, <1>11, <1>12, <1>13,
     <1>14, <1>15, <1>16, <1>17, <1>18, <1>19, <1>20, <1>21, <1>22
  DEF Next, MainStep, ChildStep, Rests

\* The invariant is inductive.
LEMMA StepInv == IInv /\ [Next]_vars => IInv'
  BY TypeStep, PlaceStep, ReadStep, CountStep, LineStep, ClockStep DEF IInv

\* The invariant always holds.
LEMMA AlwaysInv == Spec => []IInv
  BY InitInv, StepInv, PTL DEF Spec

\* The program's variables keep their types, for every width of a counter and
\* every option value.
THEOREM TypeCorrect == Spec => []TypeOK
<1>1. IInv => TypeOK
  BY DEF IInv
<1> QED
  BY <1>1, AlwaysInv, PTL

\* A read leaves the block malloc returned only below it and only with a
\* negative stride, whatever its address, its size, the cache line, the options
\* and the width of an int.
THEOREM ReadsInBuffer == Spec => []InBuffer
<1>1. IInv => InBuffer
  <2> SUFFICES ASSUME IInv, NEW k \in at, ~(k < 0 /\ opt.stride < 0)
               PROVE  k >= 0 /\ BEACH_ALIGN(skew) + k < skew + BENCH_GET_BYTE
    BY DEF InBuffer
  <2>1. k \in Int /\ Bytes \in Int /\ skew \in Nat
    BY BytesInt, BenchAssumption DEF IInv, TypeOK
  <2>2. k >= 0 /\ k <= Bytes /\ (k < Bytes \/ k = 0)
    BY <2>1 DEF IInv, ReadInv, Reached
  <2>3. Align \in Nat /\ Align >= 1
    BY BenchAssumption
  <2>4. (skew + Align - 1) % Align >= 0 /\ (skew + Align - 1) % Align \in Int
    BY <2>1, <2>3
  <2>5. BEACH_ALIGN(skew) <= skew + Align - 1 /\ BEACH_ALIGN(skew) \in Int
    BY <2>1, <2>3, <2>4 DEF BEACH_ALIGN
  <2> QED
    BY <2>1, <2>2, <2>3, <2>5 DEF BENCH_GET_BYTE
<1> QED
  BY <1>1, AlwaysInv, PTL

\* The passes printed are the passes read, or one less; the child reads one
\* round more than asked for, and a round for every long long more if that is negative.
THEOREM RoundsRight == Spec => []RoundsCounted
<1>1. IInv => RoundsCounted
  BY DEF IInv, CountInv
<1> QED
  BY <1>1, AlwaysInv, PTL

\* No line is written twice, fork and redirected output or not.
THEOREM NoLineTwice == Spec => []LinesOnce
<1>1. IInv => LinesOnce
  BY DEF IInv, TypeOK, LineInv, LinesOnce
<1> QED
  BY <1>1, AlwaysInv, PTL

\* The elapsed time is right for all readings of the clock.
THEOREM ClockRight == Spec => []ElapsedRight
<1>1. IInv => ElapsedRight
  BY DEF IInv, ClockInv
<1> QED
  BY <1>1, AlwaysInv, PTL

-------------------------------------------------------------------------------
(***************************************************************************)
(* The access to the switch chip, with constants, variables and a          *)
(* specification of its own: the two parts of the program share no state.  *)
(***************************************************************************)
\* How many registers an array has, the cases in the order of the definition.
LEMMA ArrayLength ==
  ASSUME NEW c, NEW r
  PROVE  Length(c, r) =
           IF r = "AGGRMSKS" THEN 16
           ELSE IF r = "DSTMASKS" THEN 64
           ELSE IF r = "SRCMASKS" THEN ChipPorts(c)
           ELSE IF r = "CAT_PR_TCPUDP_PORTS" THEN 5
           ELSE IF r = "CAT_QCE0" THEN 12
           ELSE IF r = "Q_INGRESS_WM" THEN 6
           ELSE IF r = "TCP_RNG" THEN (IF "G_ROCX" \in c THEN 16 ELSE 15)
           ELSE IF r \in {"DATA_LLC", "DATA_SNAP", "MASK_LLC", "MASK_SNAP"} THEN 7
           ELSE IF r \in {"DATA_ETYPE", "DATA_ARP", "DATA_UDP_TCP", "DATA_IPV4",
                          "DATA_IPV6", "MASK_ETYPE", "MASK_ARP", "MASK_UDP_TCP",
                          "MASK_IPV4", "MASK_IPV6"} THEN 6
           ELSE 1
  BY DEF Length, VTSS_CHIP_PGIDS

\* An array has at least one register and at most 64.
LEMMA ArrayLengthRange == ASSUME NEW c, NEW r PROVE Length(c, r) \in 1 .. 64
  BY ArrayLength DEF ChipPorts

\* Every cell of every register of a table has an address of its own in 8 bits,
\* but for the two registers the header itself puts at one address.
Apart(c, T) ==
  \A r \in T :
    /\ r = <<r[1], r[2]>> /\ r[2] \in Nat /\ r[2] + Length(c, r[1]) <= 256
    /\ \A s \in T : \/ r[1] = s[1] \/ {r[1], s[1]} = KnownAlias
                    \/ r[2] + Length(c, r[1]) <= s[2]
                    \/ s[2] + Length(c, s[1]) <= r[2]

\* The tables of the port block lie apart on every chip, the old and the new
\* counters, the MAC, the FIFO and the categorizer together.
LEMMA PortApart ==
  ASSUME NEW c \in Builds
  PROVE  Apart(c, PortMac(c) \cup PortFifo(c) \cup PortCategorizer(c)
                  \cup PortCounters(c) \cup PortOldCounters(c))
  BY ArrayLength, SMTT(60)
     DEF Apart, PortMac, PortFifo, PortCategorizer, PortCounters,
         PortOldCounters, When, Old, Builds

\* The tables of the analyzer lie apart, its three arrays of masks included.
LEMMA AnalyzerApart == ASSUME NEW c \in Builds PROVE Apart(c, Analyzer(c))
  BY ArrayLength, SMTT(60) DEF Apart, Analyzer, When, Old, ChipPorts, Builds

\* The two tables of the MII management block lie apart.
LEMMA MiimApart ==
  ASSUME NEW c \in Builds
  PROVE  Apart(c, Miim) /\ Apart(c, Meminit)
  BY ArrayLength DEF Apart, Miim, Meminit

\* The access control list of both chips that have one lies apart: the data
\* image, the mask image and the port ranges before them.
LEMMA AclApart == ASSUME NEW c \in Builds PROVE Apart(c, Acl(c))
  BY ArrayLength, SMTT(60) DEF Apart, Acl, AclRocx, AclSparx28, AceData,
     AceMask, Builds

\* The table of the VAUI block lies apart.
LEMMA VauiApart == ASSUME NEW c \in Builds PROVE Apart(c, Vaui)
  BY ArrayLength, SMTT(60) DEF Apart, Vaui

\* The three tables of the capture buffer lie apart.
LEMMA CaptureApart ==
  ASSUME NEW c \in Builds
  PROVE  /\ Apart(c, Capture(c)) /\ Apart(c, CaptureReset(c))
         /\ Apart(c, {<<"FRAME_DATA", S_CAPTURE_DATA>>})
  BY ArrayLength DEF Apart, Capture, CaptureReset, When, S_CAPTURE_DATA

\* The table of the arbiter lies apart.
LEMMA ArbiterApart == ASSUME NEW c \in Builds PROVE Apart(c, Arbiter(c))
  BY ArrayLength, SMTT(60) DEF Apart, Arbiter, When, Builds

\* The table of the system block lies apart, but for the known two.
LEMMA SystemApart == ASSUME NEW c \in Builds PROVE Apart(c, System(c))
  BY ArrayLength, SMTT(60) DEF Apart, System, When, Builds, KnownAlias

\* A block the chip does not have has no two registers.
LEMMA EmptyApart == ASSUME NEW c PROVE Apart(c, {})
  BY DEF Apart

\* In every register file of every chip the registers lie apart.
LEMMA TableApart == ASSUME NEW c \in Builds, NEW f \in Files(c) PROVE Apart(c, f.regs)
<1> DEFINE P == PortMac(c) \cup PortFifo(c) \cup PortCategorizer(c)
                \cup PortCounters(c) \cup PortOldCounters(c)
           F == {<<"FRAME_DATA", S_CAPTURE_DATA>>}
<1>1. f.regs \in {P, Analyzer(c), Miim, Meminit, Acl(c), Vaui, F,
                  Capture(c), CaptureReset(c), Arbiter(c), System(c), {}}
  BY DEF Files, When
<1>2. \A T \in {P, Analyzer(c), Miim, Meminit, Acl(c), Vaui, F, Capture(c),
               CaptureReset(c), Arbiter(c), System(c), {}} : Apart(c, T)
  <2> HIDE DEF P, F
  <2>1. Apart(c, P) /\ Apart(c, F)
    BY PortApart, CaptureApart DEF P, F
  <2> QED
    BY <2>1, AnalyzerApart, MiimApart, AclApart, VauiApart, CaptureApart, ArbiterApart,
       SystemApart, EmptyApart
<1> HIDE DEF P, F
<1> QED
  BY <1>1, <1>2

\* A block and sub block are looked up in one table: the sub blocks of the files
\* that share a block number are different.
LEMMA SameTable ==
  ASSUME NEW c \in Builds, NEW f \in Files(c), NEW g \in Files(c),
         NEW sub \in f.subs, sub \in g.subs,
         f.blk = g.blk, f.regs # {}, g.regs # {}
  PROVE  f.regs = g.regs
<1>1. "SPARX_28" \in c => Capture(c) = {}
  BY DEF Capture, When, Builds
<1>2. S_MEMINIT(c) \in {1, 2}
  BY DEF S_MEMINIT
<1> QED
  BY <1>1, <1>2, SMTT(60)
  DEF Files, When, S_ACL, S_VAUI, S_CAPTURE_RESET, S_CAPTURE_STATUS,
      DataSubs,
      B_PORT, B_ANALYZER, B_MIIM, B_CAPTURE, B_ARBITER, B_SYSTEM, Builds

\* The address of a register, or of a cell of an array, is that register's alone
\* among all files of the chip, but for the known two.
LEMMA OneOwner ==
  ASSUME NEW c \in Builds, NEW f \in Files(c), NEW r \in f.regs, NEW sub \in f.subs,
         NEW k \in 0 .. Length(c, r[1]) - 1
  PROVE  LET own == Owners(c, f.blk, sub, r[2] + k)
         IN  own = {r[1]} \/ (r[1] \in KnownAlias /\ own = KnownAlias)
<1> DEFINE own == Owners(c, f.blk, sub, r[2] + k)
           reg == r[2] + k
<1>1. Apart(c, f.regs) /\ Length(c, r[1]) \in 1 .. 64
  BY TableApart, ArrayLengthRange
<1>2. r[2] \in Nat /\ reg \in r[2] .. r[2] + Length(c, r[1]) - 1
  BY <1>1 DEF Apart
<1>3. r[1] \in own
  BY <1>2 DEF Owners
<1>4. ASSUME NEW n \in own
      PROVE  \E s \in f.regs : s[1] = n /\ reg \in s[2] .. s[2] + Length(c, s[1]) - 1
  <2>1. PICK g \in Files(c) :
          /\ g.blk = f.blk /\ sub \in g.subs
          /\ n \in {x[1] : x \in {s \in g.regs : reg \in s[2] .. s[2] + Length(c, s[1]) - 1}}
    BY <1>4 DEF Owners
  <2>2. g.regs = f.regs
    BY <2>1, SameTable
  <2> QED
    BY <2>1, <2>2
<1>5. ASSUME NEW s \in f.regs, reg \in s[2] .. s[2] + Length(c, s[1]) - 1
      PROVE  s[1] = r[1] \/ {s[1], r[1]} = KnownAlias
  <2>1. s[2] \in Nat /\ Length(c, s[1]) \in 1 .. 64
    BY <1>1, ArrayLengthRange DEF Apart
  <2>2. \/ r[1] = s[1] \/ {r[1], s[1]} = KnownAlias
        \/ r[2] + Length(c, r[1]) <= s[2] \/ s[2] + Length(c, s[1]) <= r[2]
    BY <1>1 DEF Apart
  <2> HIDE DEF reg
  <2> QED
    BY <1>1, <1>2, <1>5, <2>1, <2>2
<1>6. own \subseteq {r[1]} \/ (r[1] \in KnownAlias /\ own = KnownAlias)
  <2> HIDE DEF own
  <2>1. \A n \in own : n = r[1] \/ {n, r[1]} = KnownAlias
    BY <1>4, <1>5
  <2> QED
    BY <2>1, <1>3 DEF KnownAlias
<1> HIDE DEF own
<1> QED
  BY <1>3, <1>6 DEF own

\* What a register number of 8 bits and a block of 4 cannot reach.
LEMMA PowersOfTwo == ASSUME NEW j \in 4 .. 15
                     PROVE  2 ^ j \in Nat /\ 2 ^ j >= 16 /\ (j >= 8 => 2 ^ j >= 256)
<1>4. CASE j = 4
  BY <1>4
<1>5. CASE j = 5
  BY <1>5
<1>6. CASE j = 6
  BY <1>6
<1>7. CASE j = 7
  BY <1>7
<1>8. CASE j = 8
  BY <1>8
<1>9. CASE j = 9
  BY <1>9
<1>10. CASE j = 10
  BY <1>10
<1>11. CASE j = 11
  BY <1>11
<1>12. CASE j = 12
  BY <1>12
<1>13. CASE j = 13
  BY <1>13
<1>14. CASE j = 14
  BY <1>14
<1>15. CASE j = 15
  BY <1>15
<1> QED
  BY <1>4, <1>5, <1>6, <1>7, <1>8, <1>9, <1>10, <1>11, <1>12, <1>13, <1>14, <1>15

\* A number below 256 has its bits in the lowest eight, one below 16 in four.
LEMMA BitsLow ==
  ASSUME NEW n \in 0 .. 255
  PROVE  Bits(n) \subseteq 0 .. 7 /\ (n <= 15 => Bits(n) \subseteq 0 .. 3)
<1>1. \A m \in Nat : m > n => ~((n \div m) % 2 = 1)
  <2>1. \A m \in Nat : m > n => n \div m = 0
    OBVIOUS
  <2> QED
    BY <2>1
<1>2. ASSUME NEW j \in 4 .. 15, j >= 8 \/ n <= 15 PROVE j \notin Bits(n)
  <2>a. 2 ^ j \in Nat /\ 2 ^ j >= 16 /\ (j >= 8 => 2 ^ j >= 256)
    BY PowersOfTwo
  <2>1. 2 ^ j \in Nat /\ 2 ^ j > n
    BY <2>a, <1>2
  <2>2. ~((n \div (2 ^ j)) % 2 = 1)
    BY <2>1, <1>1
  <2> QED
    BY <2>2 DEF Bits
<1>3. Bits(n) \subseteq 0 .. 15
  BY DEF Bits
<1> QED
  BY <1>2, <1>3

\* The offset of vtss_regop.c 17 has 16 bits, and the driver gets block, sub
\* block and register back from it: none of the three runs into another.
LEMMA OffsetDecoded ==
  ASSUME NEW blk \in 0 .. 15, NEW sub \in 0 .. 15, NEW reg \in 0 .. 255
  PROVE  /\ Offset(blk, sub, reg) \subseteq 0 .. 15
         /\ Decoded(Offset(blk, sub, reg)) =
              <<Bits(blk), Bits(sub), Bits(reg)>>
<1> DEFINE B == Bits(blk)
           S == Bits(sub)
           R == Bits(reg)
           off == Offset(blk, sub, reg)
<1>1. B \subseteq 0 .. 3 /\ S \subseteq 0 .. 3 /\ R \subseteq 0 .. 7
  BY BitsLow
<1>2. off = Shifted(B, 12) \cup Shifted(S, 8) \cup R
  BY DEF Offset
<1>3. Decoded(off) = <<{b - 12 : b \in off \ (0 .. 11)},
                          {b - 8 : b \in off \cap (8 .. 11)}, off \cap (0 .. 7)>>
  BY DEF Decoded
<1> HIDE DEF B, S, R, off
<1>4. /\ \A x : x \in Shifted(B, 12) <=> x \in 12 .. 15 /\ x - 12 \in B
      /\ \A x : x \in Shifted(S, 8) <=> x \in 8 .. 11 /\ x - 8 \in S
  <2>1. \A n \in {8, 12}, T \in SUBSET (0 .. 3) :
          \A x : x \in Shifted(T, n) <=> x \in n .. n + 3 /\ x - n \in T
    <3> SUFFICES ASSUME NEW n \in {8, 12}, NEW T \in SUBSET (0 .. 3), NEW x
                 PROVE  x \in Shifted(T, n) <=> x \in n .. n + 3 /\ x - n \in T
      OBVIOUS
    <3>1. ASSUME x \in Shifted(T, n) PROVE x \in n .. n + 3 /\ x - n \in T
      <4>1. PICK b \in T : x = b + n
        BY <3>1 DEF Shifted
      <4>2. b \in 0 .. 3 /\ x - n = b
        BY <4>1
      <4> QED
        BY <4>1, <4>2
    <3>2. ASSUME x \in n .. n + 3, x - n \in T PROVE x \in Shifted(T, n)
      <4>1. x = (x - n) + n /\ x \in 0 .. 31
        BY <3>2
      <4> QED
        BY <4>1, <3>2 DEF Shifted
    <3> QED
      BY <3>1, <3>2
  <2> QED
    BY <2>1, <1>1
<1>5. ASSUME NEW x \in off
      PROVE  \/ x \in 12 .. 15 /\ x - 12 \in B
             \/ x \in 8 .. 11 /\ x - 8 \in S
             \/ x \in 0 .. 7 /\ x \in R
  <2>1. x \in Shifted(B, 12) \/ x \in Shifted(S, 8) \/ x \in R
    BY <1>2
  <2>2. x \in R => x \in 0 .. 7
    BY <1>1
  <2> QED
    BY <2>1, <2>2, <1>4, Zenon
<1>a. off \subseteq 0 .. 15
  BY <1>5
<1>6. \A x \in off : /\ x \notin 0 .. 11 => x - 12 \in B
                     /\ x \in 8 .. 11 => x - 8 \in S
                     /\ x \in 0 .. 7 => x \in R
  BY <1>5
<1>7. {b - 12 : b \in off \ (0 .. 11)} = B
  <2>1. \A b \in B : b + 12 \in off \ (0 .. 11) /\ (b + 12) - 12 = b
    BY <1>1, <1>2, <1>4
  <2> QED
    BY <2>1, <1>6
<1>8. {b - 8 : b \in off \cap (8 .. 11)} = S
  <2>1. \A b \in S : b + 8 \in off \cap (8 .. 11) /\ (b + 8) - 8 = b
    BY <1>1, <1>2, <1>4
  <2> QED
    BY <2>1, <1>6
<1>9. off \cap (0 .. 7) = R
  BY <1>1, <1>2, <1>6
<1> QED
  BY <1>3, <1>a, <1>7, <1>8, <1>9 DEF off, B, S, R

\* What the answer r to an access must be.
Answered(blk, sub, reg, r) ==
  /\ r.rc \in {-1, 0, 1} /\ r.asked \in BOOLEAN /\ r.offset \in SUBSET (0 .. 15)
  /\ r.value \in {"old", "new", "zero"}
  /\ r.asked => Decoded(r.offset) = <<Bits(blk), Bits(sub), Bits(reg)>>
  /\ sub = Elsewhere /\ blk # B_CAPTURE => r.rc = -1 /\ ~r.asked
  /\ blk \in {B_SYSTEM, B_CAPTURE} /\ r.rc = 0 => r.value = "new"

\* Every answer of ht_rd_wr is as it should be, for any sub block: the check of
\* the block's own sub blocks lets nothing through that the driver would take for
\* another.
LEMMA AnswerTo ==
  ASSUME NEW blk \in 1 .. 7, blk # B_PORT_HI, NEW sub \in Nat, NEW reg,
         blk \in {B_CAPTURE, B_SYSTEM} => sub \in 0 .. 15 /\ reg \in 0 .. 255,
         chip \in Builds,
         NEW r \in ht_rd_wr(blk, sub, reg)
  PROVE  Answered(blk, sub, reg, r)
<1> USE DEF B_PORT, B_ANALYZER, B_MIIM, B_CAPTURE, B_ARBITER, B_PORT_HI,
            B_SYSTEM, Elsewhere,
            VTSS_CHIP_PORTS, VTSS_CHIP_PORTMASK, VTSS_CHIP_PORT_CPU
<1>1. CASE Illegal(blk, sub)
  <2>1. blk # B_CAPTURE
    BY <1>1 DEF Illegal
  <2>2. r = [rc |-> -1, asked |-> FALSE, offset |-> {}, value |-> "old"]
    BY <1>1 DEF ht_rd_wr
  <2>3. r.rc = -1 /\ r.asked = FALSE /\ r.offset = {} /\ r.value = "old"
    BY <2>2
  <2>4. r.asked \in BOOLEAN /\ ~r.asked
    BY <2>3, Zenon
  <2>5. r.rc \in {-1, 0, 1} /\ r.offset \in SUBSET (0 .. 15) /\ ~(r.rc = 0)
    BY <2>3
  <2> QED
    BY <2>1, <2>3, <2>4, <2>5 DEF Answered
<1>2. CASE ~Illegal(blk, sub)
  <2>1. /\ blk = B_PORT => sub <= 7
        /\ blk = B_MIIM => sub <= 2
        /\ blk \in {B_ANALYZER, B_ARBITER, B_SYSTEM} => sub = 0
    BY <1>2 DEF Illegal, S_MEMINIT
  <2>2. r \in vtss_io_pi_rd(blk, sub, reg)
    BY <1>2, <2>1 DEF ht_rd_wr
  <2>3. blk # B_CAPTURE => sub # Elsewhere
    BY <2>1
  <2>4. CASE blk \in {B_CAPTURE, B_SYSTEM}
    <3> DEFINE off == Offset(blk, sub, reg)
    <3>1. r \in vtss_io_pi_rd_fast(blk, sub, reg)
      BY <2>2, <2>4 DEF vtss_io_pi_rd
    <3>a. blk \in 0 .. 15 /\ sub \in 0 .. 15 /\ reg \in 0 .. 255
      BY <2>4
    <3>2. /\ off \subseteq 0 .. 15
          /\ Decoded(off) = <<Bits(blk), Bits(sub), Bits(reg)>>
      BY <3>a, OffsetDecoded, Zenon
    <3>3. \/ r = [rc |-> 0, asked |-> TRUE, offset |-> off, value |-> "new"]
          \/ r = [rc |-> -1, asked |-> TRUE, offset |-> off, value |-> "zero"]
      BY <3>1 DEF vtss_io_pi_rd_fast
    <3> HIDE DEF off
    <3>4. /\ r.asked = TRUE /\ r.offset = off
          /\ (r.rc = 0 /\ r.value = "new") \/ (r.rc = -1 /\ r.value = "zero")
      BY <3>3
    <3> QED
      <4>1. r.asked \in BOOLEAN /\ r.offset \in SUBSET (0 .. 15) /\ r.rc \in {-1, 0, 1}
        BY <3>2, <3>4
      <4>2. r.value \in {"old", "new", "zero"} /\ (r.rc = 0 => r.value = "new")
        BY <3>4
      <4>3. r.asked => Decoded(r.offset) = <<Bits(blk), Bits(sub), Bits(reg)>>
        BY <3>2, <3>4, Zenon
      <4>4. ~(sub = Elsewhere /\ blk # B_CAPTURE)
        BY <2>3
      <4> QED
        BY <4>1, <4>2, <4>3, <4>4 DEF Answered
  <2>5. CASE blk \notin {B_CAPTURE, B_SYSTEM}
    <3>1. PICK rc \in {-1, 0, 1} :
            r = [rc |-> rc, asked |-> FALSE, offset |-> {}, value |-> "old"]
      BY <2>2, <2>5 DEF vtss_io_pi_rd
    <3>2. r.rc = rc /\ r.asked = FALSE /\ r.offset = {} /\ r.value = "old"
      BY <3>1
    <3> QED
      BY <3>2, <2>5, <2>3 DEF Answered
  <2> QED
    BY <2>4, <2>5
<1> QED
  BY <1>1, <1>2

\* Every field lies in one of the two words, and shares no bit with another but
\* the other cookie.
Clear(F) ==
  \A f \in F :
    /\ O(f) \in 0 .. 63 /\ Width(f) \in 1 .. 32 /\ O(f) + Width(f) <= 64
    /\ O(f) > 31 \/ O(f) + Width(f) <= 32
    /\ \A g \in F : \/ f = g \/ {f[1], g[1]} = Cookies
                    \/ O(f) + Width(f) <= O(g) \/ O(g) + Width(g) <= O(f)

\* Fields of either header share no bit and none crosses the border of the words.
LEMMA FieldsClear == ASSUME chip \in Builds PROVE Clear(Fields)
<1>1. Clear(IfhFields(chip))
  BY SMTT(60) DEF Clear, O, Width, IfhFields, When, Old, Builds,
                  Cookies
<1>2. Clear(VshFields)
  BY SMTT(60) DEF Clear, O, Width, VshFields, Cookies
<1> QED
  BY <1>1, <1>2 DEF Fields

\* Bit j of the header of 64 bits.
IsSet(w, j) == IF j > 31 THEN j - 32 \in w[2] ELSE j \in w[1]

\* The inductive invariant of a header: a bit of it is set exactly if a field put
\* into it sets it, and at most one of the two cookies was put.
PutInv ==
  /\ chip \in Builds
  /\ word \in [1 .. 2 -> SUBSET (0 .. 31)]
  /\ put = [f \in DOMAIN put |-> put[f]]
  /\ DOMAIN put \subseteq Fields
  /\ \A f \in DOMAIN put : put[f] \in SUBSET (0 .. Width(f) - 1)
  /\ \A f, g \in DOMAIN put : f[1] \in Cookies /\ g[1] \in Cookies => f = g
  /\ \A j \in 0 .. 63 : IsSet(word, j) <=> \E f \in DOMAIN put : j - O(f) \in put[f]

\* So what is under a field's mask is what was put into that field.
LEMMA ReadBack == ASSUME PutInv PROVE FieldsReadBack
<1> SUFFICES ASSUME NEW f \in DOMAIN put PROVE IFH_GET(f) = put[f]
  BY DEF FieldsReadBack
<1>1. /\ O(f) \in 0 .. 63 /\ Width(f) \in 1 .. 32 /\ O(f) + Width(f) <= 64
      /\ O(f) > 31 \/ O(f) + Width(f) <= 32
      /\ put[f] \in SUBSET (0 .. Width(f) - 1)
  BY FieldsClear DEF PutInv, Clear
<1>2. IFH_GET(f) = {b \in 0 .. Width(f) - 1 : IsSet(word, O(f) + b)}
  <2>1. CASE O(f) > 31
    <3>1. IFH_GET(f) = {b - (O(f) - 32) : b \in word[2]} \cap (0 .. Width(f) - 1)
      BY <2>1 DEF IFH_GET
    <3>2. word[2] \subseteq 0 .. 31
      BY DEF PutInv
    <3>3. \A b \in 0 .. Width(f) - 1 :
            IsSet(word, O(f) + b) <=> b + (O(f) - 32) \in word[2]
      BY <1>1, <2>1 DEF IsSet
    <3> QED
      BY <3>1, <3>2, <3>3, <1>1
  <2>2. CASE ~(O(f) > 31)
    <3>1. IFH_GET(f) = {b - O(f) : b \in word[1]} \cap (0 .. Width(f) - 1)
      BY <2>2 DEF IFH_GET
    <3>2. word[1] \subseteq 0 .. 31
      BY DEF PutInv
    <3>3. \A b \in 0 .. Width(f) - 1 :
            IsSet(word, O(f) + b) <=> b + O(f) \in word[1]
      BY <1>1, <2>2 DEF IsSet
    <3> QED
      BY <3>1, <3>2, <3>3, <1>1
  <2> QED
    BY <2>1, <2>2
<1>3. ASSUME NEW b \in 0 .. Width(f) - 1 PROVE IsSet(word, O(f) + b) <=> b \in put[f]
  <2>1. O(f) + b \in 0 .. 63 /\ (O(f) + b) - O(f) = b
    BY <1>1
  <2>2. IsSet(word, O(f) + b) <=>
          \E g \in DOMAIN put : (O(f) + b) - O(g) \in put[g]
    BY <2>1 DEF PutInv
  <2>3. ASSUME NEW g \in DOMAIN put, (O(f) + b) - O(g) \in put[g] PROVE g = f
    <3>1. /\ O(g) \in 0 .. 63 /\ Width(g) \in 1 .. 32
          /\ (O(f) + b) - O(g) \in 0 .. Width(g) - 1
      BY <2>3, FieldsClear DEF PutInv, Clear
    <3>2. ~(O(f) + Width(f) <= O(g)) /\ ~(O(g) + Width(g) <= O(f))
      <4>1. \A o, w, p, v, x \in Int : x \in 0 .. w - 1 /\ (o + x) - p \in 0 .. v - 1
                                      => ~(o + w <= p) /\ ~(p + v <= o)
        OBVIOUS
      <4>2. O(f) \in Int /\ Width(f) \in Int /\ b \in Int
        BY <1>1
      <4>3. O(g) \in Int /\ Width(g) \in Int
        BY <3>1
      <4> QED
        BY <4>1, <4>2, <4>3, <3>1
    <3>3. f = g \/ {f[1], g[1]} = Cookies
      BY <3>2, FieldsClear DEF PutInv, Clear
    <3> QED
      BY <3>3 DEF PutInv
  <2> QED
    BY <2>1, <2>2, <2>3
<1> QED
  BY <1>1, <1>2, <1>3

\* IFH_PUT sets the bits of its field and no other.
LEMMA PutStep == ASSUME PutInv, Put PROVE PutInv'
<1>1. PICK f \in Fields \ DOMAIN put :
        /\ f[1] \in Cookies => \A g \in DOMAIN put : g[1] \notin Cookies
        /\ \E val \in Values[Width(f)] :
             /\ word' = IFH_PUT(f, val)
             /\ put' = [g \in DOMAIN put \cup {f} |-> IF g = f THEN val ELSE put[g]]
  BY DEF Put
<1>2. PICK val \in Values[Width(f)] :
             /\ word' = IFH_PUT(f, val)
             /\ put' = [g \in DOMAIN put \cup {f} |-> IF g = f THEN val ELSE put[g]]
  BY <1>1
<1>3. /\ O(f) \in 0 .. 63 /\ Width(f) \in 1 .. 32 /\ O(f) + Width(f) <= 64
      /\ O(f) > 31 \/ O(f) + Width(f) <= 32
  BY FieldsClear DEF PutInv, Clear
<1>4. val \in SUBSET (0 .. Width(f) - 1)
  BY <1>3, SwitchAssumption
<1>5. chip' = chip /\ kind' = kind /\ Fields' = Fields
  BY DEF Put, Fields
<1>6. /\ DOMAIN put' = DOMAIN put \cup {f} /\ put'[f] = val
      /\ \A g \in DOMAIN put : g # f /\ put'[g] = put[g]
  BY <1>2
<1>7. /\ word' \in [1 .. 2 -> SUBSET (0 .. 31)]
      /\ \A j \in 0 .. 63 : IsSet(word', j) <=> IsSet(word, j) \/ j - O(f) \in val
  <2>1. word \in [1 .. 2 -> SUBSET (0 .. 31)]
    BY DEF PutInv
  <2>2. CASE O(f) > 31
    <3>1. word' = [word EXCEPT ![2] = @ \cup Shifted(val, O(f) - 32),
                               ![1] = @ \cup {}]
      BY <1>2, <2>2 DEF IFH_PUT
    <3>2. Shifted(val, O(f) - 32) \subseteq 0 .. 31
      BY DEF Shifted
    <3>3. word'[2] = word[2] \cup Shifted(val, O(f) - 32) /\ word'[1] = word[1]
      BY <3>1, <2>1
    <3>4. word' \in [1 .. 2 -> SUBSET (0 .. 31)]
      BY <3>1, <3>2, <2>1
    <3>5. \A j \in 32 .. 63 :
            j - 32 \in Shifted(val, O(f) - 32) <=> j - O(f) \in val
      BY <1>3, <1>4, <2>2 DEF Shifted
    <3>6. \A j \in 0 .. 31 : j - O(f) \notin val
      BY <1>3, <1>4, <2>2
    <3> QED
      BY <3>3, <3>4, <3>5, <3>6 DEF IsSet
  <2>3. CASE ~(O(f) > 31)
    <3>1. word' = [word EXCEPT ![2] = @ \cup {}, ![1] = @ \cup Shifted(val, O(f))]
      BY <1>2, <2>3 DEF IFH_PUT
    <3>2. Shifted(val, O(f)) \subseteq 0 .. 31
      BY DEF Shifted
    <3>3. word'[2] = word[2] /\ word'[1] = word[1] \cup Shifted(val, O(f))
      BY <3>1, <2>1
    <3>4. word' \in [1 .. 2 -> SUBSET (0 .. 31)]
      BY <3>1, <3>2, <2>1
    <3>5. \A j \in 0 .. 31 : j \in Shifted(val, O(f)) <=> j - O(f) \in val
      BY <1>3, <1>4, <2>3 DEF Shifted
    <3>6. \A j \in 32 .. 63 : j - O(f) \notin val
      BY <1>3, <1>4, <2>3
    <3> QED
      BY <3>3, <3>4, <3>5, <3>6 DEF IsSet
  <2> QED
    BY <2>2, <2>3
<1>8. \A g, h \in DOMAIN put' : g[1] \in Cookies /\ h[1] \in Cookies => g = h
  BY <1>1, <1>6 DEF PutInv
<1>9. ASSUME NEW j \in 0 .. 63
      PROVE  IsSet(word', j) <=> \E g \in DOMAIN put' : j - O(g) \in put'[g]
  <2>1. IsSet(word, j) <=> \E g \in DOMAIN put : j - O(g) \in put[g]
    BY DEF PutInv
  <2> QED
    BY <2>1, <1>6, <1>7
<1>10. /\ put' = [g \in DOMAIN put' |-> put'[g]]
       /\ DOMAIN put' \subseteq Fields
       /\ \A g \in DOMAIN put' : put'[g] \in SUBSET (0 .. Width(g) - 1)
  BY <1>2, <1>4, <1>6 DEF PutInv
<1> QED
  BY <1>5, <1>7, <1>8, <1>9, <1>10 DEF PutInv, O, Width

\* The invariant holds before anything is asked for or put.
LEMMA InitJudged ==
  ASSUME SwitchInit
  PROVE  SwitchTypeOK /\ RightRegister /\ PutInv
<1>1. chip \in Chips /\ chip \in Builds /\ kind \in Kinds
  BY SwitchAssumption DEF SwitchInit
<1>2. SwitchTypeOK
  <2>1. last.rc = 0 /\ last.asked = FALSE /\ last.offset = {} /\ last.value = "old"
    BY DEF SwitchInit, NoAccess
  <2>2. word = <<{}, {}>>
    BY DEF SwitchInit
  <2>3. word \in [1 .. 2 -> SUBSET (0 .. 31)]
    BY <2>2
  <2>4. vitfd \in {-1, 0, 3} /\ opened \in BOOLEAN /\ chip \in Chips /\ kind \in Kinds
    BY <1>1 DEF SwitchInit
  <2>5. last.rc \in {-1, 0, 1} /\ last.asked \in BOOLEAN /\ last.offset \in SUBSET (0 .. 15)
        /\ last.value \in {"old", "new", "zero"}
    BY <2>1
  <2> QED
    BY <2>3, <2>4, <2>5 DEF SwitchTypeOK
<1>3. RightRegister
  BY DEF SwitchInit, RightRegister
<1>4. PutInv
  <2>1. DOMAIN put = {} /\ put = [f \in DOMAIN put |-> put[f]]
    BY DEF SwitchInit
  <2>a. word = <<{}, {}>>
    BY DEF SwitchInit
  <2>b. word \in [1 .. 2 -> SUBSET (0 .. 31)] /\ word[1] = {} /\ word[2] = {}
    BY <2>a
  <2>2. word \in [1 .. 2 -> SUBSET (0 .. 31)] /\ \A j \in 0 .. 63 : ~IsSet(word, j)
    BY <2>b DEF IsSet
  <2> QED
    BY <1>1, <2>1, <2>2 DEF PutInv
<1> QED
  BY <1>2, <1>3, <1>4

\* The last access has its types and reached the register asked for.
Judged ==
  /\ last.rc \in {-1, 0, 1} /\ last.asked \in BOOLEAN /\ last.offset \in SUBSET (0 .. 15)
  /\ last.value \in {"old", "new", "zero"}
  /\ RightRegister

\* An access to a register in its own sub block, or elsewhere, is judged right.
LEMMA AccessJudged ==
  ASSUME chip \in Builds, chip' = chip,
         NEW f \in Files(chip), NEW r \in f.regs, NEW sub \in f.subs \cup {Elsewhere},
         NEW k \in 0 .. Length(chip, r[1]) - 1,
         Access(f.blk, sub, r[1], r[2] + k)
  PROVE  Judged'
<1> DEFINE reg == r[2] + k
<1>1. f.blk \in 1 .. 7 /\ f.blk # B_PORT_HI /\ sub \in Nat
  BY SwitchAssumption
  DEF Files, B_PORT, B_ANALYZER, B_MIIM, B_CAPTURE, B_ARBITER, B_PORT_HI, B_SYSTEM,
      Elsewhere, VTSS_CHIP_PORT_CPU, VTSS_CHIP_PORTS, S_MEMINIT, S_ACL, S_VAUI,
      DataSubs, S_CAPTURE_STATUS, S_CAPTURE_RESET
<1>2. f.blk \in {B_CAPTURE, B_SYSTEM} => sub \in 0 .. 15
  BY DEF Files, B_PORT, B_ANALYZER, B_MIIM, B_CAPTURE, B_ARBITER,
         B_SYSTEM, Elsewhere, DataSubs, S_CAPTURE_STATUS, S_CAPTURE_RESET
<1>3. reg \in 0 .. 255
  <2>1. /\ r[2] \in Nat /\ r[2] + Length(chip, r[1]) <= 256
        /\ Length(chip, r[1]) \in 1 .. 64
    BY TableApart, ArrayLengthRange DEF Apart
  <2>2. \A x, n, j \in Int :
          x >= 0 /\ x + n <= 256 /\ j \in 0 .. n - 1 => x + j \in 0 .. 255
    OBVIOUS
  <2>3. r[2] \in Int /\ r[2] >= 0 /\ Length(chip, r[1]) \in Int /\ k \in Int
    BY <2>1
  <2> QED
    BY <2>1, <2>2, <2>3
<1> HIDE DEF reg
<1>4. PICK a \in ht_rd_wr(f.blk, sub, reg) :
        last' = [blk |-> f.blk, sub |-> sub, name |-> r[1], reg |-> reg,
                 rc |-> a.rc, asked |-> a.asked, offset |-> a.offset, value |-> a.value]
  BY DEF Access, reg
<1>5. Answered(f.blk, sub, reg, a)
  BY <1>1, <1>2, <1>3, AnswerTo
<1>6. /\ last'.blk = f.blk /\ last'.sub = sub /\ last'.name = r[1] /\ last'.reg = reg
      /\ last'.rc = a.rc /\ last'.asked = a.asked /\ last'.offset = a.offset
      /\ last'.value = a.value
  BY <1>4
<1>7. sub # Elsewhere =>
        LET own == Owners(chip, f.blk, sub, reg)
        IN  own = {r[1]} \/ (r[1] \in KnownAlias /\ own = KnownAlias)
  BY OneOwner DEF reg
<1>8. RightRegister'
  BY <1>5, <1>6, <1>7 DEF Answered, RightRegister
<1> QED
  BY <1>5, <1>6, <1>8 DEF Answered, Judged

\* What lives where the buffer of queue 3 or 4 is read on a chip without FIFOs.
LEMMA MisreadOwners ==
  ASSUME NEW c \in Builds, "SPARX_28" \notin c
  PROVE  Owners(c, B_CAPTURE, 4, 0) = {"CAPREADP"} /\ Owners(c, B_CAPTURE, 6, 0) = {}
<1> DEFINE At(sub) == {g \in Files(c) : g.blk = B_CAPTURE /\ sub \in g.subs}
           status == [blk |-> B_CAPTURE, subs |-> S_CAPTURE_STATUS(c), regs |-> Capture(c)]
           Names(f) == {r[1] : r \in {s \in f.regs : 0 \in s[2] .. s[2] + Length(c, s[1]) - 1}}
<1> USE DEF B_PORT, B_ANALYZER, B_MIIM, B_CAPTURE, B_ARBITER, B_SYSTEM
<1>1. At(6) = {}
  BY DEF Files, DataSubs, S_CAPTURE_STATUS, S_CAPTURE_RESET
<1>2. At(4) = {status}
  BY DEF Files, DataSubs, S_CAPTURE_STATUS, S_CAPTURE_RESET
<1>3. \A r \in Capture(c) : r[2] \in Nat /\ (r[2] = 0 <=> r[1] = "CAPREADP")
  BY DEF Capture, When
<1>4. <<"CAPREADP", 0>> \in Capture(c)
  BY DEF Capture, When
<1>5. \A r \in Capture(c) : 0 \in r[2] .. r[2] + Length(c, r[1]) - 1 <=> r[2] = 0
  BY <1>3, ArrayLengthRange
<1>6. Names(status) = {"CAPREADP"}
  <2>1. status.regs = Capture(c)
    OBVIOUS
  <2> HIDE DEF status
  <2> QED
    BY <2>1, <1>3, <1>4, <1>5
<1>7. \A sub : Owners(c, B_CAPTURE, sub, 0) = UNION {Names(f) : f \in At(sub)}
  BY DEF Owners
<1> HIDE DEF At, Names, status
<1>8. UNION {Names(f) : f \in {status}} = Names(status)
  OBVIOUS
<1> QED
  BY <1>1, <1>2, <1>6, <1>7, <1>8

\* A read of the buffer names the frame data of its queue, or is one of Misread.
LEMMA ReadbufferJudged ==
  ASSUME chip \in Builds, ht_cpurx_readbuffer PROVE Judged'
<1>1. PICK queue_no \in 1 .. 4 :
        Access(B_CAPTURE,
                  S_CAPTURE_DATA + (queue_no - VTSS_CPU_RX_QUEUE_START) * 2,
                  "FRAME_DATA", 0)
  BY DEF ht_cpurx_readbuffer
<1> DEFINE sub == S_CAPTURE_DATA + (queue_no - VTSS_CPU_RX_QUEUE_START) * 2
           f == [blk |-> B_CAPTURE, subs |-> DataSubs(chip),
                 regs |-> {<<"FRAME_DATA", S_CAPTURE_DATA>>}]
           r == <<"FRAME_DATA", S_CAPTURE_DATA>>
<1>2. /\ sub \in {0, 2, 4, 6} /\ chip' = chip
      /\ sub \in DataSubs(chip) \/ ("SPARX_28" \notin chip /\ sub \in {4, 6})
  BY DEF ht_cpurx_readbuffer, DataSubs, S_CAPTURE_DATA, VTSS_CPU_RX_QUEUE_START
<1>3. CASE sub \in DataSubs(chip)
  <2>1. f \in Files(chip)
    BY DEF Files
  <2>2. /\ f.blk = B_CAPTURE /\ f.subs = DataSubs(chip) /\ f.regs = {r}
        /\ r[1] = "FRAME_DATA" /\ r[2] + 0 = 0
    BY DEF S_CAPTURE_DATA
  <2>3. Access(f.blk, sub, r[1], r[2] + 0)
    BY <1>1, <2>2
  <2>4. 0 \in 0 .. Length(chip, r[1]) - 1
    <3>1. Length(chip, r[1]) \in 1 .. 64
      BY ArrayLengthRange
    <3> QED
      BY <3>1
  <2> HIDE DEF sub, f, r
  <2>5. r \in f.regs /\ sub \in f.subs \cup {Elsewhere}
    BY <1>3, <2>2
  <2> QED
    BY <1>2, <2>1, <2>3, <2>4, <2>5, AccessJudged, Zenon
<1>4. CASE "SPARX_28" \notin chip /\ sub \in {4, 6}
  <2> HIDE DEF sub
  <2>1. PICK a \in ht_rd_wr(B_CAPTURE, sub, 0) :
          last' = [blk |-> B_CAPTURE, sub |-> sub, name |-> "FRAME_DATA", reg |-> 0,
                   rc |-> a.rc, asked |-> a.asked, offset |-> a.offset, value |-> a.value]
    BY <1>1 DEF Access, sub
  <2>2. Answered(B_CAPTURE, sub, 0, a)
    <3>1. /\ B_CAPTURE \in 1 .. 7 /\ B_CAPTURE # B_PORT_HI /\ sub \in Nat
          /\ sub \in 0 .. 15 /\ 0 \in 0 .. 255
      BY <1>4 DEF B_CAPTURE, B_PORT_HI
    <3> QED
      BY <3>1, AnswerTo
  <2>3. /\ last'.blk = B_CAPTURE /\ last'.sub = sub /\ last'.name = "FRAME_DATA"
        /\ last'.reg = 0 /\ last'.rc = a.rc /\ last'.asked = a.asked
        /\ last'.offset = a.offset /\ last'.value = a.value
    BY <2>1
  <2>4. LET own == Owners(chip, B_CAPTURE, sub, 0)
        IN  (sub = 4 /\ own = {"CAPREADP"}) \/ (sub = 6 /\ own = {})
    BY <1>4, MisreadOwners
  <2>5. sub # Elsewhere
    BY <1>4 DEF Elsewhere
  <2>6. RightRegister'
    BY <1>2, <1>4, <2>2, <2>3, <2>4, <2>5 DEF Answered, RightRegister, Misread
  <2> QED
    BY <2>2, <2>3, <2>6 DEF Answered, Judged
<1> QED
  BY <1>2, <1>3, <1>4

\* The inductive invariant of the driver.
SwitchInv == SwitchTypeOK /\ RightRegister /\ PutInv

\* The invariant is inductive.
LEMMA SwitchStep ==
  ASSUME SwitchInv, [SwitchNext]_switchVars
  PROVE  SwitchInv'
<1> USE DEF SwitchInv
<1>1. chip \in Builds
  BY DEF PutInv
<1>2. ASSUME UNCHANGED <<chip, last>> PROVE RightRegister'
  BY <1>2, Zenon DEF RightRegister, Misread
<1>3. ASSUME UNCHANGED <<chip, kind, word, put>> PROVE PutInv'
  BY <1>3 DEF PutInv, Fields, IsSet
<1>4. ASSUME vtss_vit_init PROVE SwitchInv'
  <2>1. /\ UNCHANGED <<chip, last, kind, word, put>>
        /\ vitfd' \in {-1, 0, 3} /\ opened' \in BOOLEAN
    BY <1>4 DEF vtss_vit_init
  <2> QED
    BY <2>1, <1>2, <1>3 DEF SwitchTypeOK
<1>5. ASSUME vtss_vit_exit PROVE SwitchInv'
  <2>1. UNCHANGED <<chip, vitfd, last, kind, word, put>> /\ opened' \in BOOLEAN
    BY <1>5 DEF vtss_vit_exit
  <2> QED
    BY <2>1, <1>2, <1>3 DEF SwitchTypeOK
<1>6. ASSUME Judged', UNCHANGED <<chip, vitfd, opened, kind, word, put>> PROVE SwitchInv'
  BY <1>6, <1>3 DEF SwitchTypeOK, Judged
<1>7. ASSUME ht_rd PROVE SwitchInv'
  <2>1. UNCHANGED <<chip, vitfd, opened, kind, word, put>>
    BY <1>7 DEF ht_rd
  <2>2. PICK f \in Files(chip) : \E r \in f.regs : \E sub \in f.subs \cup {Elsewhere},
              k \in 0 .. Length(chip, r[1]) - 1 : Access(f.blk, sub, r[1], r[2] + k)
    BY <1>7 DEF ht_rd
  <2>3. PICK r \in f.regs, sub \in f.subs \cup {Elsewhere} :
          \E k \in 0 .. Length(chip, r[1]) - 1 : Access(f.blk, sub, r[1], r[2] + k)
    BY <2>2
  <2>4. PICK k \in 0 .. Length(chip, r[1]) - 1 : Access(f.blk, sub, r[1], r[2] + k)
    BY <2>3
  <2>5. Judged'
    BY <1>1, <2>1, <2>4, AccessJudged
  <2> QED
    BY <2>1, <2>5, <1>6
<1>8. ASSUME ht_cpurx_readbuffer PROVE SwitchInv'
  <2>1. UNCHANGED <<chip, vitfd, opened, kind, word, put>>
    BY <1>8 DEF ht_cpurx_readbuffer
  <2> QED
    BY <2>1, <1>1, <1>6, <1>8, ReadbufferJudged
<1>9. ASSUME Put PROVE SwitchInv'
  <2>1. UNCHANGED <<chip, vitfd, opened, last, kind>>
    BY <1>9 DEF Put
  <2>2. PutInv'
    BY <1>9, PutStep
  <2>3. word' \in [1 .. 2 -> SUBSET (0 .. 31)]
    BY <2>2 DEF PutInv
  <2> QED
    BY <2>1, <2>2, <2>3, <1>2 DEF SwitchTypeOK
<1>10. ASSUME UNCHANGED switchVars PROVE SwitchInv'
  <2>1. UNCHANGED <<chip, vitfd, opened, last, kind, word, put>>
    BY <1>10 DEF switchVars
  <2> QED
    BY <2>1, <1>2, <1>3 DEF SwitchTypeOK
<1> QED
  BY <1>4, <1>5, <1>7, <1>8, <1>9, <1>10 DEF SwitchNext

\* The invariant always holds.
LEMMA SwitchAlways == SwitchSpec => []SwitchInv
<1>1. SwitchInit => SwitchInv
  BY InitJudged DEF SwitchInv
<1>2. SwitchInv /\ [SwitchNext]_switchVars => SwitchInv'
  BY SwitchStep
<1> QED
  BY <1>1, <1>2, PTL DEF SwitchSpec

\* The driver's variables keep their types and its offsets their 16 bits, for
\* every set of ports and every value of a field.
THEOREM SwitchTypeCorrect == SwitchSpec => []SwitchTypeOK
<1>1. SwitchInv => SwitchTypeOK
  BY DEF SwitchInv
<1> QED
  BY <1>1, SwitchAlways, PTL

\* On each of the nine chips an access of the library names the register it asks
\* for and no other, or is refused before the driver sees it, for every set of
\* ports; the exceptions are the buffers of queues 3 and 4 on the chips without
\* FIFOs, which are read out of the status sub block and out of nothing.
THEOREM RegistersRight == SwitchSpec => []RightRegister
<1>1. SwitchInv => RightRegister
  BY DEF SwitchInv
<1> QED
  BY <1>1, SwitchAlways, PTL

\* A field of a frame header is read back as it was put, whatever values and
\* however many other fields are put before and after it.
THEOREM FieldsKept == SwitchSpec => []FieldsReadBack
<1>1. SwitchInv => FieldsReadBack
  BY ReadBack DEF SwitchInv
<1> QED
  BY <1>1, SwitchAlways, PTL
===============================================================================

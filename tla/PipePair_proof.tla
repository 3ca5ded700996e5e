--------------------------- MODULE PipePair_proof ---------------------------
(***************************************************************************)
(* Proofs about one pair of the pipe benchmark, for every word width, pipe *)
(* capacity and duration, with or without kills from outside.              *)
(***************************************************************************)
EXTENDS PipePair, TLAPS

\* Where the master stands before the slave may hold the turn.
BeforeLoop == {"pipe", "fork", "timer", "m_close1", "m_close2"}

\* Which pipe ends a process may hold at each point, and when the slave exists.
FdInv ==
  /\ mpc = "pipe" => fds["master"] = {}
  /\ mpc \in {"pipe", "fork"} => spc = "none"
  /\ spc = "none" => mpc \in {"pipe", "fork", "done"} /\ fds["slave"] = {}
  /\ mpc = "done" => fds["master"] = {}
  /\ spc = "done" => fds["slave"] = {}
  /\ "p1w" \in fds["slave"] => spc = "s_close1"
  /\ "p1w" \in fds["master"] => mpc \notin ReportPoints \ {"r_close1"}
  /\ "p2w" \in fds["master"] => mpc \in BeforeLoop \cup ReportPoints

\* What the handler has established before each of its steps, and that only a
\* duration arms its clock.
ReportInv ==
  /\ reaped => spc = "done"
  /\ mpc \in {"r_times", "r_open", "r_log"} => spc = "done"
  /\ log # NoLog => spc = "done"
  /\ mpc \notin {"r_log", "done"} => log = NoLog
  /\ mpc = "r_log" => log = EmptyLog
  /\ log \in 0 .. P - 1 => mpc = "done" /\ log = Low(iter)
  /\ timer = "armed" => Duration # 0

\* Where the turn is, and which number goes with it.
TurnInv ==
  /\ pongs \in {iter, Succ(iter)}
  /\ spc # "done" => pongs = (IF spc = "s_incr" THEN Succ(iter1) ELSE iter1)
  /\ p1 # <<>> => /\ p1 = <<iter>> /\ p2 = <<>> /\ pongs = iter
                  /\ spc \notin {"s_check", "s_write"}
  /\ p2 # <<>> => p2 = <<iter>> /\ p1 = <<>> /\ pongs = Succ(iter)
  /\ spc \in {"s_check", "s_write"} =>
       p1 = <<>> /\ p2 = <<>> /\ pongs = iter /\ scheck = iter
  /\ mpc \in BeforeLoop \cup {"m_write"} =>
       p1 = <<>> /\ p2 = <<>> /\ pongs = iter /\ spc \notin {"s_check", "s_write"}
  /\ mpc \in {"m_check", "m_incr"} =>
       /\ p1 = <<>> /\ p2 = <<>> /\ pongs = Succ(iter) /\ mcheck = iter
       /\ spc \notin {"s_check", "s_write"}
  /\ NoSyncError

IInv == TypeOK /\ FdInv /\ ReportInv /\ TurnInv

\* The next number is a number.
LEMMA SuccType == ASSUME NEW n \in 0 .. W - 1
                  PROVE  Succ(n) \in 0 .. W - 1
  BY PairAssumption DEF Succ

\* What is printed is a printable number.
LEMMA LowType == ASSUME NEW n \in 0 .. W - 1
                 PROVE  Low(n) \in 0 .. P - 1
  BY PairAssumption DEF Low

USE DEF Ends, NoLog, EmptyLog, ERR_SUC, ERR_PIP, ERR_FRK, ERR_RED, ERR_FOP,
        ERR_SYN, ERR_CLK, Running, SigPipe, Killed

\* Every initial state satisfies the inductive invariant.
LEMMA InitInv == Init => IInv
<1> SUFFICES ASSUME Init PROVE IInv
  OBVIOUS
<1>1. 0 \in 0 .. W - 1 /\ 0 <= PipeCap
  BY PairAssumption
<1>2. p1 = <<>> /\ p2 = <<>> /\ Len(p1) = 0 /\ Len(p2) = 0
  BY DEF Init
<1>3. TypeOK
  <2>1. p1 \in Seq(0 .. W - 1) /\ p2 \in Seq(0 .. W - 1)
    BY <1>2
  <2> QED
    BY <1>1, <1>2, <2>1 DEF Init, TypeOK, MasterPoints, SlavePoints
<1>4. FdInv
  BY DEF Init, FdInv, ReportPoints
<1>5. ReportInv
  BY DEF Init, ReportInv
<1>6. TurnInv
  BY DEF Init, TurnInv, SlaveAlive, NoSyncError
<1> QED
  BY <1>3, <1>4, <1>5, <1>6 DEF IInv

\* The three parts of the type invariant that different facts preserve.
ControlOK ==
  /\ mpc \in MasterPoints /\ spc \in SlavePoints
  /\ timer \in {"off", "armed", "fired"} /\ reaped \in BOOLEAN
  /\ mcode \in {Running, SigPipe, Killed, ERR_SUC, ERR_PIP, ERR_FRK, ERR_RED,
                ERR_FOP, ERR_SYN, ERR_CLK}
  /\ scode \in {Running, SigPipe, Killed, ERR_RED, ERR_SYN}
FdsOK == fds \in [{"master", "slave"} -> SUBSET Ends]
PipesOK == /\ p1 \in Seq(0 .. W - 1) /\ p2 \in Seq(0 .. W - 1)
           /\ Len(p1) <= PipeCap /\ Len(p2) <= PipeCap
CountsOK == /\ iter \in 0 .. W - 1 /\ iter1 \in 0 .. W - 1 /\ pongs \in 0 .. W - 1
            /\ mcheck \in 0 .. W - 1 /\ scheck \in 0 .. W - 1
            /\ log \in {NoLog, EmptyLog} \cup 0 .. P - 1

\* The type invariant is the sum of its parts.
LEMMA TypeParts == TypeOK <=> ControlOK /\ FdsOK /\ PipesOK /\ CountsOK
  BY DEF TypeOK, ControlOK, FdsOK, PipesOK, CountsOK

\* Writing to a pipe appends one number.
LEMMA Queue == ASSUME NEW S, NEW q \in Seq(S), NEW x \in S
               PROVE  Append(q, x) \in Seq(S) /\ Len(Append(q, x)) = Len(q) + 1
  OBVIOUS

\* Reading a pipe that is not empty gives a number.
LEMMA HeadType == ASSUME NEW S, NEW q \in Seq(S), q # <<>>
                  PROVE  Head(q) \in S
  OBVIOUS

\* Every step leads from program point to program point.
LEMMA ControlStep == ControlOK /\ [Next]_vars => ControlOK'
<1> SUFFICES ASSUME ControlOK, [Next]_vars PROVE ControlOK'
  OBVIOUS
<1> USE DEF ControlOK, MasterPoints, SlavePoints, LoopPoints, ReportPoints
<1>1. CASE CreatePipes
  BY <1>1 DEF CreatePipes, MasterEnds, slaveVars, loopVars, reportVars
<1>2. CASE ForkSlave
  BY <1>2 DEF ForkSlave, MasterEnds, loopVars, reportVars
<1>3. CASE WakeMe
  BY <1>3 DEF WakeMe, slaveVars, loopVars
<1>4. CASE MasterCloses
  BY <1>4 DEF MasterCloses, Close, slaveVars, loopVars, reportVars
<1>5. CASE MasterWrite
  BY <1>5 DEF MasterWrite, MasterEnds, slaveVars, loopVars, reportVars
<1>6. CASE MasterRead
  BY <1>6 DEF MasterRead, MasterEnds, slaveVars, reportVars
<1>7. CASE MasterCheck
  BY <1>7 DEF MasterCheck, MasterEnds, slaveVars, loopVars, reportVars
<1>8. CASE MasterCount
  BY <1>8 DEF MasterCount, slaveVars, reportVars
<1>9. CASE ReportCloses
  BY <1>9 DEF ReportCloses, Close, slaveVars, loopVars, reportVars
<1>10. CASE ReportWaits
  BY <1>10 DEF ReportWaits, slaveVars, loopVars
<1>11. CASE ReportTimes
  BY <1>11 DEF ReportTimes, MasterEnds, slaveVars, loopVars, reportVars
<1>12. CASE ReportOpens
  BY <1>12 DEF ReportOpens, MasterEnds, slaveVars, loopVars
<1>13. CASE ReportLogs
  BY <1>13 DEF ReportLogs, MasterEnds, slaveVars, loopVars
<1>14. CASE SlaveCloses
  BY <1>14 DEF SlaveCloses, Close, masterVars
<1>15. CASE SlaveRead
  BY <1>15 DEF SlaveRead, SlaveEnds, masterVars
<1>16. CASE SlaveCheck
  BY <1>16 DEF SlaveCheck, SlaveEnds, masterVars
<1>17. CASE SlaveWrite
  BY <1>17 DEF SlaveWrite, SlaveEnds, masterVars
<1>18. CASE SlaveCount
  BY <1>18 DEF SlaveCount, masterVars
<1>19. CASE Alarm
  BY <1>19 DEF Alarm, slaveVars, loopVars
<1>20. CASE Kill
  BY <1>20 DEF Kill, MasterEnds, SlaveEnds, loopVars, reportVars
<1>21. CASE Finished \/ UNCHANGED vars
  BY <1>21 DEF Finished, vars
<1> QED
  BY <1>1, <1>2, <1>3, <1>4, <1>5, <1>6, <1>7, <1>8, <1>9, <1>10, <1>11, <1>12, <1>13, <1>14, <1>15, <1>16, <1>17, <1>18, <1>19, <1>20, <1>21 DEF Next, MasterStep, SlaveStep

\* Every step leaves sets of pipe ends.
LEMMA FdsStep == FdsOK /\ [Next]_vars => FdsOK'
<1> SUFFICES ASSUME FdsOK, [Next]_vars PROVE FdsOK'
  OBVIOUS
<1> USE DEF FdsOK
<1>1. CASE CreatePipes
  BY <1>1 DEF CreatePipes, MasterEnds, slaveVars, loopVars, reportVars
<1>2. CASE ForkSlave
  BY <1>2 DEF ForkSlave, MasterEnds, loopVars, reportVars
<1>3. CASE WakeMe
  BY <1>3 DEF WakeMe, slaveVars, loopVars
<1>4. CASE MasterCloses
  BY <1>4 DEF MasterCloses, Close, slaveVars, loopVars, reportVars
<1>5. CASE MasterWrite
  BY <1>5 DEF MasterWrite, MasterEnds, slaveVars, loopVars, reportVars
<1>6. CASE MasterRead
  BY <1>6 DEF MasterRead, MasterEnds, slaveVars, reportVars
<1>7. CASE MasterCheck
  BY <1>7 DEF MasterCheck, MasterEnds, slaveVars, loopVars, reportVars
<1>8. CASE MasterCount
  BY <1>8 DEF MasterCount, slaveVars, reportVars
<1>9. CASE ReportCloses
  BY <1>9 DEF ReportCloses, Close, slaveVars, loopVars, reportVars
<1>10. CASE ReportWaits
  BY <1>10 DEF ReportWaits, slaveVars, loopVars
<1>11. CASE ReportTimes
  BY <1>11 DEF ReportTimes, MasterEnds, slaveVars, loopVars, reportVars
<1>12. CASE ReportOpens
  BY <1>12 DEF ReportOpens, MasterEnds, slaveVars, loopVars
<1>13. CASE ReportLogs
  BY <1>13 DEF ReportLogs, MasterEnds, slaveVars, loopVars
<1>14. CASE SlaveCloses
  BY <1>14 DEF SlaveCloses, Close, masterVars
<1>15. CASE SlaveRead
  BY <1>15 DEF SlaveRead, SlaveEnds, masterVars
<1>16. CASE SlaveCheck
  BY <1>16 DEF SlaveCheck, SlaveEnds, masterVars
<1>17. CASE SlaveWrite
  BY <1>17 DEF SlaveWrite, SlaveEnds, masterVars
<1>18. CASE SlaveCount
  BY <1>18 DEF SlaveCount, masterVars
<1>19. CASE Alarm
  BY <1>19 DEF Alarm, slaveVars, loopVars
<1>20. CASE Kill
  BY <1>20 DEF Kill, MasterEnds, SlaveEnds, loopVars, reportVars
<1>21. CASE Finished \/ UNCHANGED vars
  BY <1>21 DEF Finished, vars
<1> QED
  BY <1>1, <1>2, <1>3, <1>4, <1>5, <1>6, <1>7, <1>8, <1>9, <1>10, <1>11, <1>12, <1>13, <1>14, <1>15, <1>16, <1>17, <1>18, <1>19, <1>20, <1>21 DEF Next, MasterStep, SlaveStep

\* Every step leaves numbers in the pipes, and no more than fit.
LEMMA PipesStep == PipesOK /\ CountsOK /\ [Next]_vars => PipesOK'
<1> SUFFICES ASSUME PipesOK /\ CountsOK, [Next]_vars PROVE PipesOK'
  OBVIOUS
<1> USE DEF PipesOK, CountsOK
<1>1. CASE CreatePipes
  BY <1>1 DEF CreatePipes, MasterEnds, slaveVars, loopVars, reportVars
<1>2. CASE ForkSlave
  BY <1>2 DEF ForkSlave, MasterEnds, loopVars, reportVars
<1>3. CASE WakeMe
  BY <1>3 DEF WakeMe, slaveVars, loopVars
<1>4. CASE MasterCloses
  BY <1>4 DEF MasterCloses, Close, slaveVars, loopVars, reportVars
<1>5. CASE MasterWrite
  <2>1. CASE p1' = Append(p1, iter) /\ Len(p1) < PipeCap
    <3>1. p1' \in Seq(0 .. W - 1) /\ Len(p1') = Len(p1) + 1
      BY <2>1, Queue
    <3> QED
      BY <1>5, <2>1, <3>1, PairAssumption DEF MasterWrite, MasterEnds, slaveVars, loopVars, reportVars
  <2>2. CASE UNCHANGED p1
    BY <1>5, <2>2 DEF MasterWrite, MasterEnds, slaveVars, loopVars, reportVars
  <2> QED
    BY <1>5, <2>1, <2>2 DEF MasterWrite
<1>6. CASE MasterRead
  <2>1. CASE p2 # <<>> /\ p2' = Tail(p2)
    <3>1. p2' \in Seq(0 .. W - 1) /\ Len(p2') = Len(p2) - 1
      BY <2>1
    <3>2. UNCHANGED p1
      BY <1>6 DEF MasterRead
    <3> QED
      BY <3>1, <3>2, PairAssumption
  <2>2. CASE UNCHANGED p2
    BY <1>6, <2>2 DEF MasterRead, MasterEnds, slaveVars, reportVars
  <2> QED
    BY <1>6, <2>1, <2>2 DEF MasterRead
<1>7. CASE MasterCheck
  BY <1>7 DEF MasterCheck, MasterEnds, slaveVars, loopVars, reportVars
<1>8. CASE MasterCount
  BY <1>8 DEF MasterCount, slaveVars, reportVars
<1>9. CASE ReportCloses
  BY <1>9 DEF ReportCloses, Close, slaveVars, loopVars, reportVars
<1>10. CASE ReportWaits
  BY <1>10 DEF ReportWaits, slaveVars, loopVars
<1>11. CASE ReportTimes
  BY <1>11 DEF ReportTimes, MasterEnds, slaveVars, loopVars, reportVars
<1>12. CASE ReportOpens
  BY <1>12 DEF ReportOpens, MasterEnds, slaveVars, loopVars
<1>13. CASE ReportLogs
  BY <1>13 DEF ReportLogs, MasterEnds, slaveVars, loopVars
<1>14. CASE SlaveCloses
  BY <1>14 DEF SlaveCloses, Close, masterVars
<1>15. CASE SlaveRead
  <2>1. CASE p1 # <<>> /\ p1' = Tail(p1)
    <3>1. p1' \in Seq(0 .. W - 1) /\ Len(p1') = Len(p1) - 1
      BY <2>1
    <3>2. UNCHANGED p2
      BY <1>15 DEF SlaveRead
    <3> QED
      BY <3>1, <3>2, PairAssumption
  <2>2. CASE UNCHANGED p1
    BY <1>15, <2>2 DEF SlaveRead, SlaveEnds, masterVars
  <2> QED
    BY <1>15, <2>1, <2>2 DEF SlaveRead
<1>16. CASE SlaveCheck
  BY <1>16 DEF SlaveCheck, SlaveEnds, masterVars
<1>17. CASE SlaveWrite
  <2>1. CASE p2' = Append(p2, iter1) /\ Len(p2) < PipeCap
    <3>1. p2' \in Seq(0 .. W - 1) /\ Len(p2') = Len(p2) + 1
      BY <2>1, Queue
    <3> QED
      BY <1>17, <2>1, <3>1, PairAssumption DEF SlaveWrite, SlaveEnds, masterVars
  <2>2. CASE UNCHANGED p2
    BY <1>17, <2>2 DEF SlaveWrite, SlaveEnds, masterVars
  <2> QED
    BY <1>17, <2>1, <2>2 DEF SlaveWrite
<1>18. CASE SlaveCount
  BY <1>18 DEF SlaveCount, masterVars
<1>19. CASE Alarm
  BY <1>19 DEF Alarm, slaveVars, loopVars
<1>20. CASE Kill
  BY <1>20 DEF Kill, MasterEnds, SlaveEnds, loopVars, reportVars
<1>21. CASE Finished \/ UNCHANGED vars
  BY <1>21 DEF Finished, vars
<1> QED
  BY <1>1, <1>2, <1>3, <1>4, <1>5, <1>6, <1>7, <1>8, <1>9, <1>10, <1>11, <1>12, <1>13, <1>14, <1>15, <1>16, <1>17, <1>18, <1>19, <1>20, <1>21 DEF Next, MasterStep, SlaveStep

\* Every step leaves numbers of a word's width.
LEMMA CountsStep == PipesOK /\ CountsOK /\ [Next]_vars => CountsOK'
<1> SUFFICES ASSUME PipesOK /\ CountsOK, [Next]_vars PROVE CountsOK'
  OBVIOUS
<1> USE DEF PipesOK, CountsOK
<1>1. CASE CreatePipes
  BY <1>1 DEF CreatePipes, MasterEnds, slaveVars, loopVars, reportVars
<1>2. CASE ForkSlave
  BY <1>2 DEF ForkSlave, MasterEnds, loopVars, reportVars
<1>3. CASE WakeMe
  BY <1>3 DEF WakeMe, slaveVars, loopVars
<1>4. CASE MasterCloses
  BY <1>4 DEF MasterCloses, Close, slaveVars, loopVars, reportVars
<1>5. CASE MasterWrite
  BY <1>5 DEF MasterWrite, MasterEnds, slaveVars, loopVars, reportVars
<1>6. CASE MasterRead
  <2>1. p2 # <<>> => Head(p2) \in 0 .. W - 1
    BY HeadType
  <2> QED
    BY <1>6, <2>1 DEF MasterRead, MasterEnds, slaveVars, reportVars
<1>7. CASE MasterCheck
  BY <1>7 DEF MasterCheck, MasterEnds, slaveVars, loopVars, reportVars
<1>8. CASE MasterCount
  BY <1>8, SuccType DEF MasterCount, slaveVars, reportVars
<1>9. CASE ReportCloses
  BY <1>9 DEF ReportCloses, Close, slaveVars, loopVars, reportVars
<1>10. CASE ReportWaits
  BY <1>10 DEF ReportWaits, slaveVars, loopVars
<1>11. CASE ReportTimes
  BY <1>11 DEF ReportTimes, MasterEnds, slaveVars, loopVars, reportVars
<1>12. CASE ReportOpens
  BY <1>12 DEF ReportOpens, MasterEnds, slaveVars, loopVars
<1>13. CASE ReportLogs
  BY <1>13, LowType DEF ReportLogs, MasterEnds, slaveVars, loopVars
<1>14. CASE SlaveCloses
  BY <1>14 DEF SlaveCloses, Close, masterVars
<1>15. CASE SlaveRead
  <2>1. p1 # <<>> => Head(p1) \in 0 .. W - 1
    BY HeadType
  <2> QED
    BY <1>15, <2>1 DEF SlaveRead, SlaveEnds, masterVars
<1>16. CASE SlaveCheck
  BY <1>16 DEF SlaveCheck, SlaveEnds, masterVars
<1>17. CASE SlaveWrite
  BY <1>17, SuccType DEF SlaveWrite, SlaveEnds, masterVars
<1>18. CASE SlaveCount
  BY <1>18, SuccType DEF SlaveCount, masterVars
<1>19. CASE Alarm
  BY <1>19 DEF Alarm, slaveVars, loopVars
<1>20. CASE Kill
  BY <1>20 DEF Kill, MasterEnds, SlaveEnds, loopVars, reportVars
<1>21. CASE Finished \/ UNCHANGED vars
  BY <1>21 DEF Finished, vars
<1> QED
  BY <1>1, <1>2, <1>3, <1>4, <1>5, <1>6, <1>7, <1>8, <1>9, <1>10, <1>11, <1>12, <1>13, <1>14, <1>15, <1>16, <1>17, <1>18, <1>19, <1>20, <1>21 DEF Next, MasterStep, SlaveStep

\* Every step keeps every variable in its type.
LEMMA TypeStep == TypeOK /\ [Next]_vars => TypeOK'
<1> SUFFICES ASSUME ControlOK, FdsOK, PipesOK, CountsOK, [Next]_vars
             PROVE  ControlOK' /\ FdsOK' /\ PipesOK' /\ CountsOK'
  BY TypeParts DEF TypeOK, ControlOK, FdsOK, PipesOK, CountsOK
<1> QED
  BY ControlStep, FdsStep, PipesStep, CountsStep

\* Every step keeps the pipe ends where they belong.
LEMMA FdStep == TypeOK /\ FdInv /\ [Next]_vars => FdInv'
<1> SUFFICES ASSUME TypeOK /\ FdInv, [Next]_vars PROVE FdInv'
  OBVIOUS
<1> USE DEF TypeOK, FdInv, BeforeLoop, LoopPoints, ReportPoints, SlaveAlive, MasterAlive
<1>1. CASE CreatePipes
  BY <1>1 DEF CreatePipes, MasterEnds, slaveVars, loopVars, reportVars
<1>2. CASE ForkSlave
  BY <1>2 DEF ForkSlave, MasterEnds, loopVars, reportVars
<1>3. CASE WakeMe
  BY <1>3 DEF WakeMe, slaveVars, loopVars
<1>4. CASE MasterCloses
  BY <1>4 DEF MasterCloses, Close, slaveVars, loopVars, reportVars
<1>5. CASE MasterWrite
  BY <1>5 DEF MasterWrite, MasterEnds, slaveVars, loopVars, reportVars
<1>6. CASE MasterRead
  BY <1>6 DEF MasterRead, MasterEnds, slaveVars, reportVars
<1>7. CASE MasterCheck
  BY <1>7 DEF MasterCheck, MasterEnds, slaveVars, loopVars, reportVars
<1>8. CASE MasterCount
  BY <1>8 DEF MasterCount, slaveVars, reportVars
<1>9. CASE ReportCloses
  BY <1>9 DEF ReportCloses, Close, slaveVars, loopVars, reportVars
<1>10. CASE ReportWaits
  BY <1>10 DEF ReportWaits, slaveVars, loopVars
<1>11. CASE ReportTimes
  BY <1>11 DEF ReportTimes, MasterEnds, slaveVars, loopVars, reportVars
<1>12. CASE ReportOpens
  BY <1>12 DEF ReportOpens, MasterEnds, slaveVars, loopVars
<1>13. CASE ReportLogs
  BY <1>13 DEF ReportLogs, MasterEnds, slaveVars, loopVars
<1>14. CASE SlaveCloses
  BY <1>14 DEF SlaveCloses, Close, masterVars
<1>15. CASE SlaveRead
  BY <1>15 DEF SlaveRead, SlaveEnds, masterVars
<1>16. CASE SlaveCheck
  BY <1>16 DEF SlaveCheck, SlaveEnds, masterVars
<1>17. CASE SlaveWrite
  BY <1>17 DEF SlaveWrite, SlaveEnds, masterVars
<1>18. CASE SlaveCount
  BY <1>18 DEF SlaveCount, masterVars
<1>19. CASE Alarm
  BY <1>19 DEF Alarm, slaveVars, loopVars
<1>20. CASE Kill
  BY <1>20 DEF Kill, MasterEnds, SlaveEnds, loopVars, reportVars
<1>21. CASE Finished \/ UNCHANGED vars
  BY <1>21 DEF Finished, vars
<1> QED
  BY <1>1, <1>2, <1>3, <1>4, <1>5, <1>6, <1>7, <1>8, <1>9, <1>10, <1>11, <1>12, <1>13, <1>14, <1>15, <1>16, <1>17, <1>18, <1>19, <1>20, <1>21 DEF Next, MasterStep, SlaveStep

\* Every step of the handler follows the slave's end.
LEMMA ReportStep == TypeOK /\ FdInv /\ ReportInv /\ [Next]_vars => ReportInv'
<1> SUFFICES ASSUME TypeOK /\ FdInv /\ ReportInv, [Next]_vars PROVE ReportInv'
  OBVIOUS
<1> USE DEF TypeOK, FdInv, ReportInv, LoopPoints, ReportPoints, SlaveAlive, MasterAlive
<1>1. CASE CreatePipes
  BY <1>1 DEF CreatePipes, MasterEnds, slaveVars, loopVars, reportVars
<1>2. CASE ForkSlave
  BY <1>2 DEF ForkSlave, MasterEnds, loopVars, reportVars
<1>3. CASE WakeMe
  BY <1>3 DEF WakeMe, slaveVars, loopVars
<1>4. CASE MasterCloses
  BY <1>4 DEF MasterCloses, Close, slaveVars, loopVars, reportVars
<1>5. CASE MasterWrite
  BY <1>5 DEF MasterWrite, MasterEnds, slaveVars, loopVars, reportVars
<1>6. CASE MasterRead
  BY <1>6 DEF MasterRead, MasterEnds, slaveVars, reportVars
<1>7. CASE MasterCheck
  BY <1>7 DEF MasterCheck, MasterEnds, slaveVars, loopVars, reportVars
<1>8. CASE MasterCount
  BY <1>8 DEF MasterCount, slaveVars, reportVars
<1>9. CASE ReportCloses
  BY <1>9 DEF ReportCloses, Close, slaveVars, loopVars, reportVars
<1>10. CASE ReportWaits
  BY <1>10 DEF ReportWaits, slaveVars, loopVars
<1>11. CASE ReportTimes
  BY <1>11 DEF ReportTimes, MasterEnds, slaveVars, loopVars, reportVars
<1>12. CASE ReportOpens
  BY <1>12 DEF ReportOpens, MasterEnds, slaveVars, loopVars
<1>13. CASE ReportLogs
  BY <1>13 DEF ReportLogs, MasterEnds, slaveVars, loopVars
<1>14. CASE SlaveCloses
  BY <1>14 DEF SlaveCloses, Close, masterVars
<1>15. CASE SlaveRead
  BY <1>15 DEF SlaveRead, SlaveEnds, masterVars
<1>16. CASE SlaveCheck
  BY <1>16 DEF SlaveCheck, SlaveEnds, masterVars
<1>17. CASE SlaveWrite
  BY <1>17 DEF SlaveWrite, SlaveEnds, masterVars
<1>18. CASE SlaveCount
  BY <1>18 DEF SlaveCount, masterVars
<1>19. CASE Alarm
  BY <1>19 DEF Alarm, slaveVars, loopVars
<1>20. CASE Kill
  BY <1>20 DEF Kill, MasterEnds, SlaveEnds, loopVars, reportVars
<1>21. CASE Finished \/ UNCHANGED vars
  BY <1>21 DEF Finished, vars
<1> QED
  BY <1>1, <1>2, <1>3, <1>4, <1>5, <1>6, <1>7, <1>8, <1>9, <1>10, <1>11, <1>12, <1>13, <1>14, <1>15, <1>16, <1>17, <1>18, <1>19, <1>20, <1>21 DEF Next, MasterStep, SlaveStep

\* Every step passes the turn on, or leaves it.
LEMMA TurnStep == TypeOK /\ FdInv /\ TurnInv /\ [Next]_vars => TurnInv'
<1> SUFFICES ASSUME TypeOK /\ FdInv /\ TurnInv, [Next]_vars PROVE TurnInv'
  OBVIOUS
<1> USE DEF TypeOK, FdInv, TurnInv, BeforeLoop, LoopPoints, ReportPoints, SlaveAlive, MasterAlive, NoSyncError
<1>1. CASE CreatePipes
  BY <1>1 DEF CreatePipes, MasterEnds, slaveVars, loopVars, reportVars
<1>2. CASE ForkSlave
  BY <1>2 DEF ForkSlave, MasterEnds, loopVars, reportVars
<1>3. CASE WakeMe
  BY <1>3 DEF WakeMe, slaveVars, loopVars
<1>4. CASE MasterCloses
  BY <1>4 DEF MasterCloses, Close, slaveVars, loopVars, reportVars
<1>5. CASE MasterWrite
  BY <1>5 DEF MasterWrite, MasterEnds, slaveVars, loopVars, reportVars
<1>6. CASE MasterRead
  BY <1>6 DEF MasterRead, MasterEnds, slaveVars, reportVars
<1>7. CASE MasterCheck
  BY <1>7 DEF MasterCheck, MasterEnds, slaveVars, loopVars, reportVars
<1>8. CASE MasterCount
  BY <1>8 DEF MasterCount, slaveVars, reportVars
<1>9. CASE ReportCloses
  BY <1>9 DEF ReportCloses, Close, slaveVars, loopVars, reportVars
<1>10. CASE ReportWaits
  BY <1>10 DEF ReportWaits, slaveVars, loopVars
<1>11. CASE ReportTimes
  BY <1>11 DEF ReportTimes, MasterEnds, slaveVars, loopVars, reportVars
<1>12. CASE ReportOpens
  BY <1>12 DEF ReportOpens, MasterEnds, slaveVars, loopVars
<1>13. CASE ReportLogs
  BY <1>13 DEF ReportLogs, MasterEnds, slaveVars, loopVars
<1>14. CASE SlaveCloses
  BY <1>14 DEF SlaveCloses, Close, masterVars
<1>15. CASE SlaveRead
  BY <1>15 DEF SlaveRead, SlaveEnds, masterVars
<1>16. CASE SlaveCheck
  BY <1>16 DEF SlaveCheck, SlaveEnds, masterVars
<1>17. CASE SlaveWrite
  BY <1>17 DEF SlaveWrite, SlaveEnds, masterVars
<1>18. CASE SlaveCount
  BY <1>18 DEF SlaveCount, masterVars
<1>19. CASE Alarm
  BY <1>19 DEF Alarm, slaveVars, loopVars
<1>20. CASE Kill
  BY <1>20 DEF Kill, MasterEnds, SlaveEnds, loopVars, reportVars
<1>21. CASE Finished \/ UNCHANGED vars
  BY <1>21 DEF Finished, vars
<1> QED
  BY <1>1, <1>2, <1>3, <1>4, <1>5, <1>6, <1>7, <1>8, <1>9, <1>10, <1>11, <1>12, <1>13, <1>14, <1>15, <1>16, <1>17, <1>18, <1>19, <1>20, <1>21 DEF Next, MasterStep, SlaveStep

\* Every step keeps the inductive invariant.
LEMMA StepInv == IInv /\ [Next]_vars => IInv'
  BY TypeStep, FdStep, ReportStep, TurnStep DEF IInv

\* The inductive invariant holds of every behaviour.
THEOREM Invariant == Spec => []IInv
  BY InitInv, StepInv, PTL DEF Spec

\* Every variable keeps its type.
THEOREM TypeCorrect == Spec => []TypeOK
<1>1. IInv => TypeOK
  BY DEF IInv
<1> QED
  BY <1>1, Invariant, PTL

\* No process ever ends with the sync error of lines 323 and 358.
THEOREM SyncSafe == Spec => []NoSyncError
<1>1. IInv => NoSyncError
  BY DEF IInv, TurnInv
<1> QED
  BY <1>1, Invariant, PTL

\* The turn is in one place only.
THEOREM TurnSafe == Spec => []OneTurn
<1>1. ASSUME IInv PROVE OneTurn
  <2>1. CASE p1 # <<>>
    BY <1>1, <2>1 DEF IInv, TurnInv, OneTurn, BeforeLoop
  <2>2. CASE p2 # <<>>
    <3>1. /\ p1 = <<>> /\ p2 = <<iter>>
          /\ mpc \notin {"m_write", "m_check", "m_incr"}
          /\ spc \notin {"s_check", "s_write"}
      BY <1>1, <2>2 DEF IInv, TurnInv
    <3> QED
      BY <3>1 DEF OneTurn
  <2>3. CASE p1 = <<>> /\ p2 = <<>>
    BY <1>1, <2>3 DEF IInv, TurnInv, OneTurn, BeforeLoop
  <2> QED
    BY <2>1, <2>2, <2>3
<1> QED
  BY <1>1, Invariant, PTL

\* The logged count is the number of answers written, or one less.
THEOREM LogSafe == Spec => []LoggedRoundsAnswered
<1>1. IInv => LoggedRoundsAnswered
  BY DEF IInv, TypeOK, ReportInv, TurnInv, LoggedRoundsAnswered
<1> QED
  BY <1>1, Invariant, PTL

\* The log is opened only after the slave's exit.
THEOREM ReapSafe == Spec => []LogAfterSlave
<1>1. IInv => LogAfterSlave
  BY DEF IInv, ReportInv, LogAfterSlave
<1> QED
  BY <1>1, Invariant, PTL

\* Nobody waits on a pipe that only he, or the waiting handler, could fill.
THEOREM EofSafe == Spec => []PeerDeathSeen
<1>1. IInv => PeerDeathSeen
  BY DEF IInv, FdInv, PeerDeathSeen, Holds, ReportPoints, BeforeLoop
<1> QED
  BY <1>1, Invariant, PTL

-----------------------------------------------------------------------------
(***************************************************************************)
(* The pair keeps the promise of PairLife.                                 *)
(***************************************************************************)
\* The pair starts as promised.
LEMMA InitPromise == Init => Life!Init
  BY DEF Init, Life!Init, Stage, Peer, Logged, ReportPoints, Life!NoLog

\* What the parent sees of a step, the file of the log included.
Sees(st, n, pe, lg) == Stage' = st /\ iter' = n /\ Peer' = pe /\ log' = lg

Stays == Sees(Stage, iter, Peer, log)
Born == Stage = "starting" /\ Peer = "none" /\ Sees("pinging", iter, "alive", log)
Counts == Stage = "pinging" /\ Sees(Stage, Succ(iter), Peer, log)
TimesUp == Stage = "pinging" /\ Duration # 0 /\ Sees("stopping", iter, Peer, log)
PeerGoes == Peer = "alive" /\ Sees(Stage, iter, "gone", log)
FileOpens == /\ Stage = "stopping" /\ Peer = "gone" /\ log = NoLog
             /\ Sees(Stage, iter, Peer, EmptyLog)
FileFilled == /\ Stage = "stopping" /\ Peer = "gone" /\ log = EmptyLog
              /\ Sees("ended", iter, Peer, Low(iter))
Dies == Stage # "ended" /\ Sees("ended", iter, Peer, log)
Moves == \/ Stays \/ Born \/ Counts \/ TimesUp
         \/ PeerGoes \/ FileOpens \/ FileFilled \/ Dies

\* These are all the moves of a pair.
LEMMA PairMoves == IInv /\ [Next]_vars => Moves
<1> SUFFICES ASSUME IInv, [Next]_vars PROVE Moves
  OBVIOUS
<1> USE DEF Moves, Sees, Stage, Peer, ReportPoints, LoopPoints
<1>0. TypeOK /\ FdInv /\ ReportInv
  BY DEF IInv, Stays
<1>1. CASE CreatePipes
  BY <1>0, <1>1 DEF CreatePipes, MasterEnds, slaveVars, loopVars, reportVars, Dies, Stays
<1>2. CASE ForkSlave
  BY <1>0, <1>2 DEF ForkSlave, MasterEnds, loopVars, reportVars, Born, Dies, Stays, FdInv
<1>3. CASE WakeMe
  BY <1>0, <1>3 DEF WakeMe, slaveVars, loopVars, Stays
<1>4. CASE MasterCloses
  BY <1>0, <1>4 DEF MasterCloses, Close, slaveVars, loopVars, reportVars, Stays
<1>5. CASE MasterWrite
  BY <1>0, <1>5 DEF MasterWrite, MasterEnds, slaveVars, loopVars, reportVars, Dies, Stays
<1>6. CASE MasterRead
  BY <1>0, <1>6 DEF MasterRead, MasterEnds, slaveVars, reportVars, Dies, Stays
<1>7. CASE MasterCheck
  BY <1>0, <1>7 DEF MasterCheck, MasterEnds, slaveVars, loopVars, reportVars, Dies, Stays
<1>8. CASE MasterCount
  BY <1>0, <1>8 DEF MasterCount, slaveVars, reportVars, Counts
<1>9. CASE ReportCloses
  BY <1>0, <1>9 DEF ReportCloses, Close, slaveVars, loopVars, reportVars, Stays
<1>10. CASE ReportWaits
  BY <1>0, <1>10 DEF ReportWaits, slaveVars, loopVars, Stays
<1>11. CASE ReportTimes
  BY <1>0, <1>11 DEF ReportTimes, MasterEnds, slaveVars, loopVars, reportVars, Dies, Stays
<1>12. CASE ReportOpens
  BY <1>0, <1>12 DEF ReportOpens, MasterEnds, slaveVars, loopVars, FileOpens, Dies, ReportInv
<1>13. CASE ReportLogs
  BY <1>0, <1>13 DEF ReportLogs, MasterEnds, slaveVars, loopVars, FileFilled, ReportInv
<1>14. CASE SlaveCloses
  BY <1>0, <1>14 DEF SlaveCloses, Close, masterVars, Stays
<1>15. CASE SlaveRead
  BY <1>0, <1>15 DEF SlaveRead, SlaveEnds, masterVars, PeerGoes, Stays
<1>16. CASE SlaveCheck
  BY <1>0, <1>16 DEF SlaveCheck, SlaveEnds, masterVars, PeerGoes, Stays
<1>17. CASE SlaveWrite
  BY <1>0, <1>17 DEF SlaveWrite, SlaveEnds, masterVars, PeerGoes, Stays
<1>18. CASE SlaveCount
  BY <1>0, <1>18 DEF SlaveCount, masterVars, Stays
<1>19. CASE Alarm
  BY <1>0, <1>19 DEF Alarm, slaveVars, loopVars, TimesUp, ReportInv
<1>20. CASE Kill
  BY <1>0, <1>20 DEF Kill, MasterEnds, SlaveEnds, loopVars, reportVars, Dies, PeerGoes, Stays, MasterAlive, SlaveAlive
<1>21. CASE Finished \/ UNCHANGED vars
  BY <1>21 DEF Finished, vars, Stays
<1> QED
  BY <1>1, <1>2, <1>3, <1>4, <1>5, <1>6, <1>7, <1>8, <1>9, <1>10, <1>11, <1>12, <1>13, <1>14, <1>15, <1>16, <1>17, <1>18, <1>19, <1>20, <1>21 DEF Next, MasterStep, SlaveStep, Stays

\* Every step of the pair is a promised step, or changes nothing promised.
LEMMA StepPromise == IInv /\ [Next]_vars => [Life!Next]_(Life!vars)
<1> SUFFICES ASSUME IInv, Moves
             PROVE  Life!Next \/ UNCHANGED <<Stage, iter, Peer, Logged>>
  BY PairMoves DEF Life!vars
<1>1. Low(iter) \in 0 .. P - 1 /\ (Stage = "stopping" => Logged = NoLog)
  BY LowType DEF IInv, TypeOK, ReportInv, Stage, Logged, ReportPoints
<1>2. log' = log => Logged' = Logged
  BY DEF Logged
<1>3. CASE Stays
  BY <1>2, <1>3 DEF Stays, Sees
<1>4. CASE Born
  BY <1>2, <1>4 DEF Born, Sees, Life!Next, Life!GoLive
<1>5. CASE Counts
  BY <1>2, <1>5 DEF Counts, Sees, Succ, Life!Next, Life!Round, Life!Succ
<1>6. CASE TimesUp
  BY <1>2, <1>6 DEF TimesUp, Sees, Life!Next, Life!TimeUp
<1>7. CASE PeerGoes
  BY <1>2, <1>7 DEF PeerGoes, Sees, Life!Next, Life!SlaveEnds
<1>8. CASE FileOpens
  BY <1>8 DEF FileOpens, Sees, Logged, EmptyLog
<1>9. CASE FileFilled
  <2>1. Logged' = Low(iter)
    BY <1>1, <1>9 DEF FileFilled, Sees, Logged
  <2> QED
    BY <1>9, <2>1 DEF FileFilled, Sees, Low, Life!Next, Life!WriteLog, Life!Low
<1>10. CASE Dies
  BY <1>2, <1>10 DEF Dies, Sees, Life!Next, Life!Fail
<1> QED
  BY <1>3, <1>4, <1>5, <1>6, <1>7, <1>8, <1>9, <1>10 DEF Moves

\* One pair, with every interleaving of master, slave and alarm, implements
\* the contract ContextBench relies on.
THEOREM PromiseKept == Spec => KeepsPromise
  BY InitPromise, StepPromise, Invariant, PTL DEF Spec, KeepsPromise, Life!Spec

-----------------------------------------------------------------------------
(***************************************************************************)
(* The part of PairEnds that needs no fairness: somebody can always go on, *)
(* and once the alarm has come few steps are left.                         *)
(***************************************************************************)
\* The system calls that block: the guards of the actions, negated.
MasterBlocked ==
  \/ mpc = "done"
  \/ mpc = "m_write" /\ Holds("p1r") /\ Len(p1) >= PipeCap
  \/ mpc = "m_read" /\ p2 = <<>> /\ Holds("p2w")
  \/ mpc = "r_wait" /\ spc \notin {"none", "done"}
SlaveBlocked ==
  \/ spc \in {"none", "done"}
  \/ spc = "s_read" /\ p1 = <<>> /\ Holds("p1w")
  \/ spc = "s_write" /\ Holds("p2r") /\ Len(p2) >= PipeCap
NeverStuck == MasterBlocked /\ SlaveBlocked => ~MasterAlive /\ ~SlaveAlive

\* The turn is never lost: a master that waits for an answer has its question, or
\* the answer, in a pipe, or a slave at work on it, or none left.
TurnHeld ==
  mpc = "m_read" => p1 # <<>> \/ p2 # <<>> \/ spc \in {"s_check", "s_write", "done"}

\* Every step keeps the turn.
LEMMA HeldStep == IInv /\ TurnHeld /\ [Next]_vars => TurnHeld'
<1> SUFFICES ASSUME IInv, TurnHeld, [Next]_vars PROVE TurnHeld'
  OBVIOUS
<1> USE DEF TurnHeld
<1>0. TypeOK /\ FdInv
  BY DEF IInv
<1>1. CASE CreatePipes
  BY <1>1 DEF CreatePipes, MasterEnds
<1>2. CASE ForkSlave
  BY <1>2 DEF ForkSlave, MasterEnds
<1>3. CASE WakeMe
  BY <1>3 DEF WakeMe
<1>4. CASE MasterCloses
  BY <1>4 DEF MasterCloses
<1>5. CASE MasterWrite
  <2>1. p1 \in Seq(0 .. W - 1) /\ iter \in 0 .. W - 1
    BY <1>0 DEF TypeOK
  <2>2. Append(p1, iter) # <<>>
    BY <2>1
  <2> QED
    BY <1>5, <2>2 DEF MasterWrite, MasterEnds
<1>6. CASE MasterRead
  BY <1>6 DEF MasterRead, MasterEnds
<1>7. CASE MasterCheck
  BY <1>7 DEF MasterCheck, MasterEnds
<1>8. CASE MasterCount
  BY <1>8 DEF MasterCount
<1>9. CASE ReportCloses
  BY <1>9 DEF ReportCloses
<1>10. CASE ReportWaits
  BY <1>10 DEF ReportWaits
<1>11. CASE ReportTimes
  BY <1>11 DEF ReportTimes, MasterEnds
<1>12. CASE ReportOpens
  BY <1>12 DEF ReportOpens, MasterEnds
<1>13. CASE ReportLogs
  BY <1>13 DEF ReportLogs, MasterEnds
<1>14. CASE SlaveCloses
  BY <1>14 DEF SlaveCloses, masterVars
<1>15. CASE SlaveRead
  BY <1>15 DEF SlaveRead, SlaveEnds, masterVars
<1>16. CASE SlaveCheck
  BY <1>16 DEF SlaveCheck, SlaveEnds, masterVars
<1>17. CASE SlaveWrite
  <2>1. p2 \in Seq(0 .. W - 1) /\ iter1 \in 0 .. W - 1
    BY <1>0 DEF TypeOK
  <2>2. Append(p2, iter1) # <<>>
    BY <2>1
  <2> QED
    BY <1>17, <2>2 DEF SlaveWrite, SlaveEnds, masterVars
<1>18. CASE SlaveCount
  BY <1>18 DEF SlaveCount, masterVars
<1>19. CASE Alarm
  BY <1>19 DEF Alarm
<1>20. CASE Kill
  BY <1>20 DEF Kill, MasterEnds, SlaveEnds
<1>21. CASE Finished \/ UNCHANGED vars
  BY <1>21 DEF Finished, vars
<1> QED
  BY <1>1, <1>2, <1>3, <1>4, <1>5, <1>6, <1>7, <1>8, <1>9, <1>10, <1>11, <1>12, <1>13, <1>14, <1>15, <1>16, <1>17, <1>18, <1>19, <1>20, <1>21 DEF Next, MasterStep, SlaveStep

\* Master and slave never wait for each other: as long as one of them lives, one
\* of them can take its next step, wherever the alarm came and whoever was killed.
THEOREM NobodyStuck == Spec => []NeverStuck
<1>1. Init => TurnHeld
  BY DEF Init, TurnHeld
<1>2. ASSUME IInv, TurnHeld PROVE NeverStuck
  <2> SUFFICES ASSUME MasterBlocked, SlaveBlocked PROVE ~MasterAlive /\ ~SlaveAlive
    BY DEF NeverStuck
  <2>0. TypeOK /\ FdInv /\ TurnInv /\ PairAssumption
    BY <1>2, PairAssumption DEF IInv
  <2>1. Len(p1) >= PipeCap => p1 # <<>>
    BY <2>0 DEF PairAssumption
  <2>2. Len(p2) >= PipeCap => p2 # <<>>
    BY <2>0 DEF PairAssumption
  <2>3. PeerDeathSeen
    BY <1>2 DEF IInv, FdInv, PeerDeathSeen, Holds, ReportPoints, BeforeLoop
  <2>4. ~(spc = "s_write" /\ Len(p2) >= PipeCap)
    BY <2>0, <2>2 DEF TurnInv
  <2>5. ~(mpc = "m_write" /\ Len(p1) >= PipeCap)
    BY <2>0, <2>1 DEF TurnInv
  <2>6. mpc # "m_read"
    BY <1>2, <2>0, <2>3, <2>4 DEF MasterBlocked, SlaveBlocked, TurnHeld, FdInv, PeerDeathSeen
  <2>7. mpc # "r_wait"
    BY <2>3, <2>4 DEF MasterBlocked, SlaveBlocked, PeerDeathSeen, ReportPoints
  <2>8. mpc = "done"
    BY <2>5, <2>6, <2>7 DEF MasterBlocked
  <2>9. spc \in {"none", "done"}
    BY <2>3, <2>4, <2>8 DEF SlaveBlocked, PeerDeathSeen, ReportPoints
  <2> QED
    BY <2>8, <2>9 DEF MasterAlive, SlaveAlive
<1> QED
  BY <1>1, <1>2, HeldStep, Invariant, PTL DEF Spec

\* How many steps each has left at most once the master is in the handler or gone.
MasterLeft ==
  CASE mpc = "r_close1" -> 7 [] mpc = "r_close2" -> 6
    [] mpc = "r_wait" -> IF reaped THEN 4 ELSE 5
    [] mpc = "r_times" -> 3 [] mpc = "r_open" -> 2 [] mpc = "r_log" -> 1 [] OTHER -> 0
SlaveLeft ==
  CASE spc = "s_check" -> 4 [] spc \in {"s_write", "s_close1"} -> 3
    [] spc \in {"s_incr", "s_close2"} -> 2 [] spc = "s_read" -> 1 [] OTHER -> 0
\* The slave's share: none once it is gone; a question that waits for it stands for
\* the four steps to answer it and come back for the next.
SlaveShare == SlaveLeft + (IF p1 = <<>> \/ spc = "done" THEN 0 ELSE 4)
Left == MasterLeft + SlaveShare

\* After the alarm, or the death of the master, every step leaves fewer than before,
\* and at most fourteen.
Stopped == mpc \in ReportPoints \cup {"done"}
StopsSoon == [][Stopped => Stopped' /\ Left \in 1 .. 14 /\ Left' < Left]_vars

\* Each part of the count, by cases.
LEMMA LeftIs ==
  ASSUME TypeOK
  PROVE  /\ MasterLeft = (IF mpc = "r_close1" THEN 7 ELSE IF mpc = "r_close2" THEN 6
                          ELSE IF mpc = "r_wait" THEN (IF reaped THEN 4 ELSE 5)
                          ELSE IF mpc = "r_times" THEN 3 ELSE IF mpc = "r_open" THEN 2
                          ELSE IF mpc = "r_log" THEN 1 ELSE 0)
         /\ SlaveLeft = (IF spc = "s_check" THEN 4 ELSE IF spc \in {"s_write", "s_close1"} THEN 3
                         ELSE IF spc \in {"s_incr", "s_close2"} THEN 2
                         ELSE IF spc = "s_read" THEN 1 ELSE 0)
<1>1. reaped \in BOOLEAN
  BY DEF TypeOK
<1> QED
  BY <1>1 DEF MasterLeft, SlaveLeft

\* The same of the next state.
LEMMA LeftIsNext ==
  ASSUME TypeOK'
  PROVE  /\ MasterLeft' = (IF mpc' = "r_close1" THEN 7 ELSE IF mpc' = "r_close2" THEN 6
                           ELSE IF mpc' = "r_wait" THEN (IF reaped' THEN 4 ELSE 5)
                           ELSE IF mpc' = "r_times" THEN 3 ELSE IF mpc' = "r_open" THEN 2
                           ELSE IF mpc' = "r_log" THEN 1 ELSE 0)
         /\ SlaveLeft' = (IF spc' = "s_check" THEN 4
                          ELSE IF spc' \in {"s_write", "s_close1"} THEN 3
                          ELSE IF spc' \in {"s_incr", "s_close2"} THEN 2
                          ELSE IF spc' = "s_read" THEN 1 ELSE 0)
<1>1. reaped' \in BOOLEAN
  BY DEF TypeOK
<1> QED
  BY <1>1 DEF MasterLeft, SlaveLeft

\* Each share is at most seven: a slave at work on a question has emptied the pipe.
LEMMA SharesBounded ==
  ASSUME TypeOK, TurnInv
  PROVE  MasterLeft \in 0 .. 7 /\ SlaveShare \in 0 .. 7
<1>1. MasterLeft \in 0 .. 7 /\ SlaveLeft \in 0 .. 4
  BY LeftIs
<1>2. CASE spc \in {"s_check", "s_write"}
  <2>1. p1 = <<>>
    BY <1>2 DEF TurnInv
  <2> QED
    BY <1>1, <2>1 DEF SlaveShare
<1>3. CASE spc \notin {"s_check", "s_write"}
  <2>1. SlaveLeft \in 0 .. 3
    BY <1>3, LeftIs
  <2>2. SlaveShare = SlaveLeft \/ SlaveShare = SlaveLeft + 4
    BY <2>1 DEF SlaveShare
  <2> QED
    BY <1>1, <2>1, <2>2
<1> QED
  BY <1>2, <1>3

\* A step of the master after the alarm leaves the slave's share, and takes from its own.
LEMMA MasterTakes ==
  ASSUME IInv, Stopped, TypeOK', MasterStep
  PROVE  Stopped' /\ SlaveShare' = SlaveShare /\ MasterLeft' < MasterLeft
<1>0. TypeOK
  BY DEF IInv
<1> USE DEF Stopped, ReportPoints
<1>1. /\ SlaveShare = (IF spc = "s_check" THEN 4
                       ELSE IF spc \in {"s_write", "s_close1"} THEN 3
                       ELSE IF spc \in {"s_incr", "s_close2"} THEN 2
                       ELSE IF spc = "s_read" THEN 1 ELSE 0)
                      + (IF p1 = <<>> \/ spc = "done" THEN 0 ELSE 4)
      /\ SlaveShare' = (IF spc' = "s_check" THEN 4
                        ELSE IF spc' \in {"s_write", "s_close1"} THEN 3
                        ELSE IF spc' \in {"s_incr", "s_close2"} THEN 2
                        ELSE IF spc' = "s_read" THEN 1 ELSE 0)
                       + (IF p1' = <<>> \/ spc' = "done" THEN 0 ELSE 4)
  BY <1>0, LeftIs, LeftIsNext DEF SlaveShare
<1>2. ASSUME UNCHANGED <<spc, p1>> PROVE SlaveShare' = SlaveShare
  BY <1>1, <1>2
<1>3. CASE ReportCloses
  BY <1>0, <1>2, <1>3, LeftIs, LeftIsNext DEF ReportCloses, slaveVars, reportVars
<1>4. CASE ReportWaits
  <2>1. UNCHANGED <<spc, p1>> /\ mpc = "r_wait"
    BY <1>4 DEF ReportWaits, slaveVars
  <2>2. CASE spc = "done" /\ ~reaped /\ reaped' = TRUE /\ UNCHANGED mpc
    BY <1>0, <1>2, <2>1, <2>2, LeftIs, LeftIsNext
  <2>3. CASE mpc' = "r_times" /\ UNCHANGED reaped
    <3>1. reaped \in BOOLEAN
      BY <1>0 DEF TypeOK
    <3>2. MasterLeft \in {4, 5} /\ MasterLeft' = 3
      BY <1>0, <2>1, <2>3, <3>1, LeftIs, LeftIsNext
    <3> QED
      BY <1>2, <2>1, <2>3, <3>2
  <2> QED
    BY <1>4, <2>2, <2>3 DEF ReportWaits
<1>5. CASE ReportTimes
  BY <1>0, <1>2, <1>5, LeftIs, LeftIsNext DEF ReportTimes, MasterEnds, slaveVars, reportVars
<1>6. CASE ReportOpens
  BY <1>0, <1>2, <1>6, LeftIs, LeftIsNext DEF ReportOpens, MasterEnds, slaveVars
<1>7. CASE ReportLogs
  BY <1>0, <1>2, <1>7, LeftIs, LeftIsNext DEF ReportLogs, MasterEnds, slaveVars
<1> QED
  BY <1>3, <1>4, <1>5, <1>6, <1>7
  DEF MasterStep, CreatePipes, ForkSlave, WakeMe, MasterCloses, MasterWrite, MasterRead,
      MasterCheck, MasterCount

\* A step of the slave takes from the slave's share, whatever the master does: the
\* four steps to answer and come back for the next are those its question stood for.
LEMMA SlaveTakes ==
  ASSUME IInv, TypeOK', SlaveStep
  PROVE  mpc' = mpc /\ MasterLeft' = MasterLeft /\ SlaveShare' < SlaveShare
<1>0. TypeOK /\ TurnInv
  BY DEF IInv
<1>1. mpc' = mpc /\ reaped' = reaped
  BY DEF SlaveStep, SlaveCloses, SlaveRead, SlaveCheck, SlaveWrite, SlaveCount, masterVars
<1>2. MasterLeft' = MasterLeft
  BY <1>0, <1>1, LeftIs, LeftIsNext
<1>3. CASE SlaveCloses
  BY <1>0, <1>1, <1>2, <1>3, LeftIs, LeftIsNext DEF SlaveCloses, SlaveShare
<1>4. CASE SlaveRead
  <2>1. CASE p1 # <<>> /\ p1' = Tail(p1) /\ spc' = "s_check" /\ spc = "s_read"
    <3>1. p1 = <<iter>>
      BY <1>0, <2>1 DEF TurnInv
    <3>2. Tail(p1) = <<>>
      BY <3>1
    <3>3. SlaveShare = 5
      BY <1>0, <2>1, LeftIs DEF SlaveShare
    <3>4. SlaveShare' = 4
      BY <2>1, <3>2, LeftIsNext DEF SlaveShare
    <3> QED
      BY <1>1, <1>2, <3>3, <3>4
  <2>2. CASE p1 = <<>> /\ spc' = "done" /\ spc = "s_read"
    BY <1>0, <1>1, <1>2, <2>2, LeftIs, LeftIsNext DEF SlaveShare
  <2> QED
    BY <1>4, <2>1, <2>2 DEF SlaveRead, SlaveEnds
<1>5. CASE SlaveCheck
  BY <1>0, <1>1, <1>2, <1>5, LeftIs, LeftIsNext DEF SlaveCheck, SlaveEnds, SlaveShare
<1>6. CASE SlaveWrite
  BY <1>0, <1>1, <1>2, <1>6, LeftIs, LeftIsNext DEF SlaveWrite, SlaveEnds, SlaveShare
<1>7. CASE SlaveCount
  BY <1>0, <1>1, <1>2, <1>7, LeftIs, LeftIsNext DEF SlaveCount, SlaveShare
<1> QED
  BY <1>3, <1>4, <1>5, <1>6, <1>7 DEF SlaveStep

\* A kill takes what its victim had left.
LEMMA KillTakes ==
  ASSUME IInv, Stopped, TypeOK', Kill
  PROVE  /\ Stopped' /\ MasterLeft' <= MasterLeft /\ SlaveShare' <= SlaveShare
         /\ MasterLeft' < MasterLeft \/ SlaveShare' < SlaveShare
<1>0. TypeOK /\ TurnInv
  BY DEF IInv
<1>1. MasterLeft \in 0 .. 7 /\ SlaveShare \in 0 .. 7
  BY <1>0, SharesBounded
<1>2. reaped \in BOOLEAN /\ spc \in SlavePoints /\ reaped' = reaped /\ p1' = p1
  BY <1>0 DEF TypeOK, Kill, reportVars
<1>3. CASE MasterAlive /\ MasterEnds(Killed) /\ UNCHANGED <<spc, scode>>
  <2>1. MasterLeft > 0 /\ MasterLeft' = 0
    BY <1>0, <1>2, <1>3, LeftIs, LeftIsNext DEF MasterAlive, MasterEnds, Stopped, ReportPoints
  <2>2. SlaveLeft' = SlaveLeft
    BY <1>0, <1>3, LeftIs, LeftIsNext
  <2> QED
    BY <1>1, <1>2, <1>3, <2>1, <2>2 DEF SlaveShare, Stopped, MasterEnds
<1>4. CASE SlaveAlive /\ SlaveEnds(Killed) /\ UNCHANGED <<mpc, mcode>>
  <2>1. SlaveLeft \in 1 .. 4
    BY <1>0, <1>2, <1>4, LeftIs DEF SlaveAlive, SlavePoints
  <2>2. SlaveShare > 0
    BY <2>1 DEF SlaveShare
  <2>3. SlaveShare' = 0
    BY <1>4, LeftIsNext DEF SlaveShare, SlaveEnds
  <2>4. MasterLeft' = MasterLeft
    BY <1>0, <1>2, <1>4, LeftIs, LeftIsNext
  <2> QED
    BY <1>1, <1>4, <2>2, <2>3, <2>4 DEF Stopped
<1> QED
  BY <1>3, <1>4 DEF Kill

\* From the alarm or the master's death on, every step leaves fewer than before, at
\* most fourteen in all: with NobodyStuck, what PairEnds needs of the code; that
\* steps are taken at all is the scheduler's part.
THEOREM StopsSoonHolds == Spec => StopsSoon
<1>1. ASSUME IInv, [Next]_vars
      PROVE  [Stopped => Stopped' /\ Left \in 1 .. 14 /\ Left' < Left]_vars
  <2> SUFFICES ASSUME Stopped, ~UNCHANGED vars
               PROVE  Stopped' /\ Left \in 1 .. 14 /\ Left' < Left
    BY DEF vars
  <2>0. TypeOK /\ TurnInv /\ TypeOK' /\ TurnInv'
    BY <1>1, StepInv DEF IInv
  <2>1. /\ MasterLeft \in 0 .. 7 /\ SlaveShare \in 0 .. 7
    BY <2>0, SharesBounded
  <2>2. MasterLeft' \in Nat /\ SlaveShare' \in Nat
    <3>1. MasterLeft' \in Nat /\ SlaveLeft' \in Nat
      BY <2>0, LeftIsNext
    <3>2. \A n \in Nat : n + 0 \in Nat /\ n + 4 \in Nat
      OBVIOUS
    <3>3. SlaveLeft' + 0 \in Nat /\ SlaveLeft' + 4 \in Nat
      BY <3>1, <3>2
    <3> HIDE DEF SlaveLeft
    <3>4. SlaveShare' = SlaveLeft' + 0 \/ SlaveShare' = SlaveLeft' + 4
      BY Zenon DEF SlaveShare
    <3> QED
      BY <3>1, <3>3, <3>4
  <2>3. /\ Stopped' /\ MasterLeft' <= MasterLeft /\ SlaveShare' <= SlaveShare
        /\ MasterLeft' < MasterLeft \/ SlaveShare' < SlaveShare
    <3>1. CASE MasterStep
      BY <1>1, <2>0, <2>1, <2>2, <3>1, MasterTakes
    <3>2. CASE SlaveStep
      BY <1>1, <2>0, <2>1, <2>2, <3>2, SlaveTakes DEF Stopped
    <3>3. CASE Kill
      BY <1>1, <2>0, <3>3, KillTakes
    <3>4. ~Alarm
      BY DEF Alarm, Stopped, ReportPoints, LoopPoints
    <3> QED
      BY <1>1, <3>1, <3>2, <3>3, <3>4 DEF Next, Finished
  <2>4. Left = MasterLeft + SlaveShare /\ Left' = MasterLeft' + SlaveShare'
    BY DEF Left
  <2>5. \A a, b \in 0 .. 7, c, d \in Nat :
          c <= a /\ d <= b /\ (c < a \/ d < b) => a + b \in 1 .. 14 /\ c + d < a + b
    OBVIOUS
  <2> QED
    BY <2>1, <2>2, <2>3, <2>4, <2>5
<1> QED
  BY <1>1, Invariant, PTL DEF Spec, StopsSoon
=============================================================================

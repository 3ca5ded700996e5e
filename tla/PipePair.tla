------------------------------ MODULE PipePair ------------------------------
(***************************************************************************)
(* One pair of the pipe benchmark (opensource/context.c, pipe_loop and     *)
(* report): a master that writes its round number to pipe p1 and reads the *)
(* answer from p2, a slave that does the reverse, and the SIGALRM handler  *)
(* that interrupts the master between any two of its steps.                *)
(*                                                                         *)
(* A label of mpc or spc is the program point a process has reached; one   *)
(* action is one system call with the tests on its result.  The pipes, the *)
(* descriptors and the signals are the kernel's, modelled as the code uses *)
(* them: a read blocks while the pipe is empty and some process holds its  *)
(* write end, and returns 0 when none does; a write to a pipe nobody can   *)
(* read raises SIGPIPE, whose default action the program never changes.    *)
(***************************************************************************)
EXTENDS Integers, Sequences

CONSTANTS W,         \* number of values of an unsigned long
          P,         \* number of values "%u" prints
          PipeCap,   \* messages a pipe holds before write blocks
          Duration,  \* the -d option: 0 never arms the timer
          MayKill    \* whether either process may be killed from outside

ASSUME PairAssumption == /\ W \in Nat \ {0} /\ P \in Nat \ {0}
                         /\ PipeCap \in Nat \ {0}
                         /\ Duration \in Int /\ MayKill \in BOOLEAN

VARIABLES mpc, spc,        \* where master and slave stand
          fds,             \* the pipe ends each process holds open
          p1, p2,          \* the words in each pipe
          iter, mcheck,    \* master: rounds finished, last answer read
          iter1, scheck,   \* slave: rounds finished, last question read
          timer,           \* the master's alarm clock
          reaped,          \* wait() has returned the slave
          log,             \* what the .pidlog file holds
          mcode, scode,    \* how each process ended
          pongs            \* history: answers written so far

vars == <<mpc, spc, fds, p1, p2, iter, mcheck, iter1, scheck, timer, reaped,
          log, mcode, scode, pongs>>

Ends == {"p1r", "p1w", "p2r", "p2w"}
NoLog == -1
EmptyLog == -2

\* Exit codes of the header comment, and the two ways to die of a signal.
ERR_SUC == 0
ERR_PIP == 2
ERR_FRK == 3
ERR_WRI == 4
ERR_RED == 5
ERR_FOP == 6
ERR_SYN == 9
ERR_CLK == 11
Running == -1
SigPipe == -2
Killed == -3

LoopPoints == {"m_write", "m_read", "m_check", "m_incr"}
ReportPoints == {"r_close1", "r_close2", "r_wait", "r_times", "r_open", "r_log"}
MasterPoints == {"pipe", "fork", "timer", "m_close1", "m_close2", "done"}
                  \cup LoopPoints \cup ReportPoints
SlavePoints == {"none", "s_close1", "s_close2", "s_read", "s_check", "s_write",
                "s_incr", "done"}
SlaveAlive == spc \notin {"none", "done"}
MasterAlive == mpc # "done"

\* Mutant: a counter that does not wrap.
SuccUnbounded(n) == n + 1

Succ(n) == IF n = W - 1 THEN 0 ELSE n + 1
Low(n) == n % P

Holds(e) == e \in fds["master"] \/ e \in fds["slave"]

TypeOK ==
  /\ mpc \in MasterPoints /\ spc \in SlavePoints
  /\ fds \in [{"master", "slave"} -> SUBSET Ends]
  /\ p1 \in Seq(0 .. W - 1) /\ p2 \in Seq(0 .. W - 1)
  /\ Len(p1) <= PipeCap /\ Len(p2) <= PipeCap
  /\ iter \in 0 .. W - 1 /\ iter1 \in 0 .. W - 1 /\ pongs \in 0 .. W - 1
  /\ mcheck \in 0 .. W - 1 /\ scheck \in 0 .. W - 1
  /\ timer \in {"off", "armed", "fired"}
  /\ reaped \in BOOLEAN
  /\ log \in {NoLog, EmptyLog} \cup 0 .. P - 1
  /\ mcode \in {Running, SigPipe, Killed, ERR_SUC, ERR_PIP, ERR_FRK, ERR_RED,
                ERR_FOP, ERR_SYN, ERR_CLK}
  /\ scode \in {Running, SigPipe, Killed, ERR_RED, ERR_SYN}

Init ==
  /\ mpc = "pipe" /\ spc = "none"
  /\ fds = [p \in {"master", "slave"} |-> {}]
  /\ p1 = <<>> /\ p2 = <<>>
  /\ iter = 0 /\ iter1 = 0 /\ mcheck = 0 /\ scheck = 0 /\ pongs = 0
  /\ timer = "off" /\ reaped = FALSE /\ log = NoLog
  /\ mcode = Running /\ scode = Running

-----------------------------------------------------------------------------
\* exit() and death by a signal close every descriptor of the process.
MasterEnds(code) == /\ mpc' = "done" /\ mcode' = code
                    /\ fds' = [fds EXCEPT !["master"] = {}]
SlaveEnds(code) == /\ spc' = "done" /\ scode' = code
                   /\ fds' = [fds EXCEPT !["slave"] = {}]
Close(p, e) == fds' = [fds EXCEPT ![p] = @ \ {e}]

slaveVars == <<spc, iter1, scheck, scode>>
masterVars == <<mpc, iter, mcheck, timer, reaped, log, mcode>>
loopVars == <<iter, mcheck>>
reportVars == <<timer, reaped, log>>

(***************************************************************************)
(* Master: pipe_loop up to the loop.                                       *)
(***************************************************************************)
CreatePipes ==
  /\ mpc = "pipe"
  /\ \/ mpc' = "fork" /\ fds' = [fds EXCEPT !["master"] = Ends] /\ UNCHANGED mcode
     \/ MasterEnds(ERR_PIP)
  /\ UNCHANGED <<p1, p2, loopVars, reportVars, slaveVars, pongs>>

ForkSlave ==
  /\ mpc = "fork"
  /\ \/ /\ mpc' = "timer" /\ spc' = "s_close1"
        /\ fds' = [fds EXCEPT !["slave"] = fds["master"]]
        /\ UNCHANGED mcode
     \/ MasterEnds(ERR_FRK) /\ UNCHANGED spc
  /\ UNCHANGED <<p1, p2, loopVars, reportVars, iter1, scheck, scode, pongs>>

\* wake_me (duration, report): alarm (0) leaves the clock off for ever.
WakeMe ==
  /\ mpc = "timer"
  /\ mpc' = "m_close1"
  /\ timer' = IF Duration = 0 THEN "off" ELSE "armed"
  /\ UNCHANGED <<fds, p1, p2, loopVars, reaped, log, mcode, slaveVars, pongs>>

MasterCloses ==
  /\ \/ mpc = "m_close1" /\ mpc' = "m_close2" /\ Close("master", "p1r")
     \/ mpc = "m_close2" /\ mpc' = "m_write" /\ Close("master", "p2w")
  /\ UNCHANGED <<p1, p2, loopVars, reportVars, mcode, slaveVars, pongs>>

(***************************************************************************)
(* Master: one turn of the loop.                                           *)
(***************************************************************************)
\* Mutant: the master writes ahead without waiting for the answer.
MasterWriteAhead ==
  /\ mpc = "m_write" /\ Holds("p1r") /\ Len(p1) < PipeCap
  /\ p1' = Append(p1, iter) /\ mpc' \in {"m_write", "m_read"}
  /\ UNCHANGED <<fds, mcode, p2, loopVars, reportVars, slaveVars, pongs>>

MasterWrite ==
  /\ mpc = "m_write"
  /\ \/ /\ Holds("p1r") /\ Len(p1) < PipeCap
        /\ p1' = Append(p1, iter) /\ mpc' = "m_read" /\ UNCHANGED <<fds, mcode>>
     \/ ~Holds("p1r") /\ MasterEnds(SigPipe) /\ UNCHANGED p1
  /\ UNCHANGED <<p2, loopVars, reportVars, slaveVars, pongs>>

MasterRead ==
  /\ mpc = "m_read"
  /\ \/ /\ p2 # <<>>
        /\ mcheck' = Head(p2) /\ p2' = Tail(p2) /\ mpc' = "m_check"
        /\ UNCHANGED <<fds, mcode>>
     \/ /\ p2 = <<>> /\ ~Holds("p2w") /\ MasterEnds(ERR_RED)
        /\ UNCHANGED <<mcheck, p2>>
  /\ UNCHANGED <<p1, iter, reportVars, slaveVars, pongs>>

MasterCheck ==
  /\ mpc = "m_check"
  /\ IF mcheck # iter THEN MasterEnds(ERR_SYN)
                      ELSE mpc' = "m_incr" /\ UNCHANGED <<fds, mcode>>
  /\ UNCHANGED <<p1, p2, loopVars, reportVars, slaveVars, pongs>>

\* Mutant: a round trip counts as the two switches it causes.
MasterCountsSwitches ==
  /\ mpc = "m_incr"
  /\ iter' = Succ(Succ(iter)) /\ mpc' = "m_write"
  /\ UNCHANGED <<fds, p1, p2, mcheck, reportVars, mcode, slaveVars, pongs>>

MasterCount ==
  /\ mpc = "m_incr"
  /\ iter' = Succ(iter) /\ mpc' = "m_write"
  /\ UNCHANGED <<fds, p1, p2, mcheck, reportVars, mcode, slaveVars, pongs>>

(***************************************************************************)
(* The SIGALRM handler.  It may run as soon as the clock is armed and      *)
(* never returns to the code it interrupted.                               *)
(***************************************************************************)
Alarm ==
  /\ timer = "armed" /\ mpc \in {"m_close1", "m_close2"} \cup LoopPoints
  /\ timer' = "fired" /\ mpc' = "r_close1"
  /\ UNCHANGED <<fds, p1, p2, loopVars, reaped, log, mcode, slaveVars, pongs>>

\* Mutant: the handler forgets to close p1[1] before it waits.
ReportKeepsEnd ==
  /\ \/ mpc = "r_close1" /\ mpc' = "r_close2" /\ UNCHANGED fds
     \/ mpc = "r_close2" /\ mpc' = "r_wait" /\ Close("master", "p2r")
  /\ UNCHANGED <<p1, p2, loopVars, reportVars, mcode, slaveVars, pongs>>

ReportCloses ==
  /\ \/ mpc = "r_close1" /\ mpc' = "r_close2" /\ Close("master", "p1w")
     \/ mpc = "r_close2" /\ mpc' = "r_wait" /\ Close("master", "p2r")
  /\ UNCHANGED <<p1, p2, loopVars, reportVars, mcode, slaveVars, pongs>>

\* Mutant: the handler does not wait for the slave.
ReportSkipsWait ==
  /\ mpc = "r_wait" /\ mpc' = "r_times"
  /\ UNCHANGED <<fds, p1, p2, loopVars, reportVars, mcode, slaveVars, pongs>>

\* wait () returns a dead child, blocks for a live one, fails with no child.
ReportWaits ==
  /\ mpc = "r_wait"
  /\ \/ spc = "done" /\ ~reaped /\ reaped' = TRUE /\ UNCHANGED mpc
     \/ (spc = "none" \/ reaped) /\ mpc' = "r_times" /\ UNCHANGED reaped
  /\ UNCHANGED <<fds, p1, p2, loopVars, timer, log, mcode, slaveVars, pongs>>

ReportTimes ==
  /\ mpc = "r_times"
  /\ \/ mpc' = "r_open" /\ UNCHANGED <<fds, mcode>>
     \/ MasterEnds(ERR_CLK)
  /\ UNCHANGED <<p1, p2, loopVars, reportVars, slaveVars, pongs>>

ReportOpens ==
  /\ mpc = "r_open"
  /\ \/ mpc' = "r_log" /\ log' = EmptyLog /\ UNCHANGED <<fds, mcode>>
     \/ MasterEnds(ERR_FOP) /\ UNCHANGED log
  /\ UNCHANGED <<p1, p2, loopVars, timer, reaped, slaveVars, pongs>>

\* Mutant: the round under way is logged as well.
ReportLogsOneMore ==
  /\ mpc = "r_log"
  /\ log' = Low(Succ(iter)) /\ MasterEnds(ERR_SUC)
  /\ UNCHANGED <<p1, p2, loopVars, timer, reaped, slaveVars, pongs>>

\* The line reaches the file when fclose flushes the stream.
ReportLogs ==
  /\ mpc = "r_log"
  /\ log' = Low(iter) /\ MasterEnds(ERR_SUC)
  /\ UNCHANGED <<p1, p2, loopVars, timer, reaped, slaveVars, pongs>>

(***************************************************************************)
(* Slave.                                                                  *)
(***************************************************************************)
\* Mutant: the slave keeps its copy of p1[1].
SlaveKeepsEnd ==
  /\ \/ spc = "s_close1" /\ spc' = "s_close2" /\ UNCHANGED fds
     \/ spc = "s_close2" /\ spc' = "s_read" /\ Close("slave", "p2r")
  /\ UNCHANGED <<p1, p2, masterVars, iter1, scheck, scode, pongs>>

SlaveCloses ==
  /\ \/ spc = "s_close1" /\ spc' = "s_close2" /\ Close("slave", "p1w")
     \/ spc = "s_close2" /\ spc' = "s_read" /\ Close("slave", "p2r")
  /\ UNCHANGED <<p1, p2, masterVars, iter1, scheck, scode, pongs>>

SlaveRead ==
  /\ spc = "s_read"
  /\ \/ /\ p1 # <<>>
        /\ scheck' = Head(p1) /\ p1' = Tail(p1) /\ spc' = "s_check"
        /\ UNCHANGED <<fds, scode>>
     \/ /\ p1 = <<>> /\ ~Holds("p1w") /\ SlaveEnds(ERR_RED)
        /\ UNCHANGED <<scheck, p1>>
  /\ UNCHANGED <<p2, masterVars, iter1, pongs>>

SlaveCheck ==
  /\ spc = "s_check"
  /\ IF scheck # iter1 THEN SlaveEnds(ERR_SYN)
                       ELSE spc' = "s_write" /\ UNCHANGED <<fds, scode>>
  /\ UNCHANGED <<p1, p2, masterVars, iter1, scheck, pongs>>

SlaveWrite ==
  /\ spc = "s_write"
  /\ \/ /\ Holds("p2r") /\ Len(p2) < PipeCap
        /\ p2' = Append(p2, iter1) /\ spc' = "s_incr" /\ pongs' = Succ(pongs)
        /\ UNCHANGED <<fds, scode>>
     \/ ~Holds("p2r") /\ SlaveEnds(SigPipe) /\ UNCHANGED <<p2, pongs>>
  /\ UNCHANGED <<p1, masterVars, iter1, scheck>>

\* Mutant: the slave forgets iter1++.
SlaveForgetsCount ==
  /\ spc = "s_incr" /\ spc' = "s_read"
  /\ UNCHANGED <<fds, p1, p2, masterVars, iter1, scheck, scode, pongs>>

SlaveCount ==
  /\ spc = "s_incr"
  /\ iter1' = Succ(iter1) /\ spc' = "s_read"
  /\ UNCHANGED <<fds, p1, p2, masterVars, scheck, scode, pongs>>

-----------------------------------------------------------------------------
\* A signal from outside (the operator, the out-of-memory killer).
Kill ==
  /\ MayKill
  /\ \/ MasterAlive /\ MasterEnds(Killed) /\ UNCHANGED <<spc, scode>>
     \/ SlaveAlive /\ SlaveEnds(Killed) /\ UNCHANGED <<mpc, mcode>>
  /\ UNCHANGED <<p1, p2, loopVars, reportVars, iter1, scheck, pongs>>

\* Both processes are gone: nothing is left to happen.
Finished == ~MasterAlive /\ ~SlaveAlive /\ UNCHANGED vars

MasterStep == \/ CreatePipes \/ ForkSlave \/ WakeMe \/ MasterCloses
              \/ MasterWrite \/ MasterRead \/ MasterCheck \/ MasterCount
              \/ ReportCloses \/ ReportWaits \/ ReportTimes \/ ReportOpens
              \/ ReportLogs
SlaveStep == SlaveCloses \/ SlaveRead \/ SlaveCheck \/ SlaveWrite \/ SlaveCount

Next == MasterStep \/ SlaveStep \/ Alarm \/ Kill \/ Finished

Spec == Init /\ [][Next]_vars

\* The scheduler runs every runnable process; the armed clock expires.
FairSpec == Spec /\ WF_vars(MasterStep) /\ WF_vars(SlaveStep) /\ WF_vars(Alarm)

-----------------------------------------------------------------------------
\* Neither process ever sees a number it does not expect: exit code 9 of
\* lines 323 and 358 cannot happen, whenever the alarm or a kill comes.
NoSyncError == mcode # ERR_SYN /\ scode # ERR_SYN

\* "Synchronized unbuffered" (line 18): at every moment the turn is in one
\* place only: with the master, in p1, with the slave, or in p2.
OneTurn ==
  Len(p1) + Len(p2) + (IF mpc \in {"m_write", "m_check", "m_incr"} THEN 1 ELSE 0)
    + (IF spc \in {"s_check", "s_write"} THEN 1 ELSE 0) <= 1

\* The count the handler logs is the number of answers the slave has written,
\* or one less (an answer under way when the alarm came), never more: reading
\* the unprotected iter in the handler (line 158) loses at most that round.
LoggedRoundsAnswered ==
  log \in 0 .. P - 1 =>
    \E n \in 0 .. W - 1 : log = Low(n) /\ pongs \in {n, Succ(n)}

\* The log is opened only when the slave has exited (the wait loop of lines
\* 133-139), so that the times () of line 143 include the slave's.
LogAfterSlave == log # NoLog => spc = "done"

\* The closes of lines 305, 348 and 132: whoever waits for a word that can no
\* longer come sees end of file instead of blocking on an end it, or the
\* waiting handler, holds open itself.
PeerDeathSeen ==
  /\ (spc = "s_read" /\ mpc \in ReportPoints \cup {"done"} /\ mpc # "r_close1")
       => ~Holds("p1w")
  /\ (mpc = "m_read" /\ spc = "done") => ~Holds("p2w")

\* With a duration set the pair ends, master and slave, whatever the alarm
\* interrupts and whoever is killed.
PairEnds == Duration # 0 => <>(~MasterAlive /\ ~SlaveAlive)

\* The header's error table (lines 30-36) gives a write error the code 4; a
\* process whose write fails has been killed by SIGPIPE before it can exit.
WriteErrorsCoded == mcode # SigPipe /\ scode # SigPipe

\* The pair as its parent sees it.
Stage == CASE mpc \in {"pipe", "fork"} -> "starting"
           [] mpc \in ReportPoints -> "stopping"
           [] mpc = "done" -> "ended"
           [] OTHER -> "pinging"
Peer == IF spc = "none" THEN "none" ELSE IF spc = "done" THEN "gone" ELSE "alive"
Logged == IF log = EmptyLog THEN NoLog ELSE log

Life == INSTANCE PairLife
          WITH stage <- Stage, count <- iter, slave <- Peer, log <- Logged

\* Every step of the two processes is a step their parent may rely on.
KeepsPromise == Life!Spec
=============================================================================

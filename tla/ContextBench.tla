---------------------------- MODULE ContextBench ----------------------------
(***************************************************************************)
(* The whole pipe benchmark (opensource/context.c): main forks its pairs,  *)
(* waits for them, adds up the .pidlog files of the working directory and  *)
(* prints the total.  Runs of the program follow one another in the same   *)
(* directory; the main process of one may be killed at any point, and its  *)
(* pairs then go on by themselves.                                         *)
(*                                                                         *)
(* A pair moves as PairLife promises, and is named by the pid of its       *)
(* master: the log file is context3<pid>.pidlog.  PairInBench puts the     *)
(* two processes of PipePair in the place of a pair.                       *)
(***************************************************************************)
EXTENDS Integers, Sequences, FiniteSets

CONSTANTS Pids,      \* pids the system has to give; fork fails without one
          MaxRuns,   \* bound on the runs of the program
          NProc,     \* the -p option
          Duration,  \* the -d option
          W, P,      \* values of an unsigned long, values "%u" prints
          MayKill    \* whether a main process may be killed

ASSUME BenchAssumption ==
  /\ IsFiniteSet(Pids) /\ MaxRuns \in Nat \ {0}
  /\ NProc \in Nat /\ Duration \in Int /\ MayKill \in BOOLEAN
  /\ P \in Nat \ {0} /\ W \in Nat \ {0} /\ W % P = 0

VARIABLES run,                    \* number of the current run
          main,                   \* where its main process stands
          owner,                  \* the run that forked each master, or 0
          stage, count, slave,    \* each pair, as PairLife has it
          dir,                    \* content of each .pidlog file
          reaped,                 \* masters wait () has returned to main
          todo, seen, file,       \* calculate: directory entries, last one read
          total,                  \* calculate: main's iter
          out,                    \* the number printed
          logged, book,           \* history: logs written; <<run, pid>> added up
          unread,                 \* history: logs this run could not open
          printed                 \* history: runs that printed a total

mainVars == <<run, main, reaped, todo, seen, file, total, out, book, unread,
              printed>>
pairVars == <<stage, count, slave, logged>>
vars == <<mainVars, owner, pairVars, dir>>

NoFile == -3
EmptyLog == -2
NoLog == -1
NoOut == -1

\* Mutant: a count that does not wrap.
SuccUnbounded(n) == n + 1

\* iter++ on an unsigned long, and the part of it that "%u" prints.
Succ(n) == IF n = W - 1 THEN 0 ELSE n + 1
Low(n) == n % P

Mine == {p \in Pids : owner[p] = run}
Files == {p \in Pids : dir[p] # NoFile}
Entries(runs) == {i \in DOMAIN book : book[i][1] \in runs}
Over == {"done", "killed", "failed"}

TypeOK ==
  /\ run \in 1 .. MaxRuns
  /\ main \in {"fork", "wait", "opendir", "scan", "unlink"} \cup Over
  /\ owner \in [Pids -> 0 .. MaxRuns]
  /\ stage \in [Pids -> {"unborn", "starting", "pinging", "stopping", "ended"}]
  /\ count \in [Pids -> 0 .. W - 1]
  /\ slave \in [Pids -> {"none", "alive", "gone"}]
  /\ dir \in [Pids -> {NoFile, EmptyLog} \cup 0 .. P - 1]
  /\ logged \in [Pids -> {NoLog} \cup 0 .. P - 1]
  /\ reaped \subseteq Pids /\ todo \subseteq Pids /\ seen \subseteq Pids
  /\ unread \subseteq seen /\ file \in Pids \cup {NoFile}
  /\ total \in 0 .. W - 1 /\ out \in {NoOut} \cup 0 .. P - 1
  /\ book \in Seq((1 .. MaxRuns) \X Pids)
  /\ printed \subseteq 1 .. MaxRuns

Init ==
  /\ run = 1 /\ main = "fork"
  /\ owner = [p \in Pids |-> 0]
  /\ stage = [p \in Pids |-> "unborn"]
  /\ count = [p \in Pids |-> 0] /\ slave = [p \in Pids |-> "none"]
  /\ dir = [p \in Pids |-> NoFile] /\ logged = [p \in Pids |-> NoLog]
  /\ reaped = {} /\ todo = {} /\ seen = {} /\ file = NoFile /\ unread = {}
  /\ total = 0 /\ out = NoOut /\ book = <<>> /\ printed = {}

-----------------------------------------------------------------------------
(***************************************************************************)
(* main: the fork loop and wait_child.  sleep (3) delays, no more.         *)
(***************************************************************************)
MainForks ==
  /\ main = "fork" /\ Cardinality(Mine) < NProc \div 2
  /\ \E p \in Pids : /\ owner[p] = 0
                     /\ owner' = [owner EXCEPT ![p] = run]
                     /\ stage' = [stage EXCEPT ![p] = "starting"]
  /\ UNCHANGED <<mainVars, count, slave, logged, dir>>

\* The loop has its procnum children, or fork () failed.
MainStopsForking ==
  /\ main = "fork" /\ main' = "wait"
  /\ UNCHANGED <<run, reaped, todo, seen, file, total, out, book, unread, printed,
                 owner, pairVars, dir>>

\* Mutant: main waits for one child only.
MainWaitsOnce ==
  /\ main = "wait" /\ main' = "opendir"
  /\ \/ \E p \in Mine : stage[p] = "ended" /\ reaped' = reaped \cup {p}
     \/ Mine = {} /\ UNCHANGED reaped
  /\ UNCHANGED <<run, todo, seen, file, total, out, book, unread, printed, owner,
                 pairVars, dir>>

\* Mutant: the loop does not leave when wait () returns -1.
MainWaitsForEver ==
  /\ main = "wait"
  /\ \E p \in Mine \ reaped : stage[p] = "ended" /\ reaped' = reaped \cup {p}
  /\ UNCHANGED <<run, main, todo, seen, file, total, out, book, unread, printed,
                 owner, pairVars, dir>>

\* One turn of wait (): a dead child, or -1 when there is none left.
MainWaits ==
  /\ main = "wait"
  /\ \/ /\ \E p \in Mine \ reaped : stage[p] = "ended" /\ reaped' = reaped \cup {p}
        /\ UNCHANGED main
     \/ Mine \subseteq reaped /\ main' = "opendir" /\ UNCHANGED reaped
  /\ UNCHANGED <<run, todo, seen, file, total, out, book, unread, printed, owner,
                 pairVars, dir>>

(***************************************************************************)
(* calculate.                                                              *)
(***************************************************************************)
MainOpensDir ==
  /\ main = "opendir"
  /\ \/ main' = "scan" /\ todo' = Files
     \/ main' = "failed" /\ UNCHANGED todo
  /\ UNCHANGED <<run, reaped, seen, file, total, out, book, unread, printed, owner,
                 pairVars, dir>>

\* Mutant: the scan leaves bytes of the printed half unset.
ScannedShort(v) == {v + g : g \in 0 .. P - 1}

\* fscanf ("%u") fills four bytes of the unsigned long iter_local and leaves
\* the others as the stack has them: a multiple of P comes on top.
Scanned(v) == {v + P * g : g \in 0 .. (W \div P) - 1}

\* Mutant: a file that cannot be opened is deleted like the others.
MainReadsAndDrops(p) ==
  /\ main = "scan" /\ p \in Files \ seen
  /\ seen' = seen \cup {p} /\ main' = "unlink" /\ file' = p
  /\ \/ unread' = unread \cup {p} /\ UNCHANGED <<total, book>>
     \/ /\ dir[p] # EmptyLog /\ total' = (total + dir[p]) % W
        /\ book' = Append(book, <<run, p>>) /\ UNCHANGED unread
  /\ UNCHANGED <<run, reaped, todo, out, printed, owner, pairVars, dir>>

\* One directory entry: unreadable, malformed, or added to the total.
MainReads(p) ==
  /\ main = "scan" /\ p \in Files \ seen
  /\ seen' = seen \cup {p}
  /\ \/ unread' = unread \cup {p} /\ UNCHANGED <<main, file, total, book>>
     \/ dir[p] = EmptyLog /\ UNCHANGED <<main, file, total, book, unread>>
     \/ /\ dir[p] # EmptyLog
        /\ \E v \in Scanned(dir[p]) : total' = (total + v) % W
        /\ book' = Append(book, <<run, p>>)
        /\ main' = "unlink" /\ file' = p /\ UNCHANGED unread
  /\ UNCHANGED <<run, reaped, todo, out, printed, owner, pairVars, dir>>

\* Mutant: the DEBUG build, which leaves the logs in place.
MainKeepsLogs ==
  /\ main = "unlink" /\ main' = "scan"
  /\ UNCHANGED <<run, reaped, todo, seen, file, total, out, book, unread, printed,
                 owner, pairVars, dir>>

MainUnlinks ==
  /\ main = "unlink" /\ main' = "scan"
  /\ dir' = [dir EXCEPT ![file] = NoFile]
  /\ UNCHANGED <<run, reaped, todo, seen, file, total, out, book, unread, printed,
                 owner, pairVars>>

\* readdir () has returned every entry there was at opendir ().
MainPrints ==
  /\ main = "scan" /\ todo \subseteq seen
  /\ main' = "done" /\ out' = total % P /\ printed' = printed \cup {run}
  /\ UNCHANGED <<run, reaped, todo, seen, file, total, book, unread, owner,
                 pairVars, dir>>

MainKilled ==
  /\ MayKill /\ main \notin Over /\ main' = "killed"
  /\ UNCHANGED <<run, reaped, todo, seen, file, total, out, book, unread, printed,
                 owner, pairVars, dir>>

\* The program is started again in the same directory.
NewRun ==
  /\ main \in Over /\ run < MaxRuns
  /\ run' = run + 1 /\ main' = "fork"
  /\ reaped' = {} /\ todo' = {} /\ seen' = {} /\ file' = NoFile /\ unread' = {}
  /\ total' = 0 /\ out' = NoOut
  /\ UNCHANGED <<book, printed, owner, pairVars, dir>>

(***************************************************************************)
(* The pair of master p.                                                   *)
(***************************************************************************)
PairGoesLive(p) ==
  /\ stage[p] = "starting"
  /\ stage' = [stage EXCEPT ![p] = "pinging"] /\ slave' = [slave EXCEPT ![p] = "alive"]
  /\ UNCHANGED <<mainVars, owner, count, logged, dir>>

\* The answer to the last round may be in the pipe when the slave dies.
PairRound(p) ==
  /\ stage[p] = "pinging"
  /\ count' = [count EXCEPT ![p] = Succ(@)]
  /\ UNCHANGED <<mainVars, owner, stage, slave, logged, dir>>

PairTimeUp(p) ==
  /\ stage[p] = "pinging" /\ Duration # 0
  /\ stage' = [stage EXCEPT ![p] = "stopping"]
  /\ UNCHANGED <<mainVars, owner, count, slave, logged, dir>>

PairSlaveEnds(p) ==
  /\ slave[p] = "alive" /\ slave' = [slave EXCEPT ![p] = "gone"]
  /\ UNCHANGED <<mainVars, owner, stage, count, logged, dir>>

\* fopen (filename, "w"): the file exists, and is empty until fclose ().
PairOpensLog(p) ==
  /\ stage[p] = "stopping" /\ slave[p] = "gone" /\ dir[p] = NoFile
  /\ dir' = [dir EXCEPT ![p] = EmptyLog]
  /\ UNCHANGED <<mainVars, owner, pairVars>>

PairWritesLog(p) ==
  /\ stage[p] = "stopping" /\ slave[p] = "gone" /\ dir[p] = EmptyLog
  /\ dir' = [dir EXCEPT ![p] = Low(count[p])]
  /\ logged' = [logged EXCEPT ![p] = Low(count[p])]
  /\ stage' = [stage EXCEPT ![p] = "ended"]
  /\ UNCHANGED <<mainVars, owner, count, slave>>

PairFails(p) ==
  /\ stage[p] \in {"starting", "pinging", "stopping"}
  /\ stage' = [stage EXCEPT ![p] = "ended"]
  /\ UNCHANGED <<mainVars, owner, count, slave, logged, dir>>

-----------------------------------------------------------------------------
\* The last run is over and so is every pair.
Finished == /\ main \in Over /\ run = MaxRuns
            /\ \A p \in Pids : stage[p] \in {"unborn", "ended"} /\ slave[p] # "alive"
            /\ UNCHANGED vars

MainStep == \/ MainForks \/ MainStopsForking \/ MainWaits \/ MainOpensDir
            \/ \E p \in Pids : MainReads(p)
            \/ MainUnlinks \/ MainPrints
PairStops(p) == PairGoesLive(p) \/ PairOpensLog(p) \/ PairWritesLog(p)
SlaveStops(p) == stage[p] # "pinging" /\ PairSlaveEnds(p)
PairActs(p) == \/ PairStops(p) \/ PairRound(p) \/ PairTimeUp(p)
               \/ PairSlaveEnds(p) \/ PairFails(p)

Next == \/ MainStep \/ MainKilled \/ NewRun
        \/ \E p \in Pids : PairActs(p)
        \/ Finished

Spec == Init /\ [][Next]_vars

\* main is scheduled; a pair ends because PipePair shows that it does.
FairSpec == /\ Spec /\ WF_vars(MainStep)
            /\ \A p \in Pids : /\ WF_vars(PairStops(p)) /\ WF_vars(SlaveStops(p))
                               /\ WF_vars(PairTimeUp(p))

-----------------------------------------------------------------------------
\* Waiting for every child before reading the directory (wait_child, lines
\* 377-403) makes the total complete: a run that prints has added every log its
\* own pairs wrote, but for files it could not open.
TotalComplete ==
  out # NoOut =>
    \A p \in Mine : logged[p] # NoLog =>
      p \in unread \/ \E i \in Entries({run}) : book[i][2] = p

\* unlink after adding (line 256): no log is part of two printed totals.
PrintedAtMostOnce ==
  \A p \in Pids : Cardinality({i \in Entries(printed) : book[i][2] = p}) <= 1

\* A log stays on disk, as written, until some run has added it: one that is
\* killed, or cannot read it, leaves it for the next.
KeptUntilAdded ==
  \A p \in Pids : logged[p] # NoLog =>
    dir[p] = logged[p] \/ \E i \in DOMAIN book : book[i][2] = p

\* The counts this run has added, and the sum of n counts.
Entered == [i \in DOMAIN book |-> IF book[i][1] = run THEN logged[book[i][2]] ELSE 0]
SumOf(added, n) ==
  LET sum[i \in 0 .. n] == IF i = 0 THEN 0 ELSE sum[i - 1] + added[i]
  IN  sum[n]

\* The unset half of iter_local (line 247) never shows in the printed number.
PrintedIsSum == out # NoOut => out = SumOf(Entered, Len(book)) % P

\* calculate (lines 235-256) takes the directory for finished: from opendir on no
\* pair of this run creates a log or writes into one.  Until then its pairs may
\* do either at any moment, and those a killed run has left still may.
OwnPairsQuiet ==
  [][\A p \in Mine : main \notin {"fork", "wait", "killed"} /\ dir'[p] # dir[p]
                        => dir'[p] = NoFile]_vars

\* With a duration set every run that is not killed prints or fails.
RunEnds == Duration # 0 => (main = "fork" ~> main \in Over)

\* "delete the temp file created by spawning process" (line 253): the files
\* added up and deleted are those of the processes this run spawned.
OwnLogsOnly == \A i \in Entries({run}) : owner[book[i][2]] = run
=============================================================================

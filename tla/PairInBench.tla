----------------------------- MODULE PairInBench -----------------------------
(***************************************************************************)
(* The pipe benchmark with one of its pairs put in at full detail: the     *)
(* pair whose master has pid Me is the two processes of PipePair with      *)
(* their pipes, clock and signals; main, the directory and the other pairs *)
(* are ContextBench's.  What ContextBench has of the pair is what can be   *)
(* seen of the two processes from outside.                                 *)
(***************************************************************************)
EXTENDS ContextBench

CONSTANTS Me,       \* the pid of the master shown in detail
          PipeCap   \* messages a pipe holds before write blocks

VARIABLES mpc, spc, fds, p1, p2, iter, mcheck, iter1, scheck, timer, waited,
          pidlog, mcode, scode, pongs

detailVars == <<mpc, spc, fds, p1, p2, iter, mcheck, iter1, scheck, timer, waited,
                pidlog, mcode, scode, pongs>>

\* Either process may be killed, whether or not main may.
Detail == INSTANCE PipePair_proof
            WITH reaped <- waited, log <- pidlog, MayKill <- TRUE

DetailInit == Init /\ Detail!Init

\* What main and the directory get to see of the two processes.
Shown ==
  /\ stage' = [stage EXCEPT ![Me] = Detail!Stage']
  /\ count' = [count EXCEPT ![Me] = iter']
  /\ slave' = [slave EXCEPT ![Me] = Detail!Peer']
  /\ logged' = [logged EXCEPT ![Me] = Detail!Logged']
  /\ dir' = IF pidlog' = pidlog THEN dir ELSE [dir EXCEPT ![Me] = pidlog']

\* A step of one of the two processes, once main has forked the master.
DetailStep == owner[Me] # 0 /\ Detail!Next /\ Shown /\ UNCHANGED <<mainVars, owner>>

\* A step of anybody else.
OtherStep == /\ MainStep \/ MainKilled \/ NewRun \/ \E p \in Pids \ {Me} : PairActs(p)
             /\ UNCHANGED detailVars

DetailSpec == DetailInit /\ [][DetailStep \/ OtherStep]_<<vars, detailVars>>
=============================================================================

------------------------------ MODULE PairLife ------------------------------
(***************************************************************************)
(* What one master/slave pair of the pipe benchmark (opensource/context.c) *)
(* promises to the process that forked it: it counts finished round trips  *)
(* one by one, the count freezes when its timer expires, and the count is  *)
(* logged only after the slave is gone.  PipePair implements this promise, *)
(* ContextBench is built on it.                                            *)
(***************************************************************************)
EXTENDS Integers

CONSTANTS W,        \* number of values of an unsigned long (2^w in the code)
          P,        \* number of values "%u" can print (2^32 in the code)
          Duration  \* the -d option: 0 never arms the timer

VARIABLES stage, count, slave, log

vars == <<stage, count, slave, log>>

NoLog == -1

\* iter++ on an unsigned long
Succ(n) == IF n = W - 1 THEN 0 ELSE n + 1

\* fprintf (f, "%u %u\n", iter, cost): only the low word of iter is printed
Low(n) == n % P

Init == stage = "starting" /\ count = 0 /\ slave = "none" /\ log = NoLog

\* The pair is running: the slave exists and the timer is being set.
GoLive == /\ stage = "starting" /\ slave = "none"
          /\ stage' = "pinging" /\ slave' = "alive"
          /\ UNCHANGED <<count, log>>

Round == /\ stage = "pinging"
         /\ count' = Succ(count)
         /\ UNCHANGED <<stage, slave, log>>

TimeUp == /\ stage = "pinging" /\ Duration # 0
          /\ stage' = "stopping"
          /\ UNCHANGED <<count, slave, log>>

SlaveEnds == /\ slave = "alive"
             /\ slave' = "gone"
             /\ UNCHANGED <<stage, count, log>>

WriteLog == /\ stage = "stopping" /\ slave = "gone"
            /\ stage' = "ended" /\ log' = Low(count)
            /\ UNCHANGED <<count, slave>>

\* The master ends without a log.
Fail == /\ stage # "ended"
        /\ stage' = "ended"
        /\ UNCHANGED <<count, slave, log>>

Next == GoLive \/ Round \/ TimeUp \/ SlaveEnds \/ WriteLog \/ Fail

Spec == Init /\ [][Next]_vars
=============================================================================

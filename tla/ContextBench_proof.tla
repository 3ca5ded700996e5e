-------------------------- MODULE ContextBench_proof --------------------------
(***************************************************************************)
(* Proofs about the whole pipe benchmark, for any number of pids, of runs  *)
(* and of processes asked for: what the printed totals are made of.        *)
(***************************************************************************)
EXTENDS PairInBench, NatLemmas, TLAPS, FiniteSetTheorems

\* The pairs: only a forked pid has a pair, its slave is forked when it goes live,
\* and a log means that it has ended.
PairInv ==
  \A p \in Pids :
    /\ owner[p] <= run
    /\ owner[p] = 0 => stage[p] = "unborn"
    /\ logged[p] # NoLog => stage[p] = "ended"
    /\ stage[p] \in {"unborn", "starting"} => slave[p] = "none"
    /\ dir[p] \notin {NoFile, EmptyLog} => dir[p] = logged[p]

\* Main: which pairs it has reaped, and what calculate has settled.
MainInv ==
  /\ \A p \in reaped : stage[p] = "ended"
  /\ main \in {"opendir", "scan", "unlink", "done", "failed"} => Mine \subseteq reaped
  /\ main \in {"fork", "wait", "opendir"} => seen = {}
  /\ main = "done" => todo \subseteq seen
  /\ out # NoOut => main = "done"
  /\ \A r \in printed : r < run \/ (r = run /\ main = "done")

\* Run r has added the log of p.
Booked(r, p) == \E i \in DOMAIN book : book[i] = <<r, p>>

\* The book: a log is added by the run that forked its pair or a later one, and
\* by the current run only after readdir () gave it.
BookInv ==
  /\ \A i \in DOMAIN book :
       /\ book[i][1] <= run /\ owner[book[i][2]] <= book[i][1]
       /\ logged[book[i][2]] # NoLog
       /\ book[i][1] = run => book[i][2] \in seen
  /\ main = "unlink" => file \in seen /\ Booked(run, file)

\* The runs whose book was printed, or may still be.
Live == printed \cup (IF main \in {"killed", "failed"} THEN {} ELSE {run})

\* A log such a run has added is gone from the disk, or about to be.
GoneInv ==
  \A i \in DOMAIN book : book[i][1] \in Live =>
    \/ dir[book[i][2]] = NoFile
    \/ main = "unlink" /\ book[i] = <<run, file>>

\* No two of them have added the same log, nor one of them twice.
OnceInv ==
  \A i, j \in DOMAIN book :
    book[i][2] = book[j][2] /\ book[i][1] \in Live /\ book[j][1] \in Live => i = j

\* A log of the run's own pairs is added, unreadable, or still to be read.
ScanInv ==
  main \in {"scan", "unlink", "done"} =>
    \A p \in Pids : owner[p] = run /\ logged[p] # NoLog =>
      p \in unread \/ Booked(run, p) \/ (p \in todo \ seen /\ dir[p] = logged[p])

IInv == /\ TypeOK /\ PairInv /\ MainInv /\ BookInv /\ GoneInv /\ OnceInv
        /\ ScanInv /\ KeptUntilAdded

USE DEF NoFile, EmptyLog, NoLog, NoOut, Over, Mine, Files

\* The initial states satisfy the invariant.
LEMMA InitInv == Init => IInv
<1> SUFFICES ASSUME Init PROVE IInv
  OBVIOUS
<1>1. TypeOK
  BY BenchAssumption DEF Init, TypeOK
<1>2. book = <<>> /\ DOMAIN book = {}
  BY DEF Init
<1>3. PairInv /\ MainInv /\ ScanInv /\ KeptUntilAdded
  BY <1>1 DEF Init, TypeOK, PairInv, MainInv, ScanInv, KeptUntilAdded
<1>4. BookInv /\ GoneInv /\ OnceInv
  BY <1>2 DEF Init, BookInv, GoneInv, OnceInv
<1> QED
  BY <1>1, <1>3, <1>4 DEF IInv

\* The entries of a book with one more at its end.
LEMMA BookGrows ==
  ASSUME NEW b \in Seq((1 .. MaxRuns) \X Pids), NEW e \in (1 .. MaxRuns) \X Pids
  PROVE  /\ Append(b, e) \in Seq((1 .. MaxRuns) \X Pids)
         /\ DOMAIN b = 1 .. Len(b) /\ Len(b) \in Nat
         /\ DOMAIN Append(b, e) = 1 .. Len(b) + 1
         /\ \A i \in 1 .. Len(b) : Append(b, e)[i] = b[i]
         /\ Append(b, e)[Len(b) + 1] = e
  OBVIOUS

\* A directory entry that is read is skipped, or added to the total and the book.
Skips(p) ==
  /\ main = "scan" /\ dir[p] # NoFile /\ p \notin seen /\ seen' = seen \cup {p}
  /\ book' = book /\ main' = main /\ file' = file /\ total' = total
  /\ (unread' = unread \cup {p} \/ (unread' = unread /\ dir[p] = EmptyLog))
  /\ run' = run /\ reaped' = reaped /\ todo' = todo /\ out' = out /\ dir' = dir
  /\ printed' = printed /\ owner' = owner /\ stage' = stage /\ logged' = logged
  /\ count' = count /\ slave' = slave

Adds(p) ==
  /\ main = "scan" /\ dir[p] # NoFile /\ p \notin seen /\ seen' = seen \cup {p}
  /\ dir[p] # EmptyLog /\ main' = "unlink" /\ file' = p /\ unread' = unread
  /\ total' \in 0 .. W - 1
  /\ book' \in Seq((1 .. MaxRuns) \X Pids)
  /\ DOMAIN book = 1 .. Len(book) /\ Len(book) \in Nat
  /\ DOMAIN book' = 1 .. Len(book) + 1
  /\ \A i \in 1 .. Len(book) : book'[i] = book[i]
  /\ book'[Len(book) + 1] = <<run, p>>
  /\ run' = run /\ reaped' = reaped /\ todo' = todo /\ out' = out /\ dir' = dir
  /\ printed' = printed /\ owner' = owner /\ stage' = stage /\ logged' = logged
  /\ count' = count /\ slave' = slave

\* These are all the outcomes of a read.
LEMMA ReadCases ==
  ASSUME TypeOK, NEW p \in Pids, MainReads(p)
  PROVE  Skips(p) \/ Adds(p)
<1>1. <<run, p>> \in (1 .. MaxRuns) \X Pids /\ book \in Seq((1 .. MaxRuns) \X Pids)
  BY DEF TypeOK
<1>2. \A v \in Scanned(dir[p]) :
        dir[p] # NoFile /\ dir[p] # EmptyLog => (total + v) % W \in 0 .. W - 1
  <2> SUFFICES ASSUME NEW v \in Scanned(dir[p]), dir[p] # NoFile, dir[p] # EmptyLog
               PROVE  (total + v) % W \in 0 .. W - 1
    OBVIOUS
  <2>1. dir[p] \in Int /\ total \in Int /\ P \in Int /\ W \in Nat /\ W >= 1
    BY BenchAssumption DEF TypeOK
  <2>2. \A g \in Int : P * g \in Int
    BY <2>1
  <2>3. v \in Int
    BY <2>1, <2>2 DEF Scanned
  <2> QED
    BY <2>1, <2>3
<1>3. /\ UNCHANGED <<run, reaped, todo, out, printed, owner, stage, count, slave,
                    logged, dir>>
      /\ main = "scan" /\ dir[p] # NoFile /\ p \notin seen /\ seen' = seen \cup {p}
  BY DEF MainReads, pairVars
<1>4. CASE unread' = unread \cup {p} /\ UNCHANGED <<main, file, total, book>>
  BY <1>3, <1>4 DEF Skips
<1>5. CASE dir[p] = EmptyLog /\ UNCHANGED <<main, file, total, book, unread>>
  BY <1>3, <1>5 DEF Skips
<1>6. CASE /\ dir[p] # EmptyLog
           /\ \E v \in Scanned(dir[p]) : total' = (total + v) % W
           /\ book' = Append(book, <<run, p>>)
           /\ main' = "unlink" /\ file' = p /\ UNCHANGED unread
  <2>1. total' \in 0 .. W - 1
    BY <1>2, <1>3, <1>6
  <2>2. /\ book' \in Seq((1 .. MaxRuns) \X Pids)
        /\ DOMAIN book = 1 .. Len(book) /\ Len(book) \in Nat
        /\ DOMAIN book' = 1 .. Len(book) + 1
        /\ \A i \in 1 .. Len(book) : book'[i] = book[i]
        /\ book'[Len(book) + 1] = <<run, p>>
    BY <1>1, <1>6, BookGrows
  <2> QED
    BY <1>3, <1>6, <2>1, <2>2 DEF Adds
<1> QED
  BY <1>4, <1>5, <1>6 DEF MainReads

\* What a pair counts and prints stays in its range.
LEMMA PairTypes ==
  ASSUME NEW p \in Pids, NEW n \in 0 .. W - 1
  PROVE  Succ(n) \in 0 .. W - 1 /\ Low(n) \in 0 .. P - 1
  BY BenchAssumption DEF Succ, Low

\* What the entries of the book are.
LEMMA BookType ==
  ASSUME TypeOK
  PROVE  \A i \in DOMAIN book :
           /\ book[i] \in (1 .. MaxRuns) \X Pids /\ book[i] = <<book[i][1], book[i][2]>>
           /\ book[i][1] \in 1 .. MaxRuns /\ book[i][2] \in Pids
  BY DEF TypeOK

\* The variables keep their types.
LEMMA TypeStep == IInv /\ [Next]_vars => TypeOK'
<1> SUFFICES ASSUME IInv, [Next]_vars PROVE TypeOK'
  OBVIOUS
<1> USE DEF IInv, vars, mainVars, pairVars
<1>1. CASE MainForks
  BY <1>1 DEF TypeOK, MainForks
<1>2. CASE MainStopsForking
  BY <1>2 DEF TypeOK, MainStopsForking
<1>3. CASE MainWaits
  BY <1>3 DEF TypeOK, MainWaits
<1>4. CASE MainOpensDir
  BY <1>4 DEF TypeOK, MainOpensDir
<1>5. ASSUME NEW p \in Pids, MainReads(p) PROVE TypeOK'
  <2>1. Skips(p) \/ Adds(p)
    BY <1>5, ReadCases
  <2>2. CASE Skips(p)
    BY <2>2 DEF TypeOK, Skips
  <2>3. CASE Adds(p)
    BY <2>3 DEF TypeOK, Adds
  <2> QED
    BY <2>1, <2>2, <2>3
<1>6. CASE MainUnlinks
  BY <1>6 DEF TypeOK, MainUnlinks
<1>7. CASE MainPrints
  BY <1>7, BenchAssumption DEF TypeOK, MainPrints
<1>8. CASE MainKilled
  BY <1>8 DEF TypeOK, MainKilled
<1>9. CASE NewRun
  BY <1>9, BenchAssumption DEF TypeOK, NewRun
<1>10. ASSUME NEW p \in Pids, PairGoesLive(p) PROVE TypeOK'
  BY <1>10 DEF TypeOK, PairGoesLive
<1>11. ASSUME NEW p \in Pids, PairRound(p) PROVE TypeOK'
  <2>1. Succ(count[p]) \in 0 .. W - 1
    BY PairTypes DEF TypeOK
  <2> QED
    BY <1>11, <2>1 DEF TypeOK, PairRound
<1>12. ASSUME NEW p \in Pids, PairTimeUp(p) PROVE TypeOK'
  BY <1>12 DEF TypeOK, PairTimeUp
<1>13. ASSUME NEW p \in Pids, PairSlaveEnds(p) PROVE TypeOK'
  BY <1>13 DEF TypeOK, PairSlaveEnds
<1>14. ASSUME NEW p \in Pids, PairOpensLog(p) PROVE TypeOK'
  BY <1>14 DEF TypeOK, PairOpensLog
<1>15. ASSUME NEW p \in Pids, PairWritesLog(p) PROVE TypeOK'
  <2>1. Low(count[p]) \in 0 .. P - 1
    BY PairTypes DEF TypeOK
  <2> QED
    BY <1>15, <2>1 DEF TypeOK, PairWritesLog
<1>16. ASSUME NEW p \in Pids, PairFails(p) PROVE TypeOK'
  BY <1>16 DEF TypeOK, PairFails
<1>17. CASE UNCHANGED vars
  BY <1>17 DEF TypeOK
<1> QED
  BY <1>1, <1>2, <1>3, <1>4, <1>5, <1>6, <1>7, <1>8, <1>9, <1>10, <1>11, <1>12,
     <1>13, <1>14, <1>15, <1>16, <1>17
  DEF Next, MainStep, PairActs, PairStops, Finished

\* A pair has a log only once it has ended, and its file holds the log.
LEMMA PairStep == IInv /\ [Next]_vars => PairInv'
<1> SUFFICES ASSUME IInv, [Next]_vars PROVE PairInv'
  OBVIOUS
<1> USE DEF IInv, vars, mainVars, pairVars, PairInv
<1>1. CASE MainForks
  BY <1>1 DEF TypeOK, MainForks
<1>2. CASE MainStopsForking
  BY <1>2 DEF MainStopsForking
<1>3. CASE MainWaits
  BY <1>3 DEF MainWaits
<1>4. CASE MainOpensDir
  BY <1>4 DEF MainOpensDir
<1>5. ASSUME NEW p \in Pids, MainReads(p) PROVE PairInv'
  <2>1. Skips(p) \/ Adds(p)
    BY <1>5, ReadCases
  <2>2. CASE Skips(p)
    BY <2>2 DEF TypeOK, Skips
  <2>3. CASE Adds(p)
    BY <2>3 DEF TypeOK, Adds
  <2> QED
    BY <2>1, <2>2, <2>3
<1>6. CASE MainUnlinks
  BY <1>6 DEF MainUnlinks
<1>7. CASE MainPrints
  BY <1>7 DEF MainPrints
<1>8. CASE MainKilled
  BY <1>8 DEF MainKilled
<1>9. CASE NewRun
  BY <1>9 DEF TypeOK, NewRun
<1>10. ASSUME NEW p \in Pids, PairGoesLive(p) PROVE PairInv'
  BY <1>10 DEF TypeOK, PairGoesLive
<1>11. ASSUME NEW p \in Pids, PairRound(p) PROVE PairInv'
  BY <1>11 DEF PairRound
<1>12. ASSUME NEW p \in Pids, PairTimeUp(p) PROVE PairInv'
  BY <1>12 DEF PairTimeUp
<1>13. ASSUME NEW p \in Pids, PairSlaveEnds(p) PROVE PairInv'
  BY <1>13 DEF PairSlaveEnds
<1>14. ASSUME NEW p \in Pids, PairOpensLog(p) PROVE PairInv'
  BY <1>14 DEF PairOpensLog
<1>15. ASSUME NEW p \in Pids, PairWritesLog(p) PROVE PairInv'
  BY <1>15 DEF TypeOK, PairWritesLog
<1>16. ASSUME NEW p \in Pids, PairFails(p) PROVE PairInv'
  BY <1>16 DEF PairFails
<1>17. CASE UNCHANGED vars
  BY <1>17 DEF TypeOK
<1> QED
  BY <1>1, <1>2, <1>3, <1>4, <1>5, <1>6, <1>7, <1>8, <1>9, <1>10, <1>11, <1>12,
     <1>13, <1>14, <1>15, <1>16, <1>17
  DEF Next, MainStep, PairActs, PairStops, Finished

\* Main reads the directory after it has reaped its pairs.
LEMMA MainPlaceStep == IInv /\ [Next]_vars => MainInv'
<1> SUFFICES ASSUME IInv, [Next]_vars PROVE MainInv'
  OBVIOUS
<1> USE DEF IInv, vars, mainVars, pairVars, MainInv
<1>1. CASE MainForks
  <2>1. PICK q \in Pids : /\ owner[q] = 0 /\ owner' = [owner EXCEPT ![q] = run]
                         /\ stage' = [stage EXCEPT ![q] = "starting"]
    BY <1>1 DEF MainForks
  <2>2. q \notin reaped
    BY <2>1 DEF PairInv
  <2> QED
    BY <1>1, <2>1, <2>2 DEF TypeOK, MainForks
<1>2. CASE MainStopsForking
  BY <1>2 DEF MainStopsForking
<1>3. CASE MainWaits
  BY <1>3 DEF MainWaits
<1>4. CASE MainOpensDir
  BY <1>4 DEF MainOpensDir
<1>5. ASSUME NEW p \in Pids, MainReads(p) PROVE MainInv'
  <2>1. Skips(p) \/ Adds(p)
    BY <1>5, ReadCases
  <2>2. CASE Skips(p)
    BY <2>2 DEF TypeOK, Skips
  <2>3. CASE Adds(p)
    BY <2>3 DEF TypeOK, Adds
  <2> QED
    BY <2>1, <2>2, <2>3
<1>6. CASE MainUnlinks
  BY <1>6 DEF MainUnlinks
<1>7. CASE MainPrints
  BY <1>7 DEF MainPrints
<1>8. CASE MainKilled
  BY <1>8 DEF MainKilled
<1>9. CASE NewRun
  BY <1>9 DEF TypeOK, NewRun
<1>10. ASSUME NEW p \in Pids, PairGoesLive(p) PROVE MainInv'
  BY <1>10 DEF PairGoesLive
<1>11. ASSUME NEW p \in Pids, PairRound(p) PROVE MainInv'
  BY <1>11 DEF PairRound
<1>12. ASSUME NEW p \in Pids, PairTimeUp(p) PROVE MainInv'
  BY <1>12 DEF PairTimeUp
<1>13. ASSUME NEW p \in Pids, PairSlaveEnds(p) PROVE MainInv'
  BY <1>13 DEF PairSlaveEnds
<1>14. ASSUME NEW p \in Pids, PairOpensLog(p) PROVE MainInv'
  BY <1>14 DEF PairOpensLog
<1>15. ASSUME NEW p \in Pids, PairWritesLog(p) PROVE MainInv'
  BY <1>15 DEF PairWritesLog
<1>16. ASSUME NEW p \in Pids, PairFails(p) PROVE MainInv'
  BY <1>16 DEF PairFails
<1>17. CASE UNCHANGED vars
  BY <1>17 DEF TypeOK
<1> QED
  BY <1>1, <1>2, <1>3, <1>4, <1>5, <1>6, <1>7, <1>8, <1>9, <1>10, <1>11, <1>12,
     <1>13, <1>14, <1>15, <1>16, <1>17
  DEF Next, MainStep, PairActs, PairStops, Finished

\* The book names pairs with logs, of runs begun.
LEMMA BookStep == IInv /\ [Next]_vars => BookInv'
<1> SUFFICES ASSUME IInv, [Next]_vars PROVE BookInv'
  OBVIOUS
<1> USE DEF IInv, vars, mainVars, pairVars, BookInv, Booked
<1>1. CASE MainForks
  <2>1. PICK q \in Pids : owner[q] = 0 /\ owner' = [owner EXCEPT ![q] = run]
    BY <1>1 DEF MainForks
  <2>2. logged[q] = NoLog
    BY <2>1 DEF PairInv
  <2>3. \A i \in DOMAIN book : book[i][2] # q /\ owner'[book[i][2]] = owner[book[i][2]]
    BY <2>1, <2>2, BookType DEF TypeOK
  <2> QED
    BY <1>1, <2>3 DEF MainForks
<1>2. CASE MainStopsForking
  BY <1>2 DEF MainStopsForking
<1>3. CASE MainWaits
  BY <1>3 DEF MainWaits
<1>4. CASE MainOpensDir
  BY <1>4 DEF MainOpensDir
<1>5. ASSUME NEW p \in Pids, MainReads(p) PROVE BookInv'
  <2>1. Skips(p) \/ Adds(p)
    BY <1>5, ReadCases
  <2>2. CASE Skips(p)
    BY <2>2 DEF TypeOK, Skips
  <2>3. CASE Adds(p)
    <3>1. logged[p] # NoLog /\ owner[p] <= run
      BY <2>3 DEF TypeOK, PairInv, Adds
    <3>2. \A i \in DOMAIN book' : (i \in DOMAIN book /\ book'[i] = book[i]) \/ book'[i] = <<run, p>>
      BY <2>3 DEF Adds
    <3>3. Len(book) + 1 \in DOMAIN book' /\ book'[Len(book) + 1] = <<run, p>>
      BY <2>3 DEF Adds
    <3>4. run \in Int
      BY DEF TypeOK
    <3>5. Booked(run, p)'
      BY <2>3, <3>3 DEF Adds
    <3>6. \A i \in DOMAIN book : book[i][1] = run => book[i][2] \in seen
      BY DEF BookInv
    <3>7. \A i \in DOMAIN book' :
            /\ book'[i][1] <= run /\ owner[book'[i][2]] <= book'[i][1]
            /\ logged[book'[i][2]] # NoLog
            /\ book'[i][1] = run => book'[i][2] \in seen \cup {p}
      <4> SUFFICES ASSUME NEW i \in DOMAIN book'
                   PROVE  /\ book'[i][1] <= run /\ owner[book'[i][2]] <= book'[i][1]
                          /\ logged[book'[i][2]] # NoLog
                          /\ book'[i][1] = run => book'[i][2] \in seen \cup {p}
        OBVIOUS
      <4>1. CASE i \in DOMAIN book /\ book'[i] = book[i]
        BY <3>6, <4>1
      <4>2. CASE book'[i] = <<run, p>>
        BY <3>1, <3>4, <4>2
      <4> QED
        BY <3>2, <4>1, <4>2
    <3> QED
      BY <2>3, <3>5, <3>7 DEF Adds
  <2> QED
    BY <2>1, <2>2, <2>3
<1>6. CASE MainUnlinks
  BY <1>6 DEF MainUnlinks
<1>7. CASE MainPrints
  BY <1>7 DEF MainPrints
<1>8. CASE MainKilled
  BY <1>8 DEF MainKilled
<1>9. CASE NewRun
  <2>1. \A i \in DOMAIN book : book[i][1] \in Int /\ book[i][1] <= run /\ run' = run + 1
    BY <1>9, BookType DEF NewRun
  <2>2. run \in Int
    BY DEF TypeOK
  <2> QED
    BY <1>9, <2>1, <2>2 DEF NewRun
<1>10. ASSUME NEW p \in Pids, PairGoesLive(p) PROVE BookInv'
  BY <1>10 DEF PairGoesLive
<1>11. ASSUME NEW p \in Pids, PairRound(p) PROVE BookInv'
  BY <1>11 DEF PairRound
<1>12. ASSUME NEW p \in Pids, PairTimeUp(p) PROVE BookInv'
  BY <1>12 DEF PairTimeUp
<1>13. ASSUME NEW p \in Pids, PairSlaveEnds(p) PROVE BookInv'
  BY <1>13 DEF PairSlaveEnds
<1>14. ASSUME NEW p \in Pids, PairOpensLog(p) PROVE BookInv'
  BY <1>14 DEF PairOpensLog
<1>15. ASSUME NEW p \in Pids, PairWritesLog(p) PROVE BookInv'
  <2>1. \A i \in DOMAIN book : logged'[book[i][2]] # NoLog
    <3>1. Low(count[p]) \in 0 .. P - 1
      BY PairTypes DEF TypeOK
    <3>2. \A q \in Pids : logged'[q] = logged[q] \/ logged'[q] # NoLog
      BY <1>15, <3>1 DEF TypeOK, PairWritesLog
    <3> QED
      BY <3>2, BookType
  <2> QED
    BY <1>15, <2>1 DEF PairWritesLog
<1>16. ASSUME NEW p \in Pids, PairFails(p) PROVE BookInv'
  BY <1>16 DEF PairFails
<1>17. CASE UNCHANGED vars
  BY <1>17 DEF TypeOK
<1> QED
  BY <1>1, <1>2, <1>3, <1>4, <1>5, <1>6, <1>7, <1>8, <1>9, <1>10, <1>11, <1>12,
     <1>13, <1>14, <1>15, <1>16, <1>17
  DEF Next, MainStep, PairActs, PairStops, Finished

\* What a live run added is gone from the disk.
LEMMA GoneStep == IInv /\ [Next]_vars => GoneInv'
<1> SUFFICES ASSUME IInv, [Next]_vars PROVE GoneInv'
  OBVIOUS
<1> USE DEF IInv, vars, mainVars, pairVars, GoneInv, Live
<1>1. CASE MainForks
  BY <1>1 DEF MainForks
<1>2. CASE MainStopsForking
  BY <1>2 DEF MainStopsForking
<1>3. CASE MainWaits
  BY <1>3 DEF MainWaits
<1>4. CASE MainOpensDir
  BY <1>4 DEF MainOpensDir
<1>5. ASSUME NEW p \in Pids, MainReads(p) PROVE GoneInv'
  <2>1. Skips(p) \/ Adds(p)
    BY <1>5, ReadCases
  <2>2. CASE Skips(p)
    BY <2>2 DEF Skips
  <2>3. CASE Adds(p)
    <3>1. \A i \in DOMAIN book : book[i][1] \in Live => dir[book[i][2]] = NoFile
      BY <2>3 DEF Adds
    <3>2. Live' = Live
      BY <2>3 DEF Adds
    <3>3. \A i \in DOMAIN book' : (i \in DOMAIN book /\ book'[i] = book[i]) \/ book'[i] = <<run, p>>
      BY <2>3 DEF Adds
    <3>4. main' = "unlink" /\ <<run, p>> = <<run', file'>> /\ dir' = dir
      BY <2>3 DEF Adds
    <3> HIDE DEF Live
    <3> QED
      BY <3>1, <3>2, <3>3, <3>4
  <2> QED
    BY <2>1, <2>2, <2>3
<1>6. CASE MainUnlinks
  BY <1>6 DEF TypeOK, MainUnlinks
<1>7. CASE MainPrints
  BY <1>7 DEF MainPrints
<1>8. CASE MainKilled
  <2>1. run \notin printed
    BY <1>8 DEF TypeOK, MainKilled, MainInv
  <2>2. \A i \in DOMAIN book : book[i][1] \in Live' => book[i][1] # run /\ book[i][1] \in Live
    BY <1>8, <2>1 DEF MainKilled
  <2>3. \A i \in DOMAIN book : book[i] = <<run, file>> => book[i][1] = run
    OBVIOUS
  <2> QED
    BY <1>8, <2>2, <2>3 DEF MainKilled
<1>9. CASE NewRun
  <2>1. \A i \in DOMAIN book : book[i][1] \in Live' => book[i][1] \in Live
    <3>1. \A i \in DOMAIN book : book[i][1] # run + 1
      BY BookType DEF BookInv, TypeOK
    <3> QED
      BY <1>9, <3>1 DEF NewRun
  <2>2. main # "unlink"
    BY <1>9 DEF NewRun
  <2> HIDE DEF Live
  <2> QED
    BY <1>9, <2>1, <2>2 DEF NewRun
<1>10. ASSUME NEW p \in Pids, PairGoesLive(p) PROVE GoneInv'
  BY <1>10 DEF PairGoesLive
<1>11. ASSUME NEW p \in Pids, PairRound(p) PROVE GoneInv'
  BY <1>11 DEF PairRound
<1>12. ASSUME NEW p \in Pids, PairTimeUp(p) PROVE GoneInv'
  BY <1>12 DEF PairTimeUp
<1>13. ASSUME NEW p \in Pids, PairSlaveEnds(p) PROVE GoneInv'
  BY <1>13 DEF PairSlaveEnds
<1>14. ASSUME NEW p \in Pids, PairOpensLog(p) PROVE GoneInv'
  <2>1. \A i \in DOMAIN book : book[i][2] # p
    BY <1>14 DEF PairOpensLog, BookInv, PairInv
  <2>2. \A i \in DOMAIN book : dir'[book[i][2]] = dir[book[i][2]]
    BY <1>14, <2>1, BookType DEF TypeOK, PairOpensLog
  <2>3. Live' = Live
    BY <1>14 DEF PairOpensLog
  <2> HIDE DEF Live
  <2> QED
    BY <1>14, <2>2, <2>3 DEF PairOpensLog
<1>15. ASSUME NEW p \in Pids, PairWritesLog(p) PROVE GoneInv'
  <2>1. \A i \in DOMAIN book : book[i][2] # p
    BY <1>15 DEF PairWritesLog, BookInv, PairInv
  <2>2. \A i \in DOMAIN book : dir'[book[i][2]] = dir[book[i][2]]
    BY <1>15, <2>1, BookType DEF TypeOK, PairWritesLog
  <2>3. Live' = Live
    BY <1>15 DEF PairWritesLog
  <2> HIDE DEF Live
  <2> QED
    BY <1>15, <2>2, <2>3 DEF PairWritesLog
<1>16. ASSUME NEW p \in Pids, PairFails(p) PROVE GoneInv'
  BY <1>16 DEF PairFails
<1>17. CASE UNCHANGED vars
  BY <1>17 DEF TypeOK
<1> QED
  BY <1>1, <1>2, <1>3, <1>4, <1>5, <1>6, <1>7, <1>8, <1>9, <1>10, <1>11, <1>12,
     <1>13, <1>14, <1>15, <1>16, <1>17
  DEF Next, MainStep, PairActs, PairStops, Finished

\* No log is added by two live runs.
LEMMA OnceStep == IInv /\ [Next]_vars => OnceInv'
<1> SUFFICES ASSUME IInv, [Next]_vars PROVE OnceInv'
  OBVIOUS
<1> USE DEF IInv, vars, mainVars, pairVars, OnceInv, Live
<1>1. CASE MainForks
  BY <1>1 DEF MainForks
<1>2. CASE MainStopsForking
  BY <1>2 DEF MainStopsForking
<1>3. CASE MainWaits
  BY <1>3 DEF MainWaits
<1>4. CASE MainOpensDir
  BY <1>4 DEF MainOpensDir
<1>5. ASSUME NEW p \in Pids, MainReads(p) PROVE OnceInv'
  <2>1. Skips(p) \/ Adds(p)
    BY <1>5, ReadCases
  <2>2. CASE Skips(p)
    BY <2>2 DEF Skips
  <2>3. CASE Adds(p)
    <3>1. \A i \in DOMAIN book : book[i][1] \in Live => book[i][2] # p
      BY <2>3 DEF Adds, GoneInv
    <3>2. Live' = Live
      BY <2>3 DEF Adds
    <3>3. \A i \in DOMAIN book' : (i \in DOMAIN book /\ book'[i] = book[i])
                                \/ (i = Len(book) + 1 /\ book'[i][2] = p)
      BY <2>3 DEF Adds
    <3> HIDE DEF Live
    <3> QED
      BY <3>1, <3>2, <3>3
  <2> QED
    BY <2>1, <2>2, <2>3
<1>6. CASE MainUnlinks
  BY <1>6 DEF MainUnlinks
<1>7. CASE MainPrints
  BY <1>7 DEF MainPrints
<1>8. CASE MainKilled
  BY <1>8 DEF MainKilled
<1>9. CASE NewRun
  <2>1. \A i \in DOMAIN book : book[i][1] \in Live' => book[i][1] \in Live
    <3>1. \A i \in DOMAIN book : book[i][1] # run + 1
      BY BookType DEF BookInv, TypeOK
    <3> QED
      BY <1>9, <3>1 DEF NewRun
  <2> HIDE DEF Live
  <2> QED
    BY <1>9, <2>1 DEF NewRun
<1>10. ASSUME NEW p \in Pids, PairGoesLive(p) PROVE OnceInv'
  BY <1>10 DEF PairGoesLive
<1>11. ASSUME NEW p \in Pids, PairRound(p) PROVE OnceInv'
  BY <1>11 DEF PairRound
<1>12. ASSUME NEW p \in Pids, PairTimeUp(p) PROVE OnceInv'
  BY <1>12 DEF PairTimeUp
<1>13. ASSUME NEW p \in Pids, PairSlaveEnds(p) PROVE OnceInv'
  BY <1>13 DEF PairSlaveEnds
<1>14. ASSUME NEW p \in Pids, PairOpensLog(p) PROVE OnceInv'
  BY <1>14 DEF PairOpensLog
<1>15. ASSUME NEW p \in Pids, PairWritesLog(p) PROVE OnceInv'
  BY <1>15 DEF PairWritesLog
<1>16. ASSUME NEW p \in Pids, PairFails(p) PROVE OnceInv'
  BY <1>16 DEF PairFails
<1>17. CASE UNCHANGED vars
  BY <1>17 DEF TypeOK
<1> QED
  BY <1>1, <1>2, <1>3, <1>4, <1>5, <1>6, <1>7, <1>8, <1>9, <1>10, <1>11, <1>12,
     <1>13, <1>14, <1>15, <1>16, <1>17
  DEF Next, MainStep, PairActs, PairStops, Finished

\* The scan misses no log of its own pairs.
LEMMA ScanStep == IInv /\ [Next]_vars => ScanInv'
<1> SUFFICES ASSUME IInv, [Next]_vars PROVE ScanInv'
  OBVIOUS
<1> USE DEF IInv, vars, mainVars, pairVars, ScanInv, Booked
<1>1. CASE MainForks
  BY <1>1 DEF MainForks
<1>2. CASE MainStopsForking
  BY <1>2 DEF MainStopsForking
<1>3. CASE MainWaits
  BY <1>3 DEF MainWaits
<1>4. CASE MainOpensDir
  <2> SUFFICES ASSUME main' = "scan", todo' = Files, NEW p \in Pids,
                      owner[p] = run, logged[p] # NoLog
               PROVE  p \in todo' \ seen' /\ dir'[p] = logged'[p]
    BY <1>4 DEF MainOpensDir
  <2>1. seen = {} /\ seen' = {} /\ dir' = dir /\ logged' = logged
    BY <1>4 DEF MainOpensDir, MainInv
  <2>2. \A i \in DOMAIN book : book[i][2] # p
    <3> SUFFICES ASSUME NEW i \in DOMAIN book, book[i][2] = p PROVE FALSE
      OBVIOUS
    <3>1. book[i][1] = run
      BY BookType DEF BookInv, TypeOK
    <3> QED
      BY <2>1, <3>1 DEF BookInv
  <2>3. dir[p] = logged[p] /\ logged[p] \in 0 .. P - 1
    BY <2>2 DEF KeptUntilAdded, TypeOK
  <2> QED
    BY <2>1, <2>3
<1>5. ASSUME NEW p \in Pids, MainReads(p) PROVE ScanInv'
  <2>1. Skips(p) \/ Adds(p)
    BY <1>5, ReadCases
  <2>2. CASE Skips(p)
    BY <2>2 DEF TypeOK, Skips
  <2>3. CASE Adds(p)
    <3> SUFFICES ASSUME NEW q \in Pids, owner[q] = run, logged[q] # NoLog
                 PROVE  \/ q \in unread' \/ Booked(run, q)'
                        \/ (q \in todo' \ seen' /\ dir'[q] = logged'[q])
      BY <2>3 DEF Adds
    <3>1. \/ q \in unread \/ Booked(run, q)
          \/ (q \in todo \ seen /\ dir[q] = logged[q])
      BY <2>3 DEF Adds
    <3>2. Booked(run, q) => Booked(run, q)'
      <4> SUFFICES ASSUME NEW i \in DOMAIN book, book[i] = <<run, q>>
                   PROVE  Booked(run, q)'
        OBVIOUS
      <4>1. i \in DOMAIN book' /\ book'[i] = <<run', q>>
        BY <2>3 DEF Adds
      <4> QED
        BY <4>1
    <3>3. CASE q = p
      <4>1. Len(book) + 1 \in DOMAIN book' /\ book'[Len(book) + 1] = <<run', q>>
        BY <2>3, <3>3 DEF Adds
      <4> QED
        BY <2>3, <4>1 DEF Adds
    <3>4. CASE q # p
      BY <2>3, <3>1, <3>2, <3>4 DEF Adds
    <3> QED
      BY <3>3, <3>4
  <2> QED
    BY <2>1, <2>2, <2>3
<1>6. CASE MainUnlinks
  <2>1. file \in seen
    BY <1>6 DEF MainUnlinks, BookInv
  <2>2. \A q \in Pids \ seen : dir'[q] = dir[q]
    BY <1>6, <2>1 DEF TypeOK, MainUnlinks
  <2> QED
    BY <1>6, <2>2 DEF MainUnlinks
<1>7. CASE MainPrints
  BY <1>7 DEF MainPrints
<1>8. CASE MainKilled
  BY <1>8 DEF MainKilled
<1>9. CASE NewRun
  BY <1>9 DEF NewRun
<1>10. ASSUME NEW p \in Pids, PairGoesLive(p) PROVE ScanInv'
  BY <1>10 DEF PairGoesLive
<1>11. ASSUME NEW p \in Pids, PairRound(p) PROVE ScanInv'
  BY <1>11 DEF PairRound
<1>12. ASSUME NEW p \in Pids, PairTimeUp(p) PROVE ScanInv'
  BY <1>12 DEF PairTimeUp
<1>13. ASSUME NEW p \in Pids, PairSlaveEnds(p) PROVE ScanInv'
  BY <1>13 DEF PairSlaveEnds
<1>14. ASSUME NEW p \in Pids, PairOpensLog(p) PROVE ScanInv'
  <2> SUFFICES ASSUME main \in {"scan", "unlink", "done"}, NEW q \in Pids,
                      owner[q] = run, logged'[q] # NoLog
               PROVE  \/ q \in unread \/ Booked(run, q)
                      \/ (q \in todo \ seen /\ dir'[q] = logged'[q])
    BY <1>14 DEF PairOpensLog
  <2>1. q # p
    BY <1>14 DEF PairOpensLog, MainInv
  <2> QED
    BY <1>14, <2>1 DEF TypeOK, PairOpensLog
<1>15. ASSUME NEW p \in Pids, PairWritesLog(p) PROVE ScanInv'
  <2> SUFFICES ASSUME main \in {"scan", "unlink", "done"}, NEW q \in Pids,
                      owner[q] = run, logged'[q] # NoLog
               PROVE  \/ q \in unread \/ Booked(run, q)
                      \/ (q \in todo \ seen /\ dir'[q] = logged'[q])
    BY <1>15 DEF PairWritesLog
  <2>1. q # p
    BY <1>15 DEF PairWritesLog, MainInv
  <2> QED
    BY <1>15, <2>1 DEF TypeOK, PairWritesLog
<1>16. ASSUME NEW p \in Pids, PairFails(p) PROVE ScanInv'
  BY <1>16 DEF PairFails
<1>17. CASE UNCHANGED vars
  BY <1>17 DEF TypeOK
<1> QED
  BY <1>1, <1>2, <1>3, <1>4, <1>5, <1>6, <1>7, <1>8, <1>9, <1>10, <1>11, <1>12,
     <1>13, <1>14, <1>15, <1>16, <1>17
  DEF Next, MainStep, PairActs, PairStops, Finished

\* A log leaves the disk only when it is booked.
LEMMA KeptStep == IInv /\ [Next]_vars => KeptUntilAdded'
<1> SUFFICES ASSUME IInv, [Next]_vars PROVE KeptUntilAdded'
  OBVIOUS
<1> USE DEF IInv, vars, mainVars, pairVars, KeptUntilAdded
<1>1. CASE MainForks
  BY <1>1 DEF MainForks
<1>2. CASE MainStopsForking
  BY <1>2 DEF MainStopsForking
<1>3. CASE MainWaits
  BY <1>3 DEF MainWaits
<1>4. CASE MainOpensDir
  BY <1>4 DEF MainOpensDir
<1>5. ASSUME NEW p \in Pids, MainReads(p) PROVE KeptUntilAdded'
  <2>1. Skips(p) \/ Adds(p)
    BY <1>5, ReadCases
  <2>2. CASE Skips(p)
    BY <2>2 DEF Skips
  <2>3. CASE Adds(p)
    BY <2>3 DEF Adds
  <2> QED
    BY <2>1, <2>2, <2>3
<1>6. CASE MainUnlinks
  <2>1. PICK i \in DOMAIN book : book[i] = <<run, file>>
    BY <1>6 DEF MainUnlinks, BookInv, Booked
  <2>2. book[i][2] = file
    BY <2>1
  <2>3. \A q \in Pids : q # file => dir'[q] = dir[q]
    BY <1>6 DEF TypeOK, MainUnlinks
  <2> QED
    BY <1>6, <2>1, <2>2, <2>3 DEF MainUnlinks
<1>7. CASE MainPrints
  BY <1>7 DEF MainPrints
<1>8. CASE MainKilled
  BY <1>8 DEF MainKilled
<1>9. CASE NewRun
  BY <1>9 DEF NewRun
<1>10. ASSUME NEW p \in Pids, PairGoesLive(p) PROVE KeptUntilAdded'
  BY <1>10 DEF PairGoesLive
<1>11. ASSUME NEW p \in Pids, PairRound(p) PROVE KeptUntilAdded'
  BY <1>11 DEF PairRound
<1>12. ASSUME NEW p \in Pids, PairTimeUp(p) PROVE KeptUntilAdded'
  BY <1>12 DEF PairTimeUp
<1>13. ASSUME NEW p \in Pids, PairSlaveEnds(p) PROVE KeptUntilAdded'
  BY <1>13 DEF PairSlaveEnds
<1>14. ASSUME NEW p \in Pids, PairOpensLog(p) PROVE KeptUntilAdded'
  BY <1>14 DEF TypeOK, PairOpensLog
<1>15. ASSUME NEW p \in Pids, PairWritesLog(p) PROVE KeptUntilAdded'
  BY <1>15 DEF TypeOK, PairWritesLog
<1>16. ASSUME NEW p \in Pids, PairFails(p) PROVE KeptUntilAdded'
  BY <1>16 DEF PairFails
<1>17. CASE UNCHANGED vars
  BY <1>17 DEF TypeOK
<1> QED
  BY <1>1, <1>2, <1>3, <1>4, <1>5, <1>6, <1>7, <1>8, <1>9, <1>10, <1>11, <1>12,
     <1>13, <1>14, <1>15, <1>16, <1>17
  DEF Next, MainStep, PairActs, PairStops, Finished

\* The invariant is inductive.
LEMMA StepInv == IInv /\ [Next]_vars => IInv'
  BY TypeStep, PairStep, MainPlaceStep, BookStep, GoneStep, OnceStep, ScanStep, KeptStep
  DEF IInv

\* The invariant always holds.
LEMMA AlwaysInv == Spec => []IInv
  BY InitInv, StepInv, PTL DEF Spec

\* The program's variables keep their types, for any number of pids, runs and
\* processes asked for.
THEOREM TypeCorrect == Spec => []TypeOK
<1>1. IInv => TypeOK
  BY DEF IInv
<1> QED
  BY <1>1, AlwaysInv, PTL

\* A total that is printed has every log of the run's own pairs in it, but for
\* files that could not be opened.
THEOREM TotalsComplete == Spec => []TotalComplete
<1>1. IInv => TotalComplete
  <2> SUFFICES ASSUME IInv, out # NoOut, NEW p \in Pids, owner[p] = run, logged[p] # NoLog,
                      p \notin unread
               PROVE  \E i \in Entries({run}) : book[i][2] = p
    BY DEF TotalComplete
  <2>1. main = "done" /\ todo \subseteq seen
    BY DEF IInv, MainInv
  <2>2. PICK i \in DOMAIN book : book[i] = <<run, p>>
    BY <2>1 DEF IInv, ScanInv, Booked
  <2> QED
    BY <2>2 DEF Entries
<1> QED
  BY <1>1, AlwaysInv, PTL

\* No log is in two printed totals, or twice in one.
THEOREM NothingTwice == Spec => []PrintedAtMostOnce
<1>1. IInv => PrintedAtMostOnce
  <2> SUFFICES ASSUME IInv, NEW p \in Pids
               PROVE  Cardinality({i \in Entries(printed) : book[i][2] = p}) <= 1
    BY DEF PrintedAtMostOnce
  <2> DEFINE S == {i \in Entries(printed) : book[i][2] = p}
  <2>1. \A i, j \in S : i = j
    BY DEF IInv, OnceInv, Live, Entries
  <2> SUFFICES Cardinality(S) <= 1
    OBVIOUS
  <2> HIDE DEF S
  <2>2. CASE S = {}
    BY <2>2, FS_EmptySet
  <2>3. CASE S # {}
    <3>1. PICK i \in S : TRUE
      BY <2>3
    <3>2. S = {i}
      BY <2>1, <3>1
    <3>3. Cardinality(S) = 1
      BY <3>2, FS_Singleton
    <3> QED
      BY <3>3
  <2> QED
    BY <2>2, <2>3
<1> QED
  BY <1>1, AlwaysInv, PTL

\* A log leaves the disk only after some run has added it.
THEOREM LogsKept == Spec => []KeptUntilAdded
<1>1. IInv => KeptUntilAdded
  BY DEF IInv
<1> QED
  BY <1>1, AlwaysInv, PTL

\* From opendir () on nothing but unlink () touches a file of this run's pairs: main
\* has reaped every one of them, and who is reaped has stopped writing.
THEOREM DirectoryQuiet == Spec => OwnPairsQuiet
<1>1. ASSUME IInv, [Next]_vars, NEW p \in Mine,
             main \notin {"fork", "wait", "killed"}, dir'[p] # dir[p]
      PROVE  dir'[p] = NoFile
  <2> USE DEF IInv, vars, mainVars, pairVars
  <2>1. main \in {"opendir", "scan", "unlink", "done", "failed"} /\ p \in Pids
    BY <1>1 DEF TypeOK
  <2>2. stage[p] = "ended"
    BY <1>1, <2>1 DEF MainInv
  <2>3. CASE MainUnlinks
    BY <1>1, <2>1, <2>3 DEF TypeOK, MainUnlinks
  <2>4. ASSUME NEW q \in Pids, PairActs(q) PROVE dir'[p] = dir[p]
    BY <1>1, <2>1, <2>2, <2>4
    DEF TypeOK, PairActs, PairStops, PairGoesLive, PairRound, PairTimeUp,
        PairSlaveEnds, PairOpensLog, PairWritesLog, PairFails
  <2>5. CASE UNCHANGED vars \/ MainKilled \/ NewRun
    BY <1>1, <2>5 DEF MainKilled, NewRun
  <2>6. CASE MainStep
    BY <1>1, <2>3, <2>6
    DEF MainStep, MainForks, MainStopsForking, MainWaits, MainOpensDir, MainReads,
        MainPrints
  <2> QED
    BY <1>1, <2>4, <2>5, <2>6 DEF Next, Finished
<1>2. IInv /\ [Next]_vars
        => \A p \in Mine : main \notin {"fork", "wait", "killed"} /\ dir'[p] # dir[p]
                            => dir'[p] = NoFile
  BY <1>1
<1> QED
  BY <1>2, AlwaysInv, PTL DEF Spec, OwnPairsQuiet

-----------------------------------------------------------------------------
(***************************************************************************)
(* One pair of the benchmark put in at full detail (PairInBench).          *)
(***************************************************************************)
\* The detailed pair is a pair as PipePair assumes one.
LEMMA DetailAssumed ==
  ASSUME PipeCap \in Nat \ {0} PROVE Detail!PairAssumption
  BY BenchAssumption DEF Detail!PairAssumption

\* The two processes and what main has of them agree.
Tied ==
  /\ IF owner[Me] = 0 THEN mpc = "pipe" ELSE stage[Me] = Detail!Stage
  /\ count[Me] = iter /\ slave[Me] = Detail!Peer /\ logged[Me] = Detail!Logged
  /\ pidlog = NoLog => dir[Me] = NoFile
  /\ pidlog = EmptyLog => dir[Me] = EmptyLog

DetailInv == IInv /\ Detail!IInv /\ Tied

\* Every step of the two processes is a step of the pair in ContextBench.
LEMMA DetailMoves ==
  ASSUME Me \in Pids, PipeCap \in Nat \ {0}, DetailInv, DetailStep
  PROVE  PairActs(Me) \/ UNCHANGED vars
<1>1. Detail!Moves
  BY DetailAssumed, Detail!PairMoves DEF DetailInv, DetailStep
<1>2. /\ Shown /\ UNCHANGED <<mainVars, owner>>
      /\ owner[Me] # 0 /\ stage[Me] = Detail!Stage
      /\ count[Me] = iter /\ slave[Me] = Detail!Peer /\ logged[Me] = Detail!Logged
      /\ pidlog = NoLog => dir[Me] = NoFile
      /\ pidlog = EmptyLog => dir[Me] = EmptyLog
      /\ TypeOK
  BY DEF DetailInv, DetailStep, Tied, IInv
<1>3. /\ stage = [stage EXCEPT ![Me] = stage[Me]]
      /\ count = [count EXCEPT ![Me] = count[Me]]
      /\ slave = [slave EXCEPT ![Me] = slave[Me]]
      /\ logged = [logged EXCEPT ![Me] = logged[Me]]
  BY <1>2 DEF TypeOK
<1>4. pidlog' = pidlog => logged' = logged /\ dir' = dir
  BY <1>2, <1>3 DEF Shown, Detail!Logged
<1> USE DEF Shown, Detail!Sees, pairVars
<1>5. CASE Detail!Stays
  BY <1>2, <1>3, <1>4, <1>5 DEF Detail!Stays, vars
<1>6. CASE Detail!Born
  BY <1>2, <1>3, <1>4, <1>6 DEF Detail!Born, PairActs, PairStops, PairGoesLive
<1>7. CASE Detail!Counts
  BY <1>2, <1>3, <1>4, <1>7 DEF Detail!Counts, Detail!Succ, Succ, PairActs, PairRound
<1>8. CASE Detail!TimesUp
  BY <1>2, <1>3, <1>4, <1>8 DEF Detail!TimesUp, PairActs, PairTimeUp
<1>9. CASE Detail!PeerGoes
  BY <1>2, <1>3, <1>4, <1>9 DEF Detail!PeerGoes, PairActs, PairSlaveEnds
<1>10. CASE Detail!FileOpens
  <2>1. Detail!Logged' = Detail!Logged /\ pidlog' # pidlog /\ pidlog' = EmptyLog
    BY <1>10 DEF Detail!FileOpens, Detail!Logged, Detail!NoLog, Detail!EmptyLog
  <2> QED
    BY <1>2, <1>3, <1>10, <2>1
    DEF Detail!FileOpens, Detail!NoLog, PairActs, PairStops, PairOpensLog
<1>11. CASE Detail!FileFilled
  <2>1. Low(iter) \in 0 .. P - 1 /\ Detail!Low(iter) = Low(iter)
    BY <1>2, PairTypes DEF TypeOK, Low, Detail!Low
  <2>2. pidlog = EmptyLog /\ pidlog' = Low(iter) /\ pidlog' # pidlog
    BY <1>11, <2>1 DEF Detail!FileFilled, Detail!EmptyLog
  <2>3. Detail!Logged' = Low(iter)
    BY <2>1, <2>2 DEF Detail!Logged, Detail!EmptyLog
  <2> QED
    BY <1>2, <1>3, <1>11, <2>2, <2>3
    DEF Detail!FileFilled, PairActs, PairStops, PairWritesLog
<1>12. CASE Detail!Dies
  <2>1. stage[Me] \in {"starting", "pinging", "stopping"}
    BY <1>2, <1>12 DEF Detail!Dies, Detail!Stage
  <2> QED
    BY <1>2, <1>3, <1>4, <1>12, <2>1 DEF Detail!Dies, PairActs, PairFails
<1> QED
  BY <1>1, <1>5, <1>6, <1>7, <1>8, <1>9, <1>10, <1>11, <1>12 DEF Detail!Moves

\* A step of main or of another pair leaves what is seen of this one.
LEMMA OthersKeepTie ==
  ASSUME Me \in Pids, DetailInv, OtherStep
  PROVE  Tied'
<1>1. /\ TypeOK /\ PairInv /\ BookInv /\ Tied
      /\ UNCHANGED detailVars /\ Detail!Stage' = Detail!Stage
      /\ Detail!Peer' = Detail!Peer /\ Detail!Logged' = Detail!Logged
  BY DEF DetailInv, IInv, OtherStep, detailVars, Detail!Stage, Detail!Peer, Detail!Logged
<1>2. ASSUME owner'[Me] = owner[Me], stage'[Me] = stage[Me], count'[Me] = count[Me],
             slave'[Me] = slave[Me], logged'[Me] = logged[Me], dir'[Me] = dir[Me]
      PROVE  Tied'
  BY <1>1, <1>2 DEF Tied, detailVars
<1>3. ASSUME NEW p \in Pids \ {Me}, PairActs(p) PROVE Tied'
  BY <1>1, <1>2, <1>3
  DEF TypeOK, PairActs, PairStops, PairGoesLive, PairRound, PairTimeUp, PairSlaveEnds,
      PairOpensLog, PairWritesLog, PairFails, pairVars
<1>4. CASE MainForks
  <2>1. PICK q \in Pids : /\ owner[q] = 0 /\ owner' = [owner EXCEPT ![q] = run]
                         /\ stage' = [stage EXCEPT ![q] = "starting"]
    BY <1>4 DEF MainForks
  <2>2. CASE q # Me
    BY <1>1, <1>2, <1>4, <2>1, <2>2 DEF TypeOK, MainForks
  <2>3. CASE q = Me
    <3>1. mpc = "pipe" /\ Detail!Stage = "starting"
      BY <1>1, <2>1, <2>3 DEF Tied, Detail!Stage, Detail!ReportPoints
    <3>2. owner'[Me] # 0 /\ stage'[Me] = "starting"
      BY <1>1, <2>1, <2>3 DEF TypeOK
    <3> QED
      BY <1>1, <1>4, <3>1, <3>2 DEF Tied, MainForks, detailVars
  <2> QED
    BY <2>2, <2>3
<1>5. CASE MainUnlinks
  <2>1. CASE file # Me
    BY <1>1, <1>2, <1>5, <2>1 DEF TypeOK, MainUnlinks, pairVars
  <2>2. CASE file = Me
    <3>1. logged[Me] # NoLog
      BY <1>1, <1>5, <2>2 DEF BookInv, Booked, MainUnlinks
    <3>2. pidlog # NoLog /\ pidlog # EmptyLog
      BY <1>1, <3>1 DEF Tied, Detail!Logged, Detail!EmptyLog, Detail!NoLog
    <3> QED
      BY <1>1, <1>5, <3>2 DEF Tied, MainUnlinks, pairVars, detailVars
  <2> QED
    BY <2>1, <2>2
<1>6. CASE MainKilled \/ NewRun
  BY <1>2, <1>6 DEF MainKilled, NewRun, pairVars
<1>7. CASE MainStep
  BY <1>2, <1>4, <1>5, <1>7
  DEF MainStep, MainStopsForking, MainWaits, MainOpensDir, MainReads, MainPrints, pairVars
<1> QED
  BY <1>3, <1>6, <1>7 DEF OtherStep

\* The tie holds at the start.
LEMMA TiedFirst == ASSUME Me \in Pids, DetailInit PROVE Tied
  BY DEF DetailInit, Init, Detail!Init, Tied, Detail!Peer, Detail!Logged, Detail!NoLog,
         Detail!EmptyLog

\* Every step keeps the tie, and is a step of ContextBench.
LEMMA DetailKeeps ==
  ASSUME Me \in Pids, PipeCap \in Nat \ {0}, DetailInv,
         [DetailStep \/ OtherStep]_<<vars, detailVars>>
  PROVE  DetailInv' /\ [Next]_vars
<1>1. [Next]_vars
  BY DetailMoves DEF Next, OtherStep
<1>2. IInv'
  BY <1>1, StepInv DEF DetailInv
<1>3. Detail!IInv'
  <2>1. [Detail!Next]_(Detail!vars)
    BY DEF DetailStep, OtherStep, detailVars, Detail!vars
  <2> QED
    BY <2>1, DetailAssumed, Detail!StepInv DEF DetailInv
<1>4. Tied'
  <2>1. CASE OtherStep
    BY <2>1, OthersKeepTie
  <2>2. CASE UNCHANGED <<vars, detailVars>>
    BY <2>2 DEF DetailInv, Tied, vars, pairVars, detailVars, Detail!Stage, Detail!Peer,
                Detail!Logged
  <2>3. CASE DetailStep
    <3>1. /\ TypeOK /\ Tied /\ Shown /\ owner' = owner /\ owner[Me] # 0 /\ Detail!Moves
      BY <2>3, DetailAssumed, Detail!PairMoves DEF DetailInv, IInv, DetailStep, Tied
    <3>2. /\ stage'[Me] = Detail!Stage' /\ count'[Me] = iter'
          /\ slave'[Me] = Detail!Peer' /\ logged'[Me] = Detail!Logged'
          /\ dir'[Me] = IF pidlog' = pidlog THEN dir[Me] ELSE pidlog'
      BY <3>1 DEF TypeOK, Shown
    <3>3. pidlog' = NoLog => pidlog = NoLog
      <4>1. Low(iter) \in 0 .. P - 1 /\ Detail!Low(iter) = Low(iter)
        BY <3>1, PairTypes DEF TypeOK, Tied, Low, Detail!Low
      <4> QED
        BY <3>1, <4>1
        DEF Detail!Moves, Detail!Sees, Detail!Stays, Detail!Born, Detail!Counts,
            Detail!TimesUp, Detail!PeerGoes, Detail!FileOpens, Detail!FileFilled,
            Detail!Dies, Detail!EmptyLog
    <3> QED
      BY <3>1, <3>2, <3>3 DEF Tied
  <2> QED
    BY <2>1, <2>2, <2>3
<1> QED
  BY <1>1, <1>2, <1>3, <1>4 DEF DetailInv

\* Putting the two processes in the place of a pair adds no behaviour to the
\* benchmark: with all their interleavings, their alarm and their deaths, what main
\* and the directory see are behaviours of ContextBench, whichever pair it is.
THEOREM PairFits ==
  ASSUME Me \in Pids, PipeCap \in Nat \ {0}
  PROVE  DetailSpec => Spec
<1>1. DetailInit => DetailInv
  <2> SUFFICES ASSUME DetailInit PROVE DetailInv
    OBVIOUS
  <2>1. IInv
    BY InitInv DEF DetailInit
  <2>2. Detail!IInv
    BY DetailAssumed, Detail!InitInv DEF DetailInit
  <2> QED
    BY <2>1, <2>2, TiedFirst DEF DetailInv
<1>2. DetailInv /\ [DetailStep \/ OtherStep]_<<vars, detailVars>>
        => DetailInv' /\ [Next]_vars
  BY DetailKeeps
<1>3. DetailInit => Init
  BY DEF DetailInit
<1> QED
  BY <1>1, <1>2, <1>3, PTL DEF DetailSpec, Spec

-----------------------------------------------------------------------------
\* Sums satisfy the equation that defines them.
LEMMA SumUnrolls ==
  ASSUME NEW n \in Nat, NEW w, \A i \in 1 .. n : w[i] \in Nat
  PROVE  \E e \in [0 .. n -> Nat] : /\ SumOf(w, n) = e[n] /\ e[0] = 0
                                    /\ \A i \in 1 .. n : e[i] = e[i - 1] + w[i]
<1> DEFINE Is(c) == c = [i \in 0 .. n |-> IF i = 0 THEN 0 ELSE c[i - 1] + w[i]]
           next == [v \in (1 .. n) \X Nat |-> v[2] + w[v[1]]]
<1>1. next \in [(1 .. n) \X Nat -> Nat]
  OBVIOUS
<1>2. \E c \in [0 .. n -> Nat] : Is(c)
  <2> HIDE DEF next
  <2>1. PICK c \in [0 .. n -> Nat] : UnrollsTo(c, 0, next, n)
    BY <1>1, RecursionTo
  <2>2. ASSUME NEW i \in 0 .. n
        PROVE  (IF i = 0 THEN 0 ELSE next[<<i, c[i - 1]>>])
                 = (IF i = 0 THEN 0 ELSE c[i - 1] + w[i])
    <3>1. CASE i # 0
      <4>1. i \in 1 .. n /\ c[i - 1] \in Nat
        BY <3>1
      <4> QED
        BY <3>1, <4>1 DEF next
    <3> QED
      BY <3>1
  <2> QED
    BY <2>1, <2>2 DEF UnrollsTo
<1>3. SumOf(w, n) = (CHOOSE c : Is(c))[n]
  BY DEF SumOf
<1>4. Is(CHOOSE c : Is(c))
  <2> HIDE DEF Is
  <2> QED
    BY <1>2
<1> DEFINE e == CHOOSE c : Is(c)
<1> HIDE DEF e
<1>5. e = [i \in 0 .. n |-> IF i = 0 THEN 0 ELSE e[i - 1] + w[i]]
  BY <1>4 DEF e
<1> HIDE DEF Is
<1>6. \A i \in Nat : i <= n => e[i] \in Nat
  <2> DEFINE T == {i \in Nat : i <= n => e[i] \in Nat}
  <2>1. 0 \in T
    BY <1>5
  <2>2. ASSUME NEW i \in T PROVE i + 1 \in T
    BY <1>5
  <2> HIDE DEF T
  <2>3. T \in SUBSET Nat
    BY DEF T
  <2>4. T = Nat
    BY <2>1, <2>2, <2>3, Induct
  <2> QED
    BY <2>4 DEF T
<1>7. e \in [0 .. n -> Nat]
  BY <1>5, <1>6
<1>8. e[0] = 0 /\ \A i \in 1 .. n : e[i] = e[i - 1] + w[i]
  BY <1>5
<1> QED
  BY <1>3, <1>7, <1>8 DEF e

\* A sum depends on what is added only, and grows by the last count.
LEMMA SumGrows ==
  ASSUME NEW n \in Nat, NEW w, NEW v, \A i \in 1 .. n + 1 : w[i] \in Nat,
         \A i \in 1 .. n : v[i] = w[i]
  PROVE  SumOf(v, n) \in Nat /\ SumOf(w, n + 1) = SumOf(v, n) + w[n + 1]
<1>0. n + 1 \in Nat /\ \A i \in 1 .. n : v[i] \in Nat
  OBVIOUS
<1>1. PICK e \in [0 .. n -> Nat] : /\ SumOf(v, n) = e[n] /\ e[0] = 0
                                   /\ \A i \in 1 .. n : e[i] = e[i - 1] + v[i]
  BY <1>0, SumUnrolls, Zenon
<1> DEFINE m == n + 1
<1>2. PICK f \in [0 .. m -> Nat] : /\ SumOf(w, m) = f[m] /\ f[0] = 0
                                   /\ \A i \in 1 .. m : f[i] = f[i - 1] + w[i]
  <2>1. m \in Nat /\ \A i \in 1 .. m : w[i] \in Nat
    OBVIOUS
  <2> HIDE DEF m
  <2> QED
    BY <2>1, SumUnrolls, Zenon
<1> DEFINE T == {i \in Nat : i <= n => f[i] = e[i]}
<1>3. 0 \in T
  BY <1>1, <1>2
<1>4. ASSUME NEW i \in T PROVE i + 1 \in T
  <2> SUFFICES ASSUME i + 1 <= n PROVE f[i + 1] = e[i + 1]
    OBVIOUS
  <2>1. i + 1 \in 1 .. n /\ i + 1 \in 1 .. n + 1 /\ (i + 1) - 1 = i /\ f[i] = e[i]
    OBVIOUS
  <2> QED
    BY <1>1, <1>2, <2>1
<1> HIDE DEF T
<1>5. T \in SUBSET Nat
  BY DEF T
<1>6. T = Nat
  BY <1>3, <1>4, <1>5, Induct
<1>7. f[n] = e[n] /\ e[n] \in Nat
  <2>1. n \in T
    BY <1>6
  <2>2. f[n] = e[n]
    BY <2>1 DEF T
  <2> QED
    BY <1>1, <2>2
<1>8. f[n + 1] = f[n] + w[n + 1]
  <2>1. n + 1 \in 1 .. n + 1 /\ (n + 1) - 1 = n
    OBVIOUS
  <2> QED
    BY <1>2, <2>1
<1> QED
  BY <1>1, <1>2, <1>7, <1>8

\* The sum of nothing, and of zeros.
LEMMA SumOfZeros ==
  ASSUME NEW n \in Nat, NEW w, \A i \in 1 .. n : w[i] = 0
  PROVE  SumOf(w, n) = 0
<1>0. \A i \in 1 .. n : w[i] \in Nat
  OBVIOUS
<1>1. PICK e \in [0 .. n -> Nat] : /\ SumOf(w, n) = e[n] /\ e[0] = 0
                                   /\ \A i \in 1 .. n : e[i] = e[i - 1] + w[i]
  <2>1. n \in Nat
    OBVIOUS
  <2>2. (\A i \in 1 .. n : w[i] \in Nat) =>
          \E e \in [0 .. n -> Nat] : /\ SumOf(w, n) = e[n] /\ e[0] = 0
                                     /\ \A i \in 1 .. n : e[i] = e[i - 1] + w[i]
    BY ONLY <2>1, SumUnrolls
  <2> QED
    BY <1>0, <2>2
<1> DEFINE T == {i \in Nat : i <= n => e[i] = 0}
<1>2. 0 \in T
  BY <1>1
<1>3. ASSUME NEW i \in T PROVE i + 1 \in T
  <2> SUFFICES ASSUME i + 1 <= n PROVE e[i + 1] = 0
    OBVIOUS
  <2>1. i + 1 \in 1 .. n /\ (i + 1) - 1 = i /\ e[i] = 0
    OBVIOUS
  <2>2. e[i + 1] = e[i] + w[i + 1]
    BY <1>1, <2>1
  <2> QED
    BY <2>1, <2>2
<1> HIDE DEF T
<1>4. T \in SUBSET Nat
  BY DEF T
<1>5. T = Nat
  BY <1>2, <1>3, <1>4, Induct
<1> QED
  BY <1>1, <1>5 DEF T

\* What fscanf leaves of the unset half, and the wrapping of an unsigned long,
\* are multiples of P: they do not show in the number printed.
LEMMA AddModulo ==
  ASSUME NEW t \in Nat, NEW d \in Nat, NEW g \in Nat
  PROVE  ((t + (d + P * g)) % W) % P = (t + d) % P
<1> DEFINE k == W \div P
           a == t + (d + P * g)
           q == a \div W
           r == a % W
<1>1. P \in Nat \ {0} /\ W \in Nat \ {0} /\ W % P = 0
  BY BenchAssumption
<1>2. k \in Nat /\ W = P * k
  <2>1. k \in Nat /\ W = P * k + (W % P)
    BY <1>1, DivMod, Zenon
  <2>2. P * k \in Int
    BY <1>1, <2>1
  <2> HIDE DEF k
  <2> QED
    BY <1>1, <2>1, <2>2
<1>3. P * g \in Nat /\ a \in Nat /\ a = (t + d) + P * g
  BY <1>1
<1> HIDE DEF a, k
<1>4. q \in Nat /\ r \in Nat /\ a = W * q + r
  <2>1. q \in Nat /\ r \in 0 .. W - 1 /\ a = W * q + r
    BY <1>1, <1>3, DivMod, Zenon
  <2> HIDE DEF q, r
  <2> QED
    BY <1>1, <2>1
<1> HIDE DEF q, r
<1>5. k * q \in Nat /\ a = r + P * (k * q)
  BY <1>1, <1>2, <1>4
<1>6. t + d \in Nat
  OBVIOUS
<1>7. a % P = r % P
  <2>1. (r + P * (k * q)) % P = r % P
    BY <1>1, <1>4, <1>5, ModShift, Zenon
  <2> QED
    BY <1>5, <2>1, Zenon
<1>8. a % P = (t + d) % P
  <2>1. ((t + d) + P * g) % P = (t + d) % P
    BY <1>1, <1>6, ModShift, Zenon
  <2> QED
    BY <1>3, <2>1, Zenon
<1> QED
  BY <1>7, <1>8, Zenon DEF a, r

\* The total is what the run's entries of the book add up to, but for multiples
\* of P, and it is what gets printed.
SumInv ==
  /\ total % P = SumOf(Entered, Len(book)) % P
  /\ out # NoOut => out = total % P

\* Where the counts entered are the same, and the total, so is the invariant.
LEMMA SumKept ==
  ASSUME SumInv, Entered' = Entered, book' = book, total' = total,
         out' = out \/ out' = total % P
  PROVE  SumInv'
  <1>1. SumOf(Entered, Len(book))' = SumOf(Entered, Len(book))
    BY DEF SumOf
  <1> QED
    BY <1>1 DEF SumInv

\* The counts entered are those of logs written.
LEMMA EnteredIs ==
  ASSUME IInv
  PROVE  /\ Len(book) \in Nat /\ DOMAIN book = 1 .. Len(book)
         /\ \A i \in 1 .. Len(book) : Entered[i] \in Nat
<1>1. Len(book) \in Nat /\ DOMAIN book = 1 .. Len(book)
  BY DEF IInv, TypeOK
<1>2. \A i \in DOMAIN book : logged[book[i][2]] \in 0 .. P - 1
  <2>1. \A i \in DOMAIN book : book[i][2] \in Pids /\ logged[book[i][2]] # NoLog
    BY BookType DEF IInv, BookInv
  <2> QED
    BY <2>1 DEF IInv, TypeOK
<1> QED
  BY <1>1, <1>2, BenchAssumption DEF Entered

\* Every step keeps the sum.
LEMMA SumStep == IInv /\ SumInv /\ [Next]_vars => SumInv'
<1> SUFFICES ASSUME IInv, SumInv, [Next]_vars PROVE SumInv'
  OBVIOUS
<1> USE DEF vars, mainVars, pairVars
<1>1. CASE MainForks
  BY <1>1, SumKept DEF MainForks, Entered
<1>2. CASE MainStopsForking
  BY <1>2, SumKept DEF MainStopsForking, Entered
<1>3. CASE MainWaits
  BY <1>3, SumKept DEF MainWaits, Entered
<1>4. CASE MainOpensDir
  BY <1>4, SumKept DEF MainOpensDir, Entered
<1>5. ASSUME NEW p \in Pids, MainReads(p) PROVE SumInv'
  <2>1. Skips(p) \/ Adds(p)
    BY <1>5, ReadCases DEF IInv
  <2>2. CASE Skips(p)
    BY <2>2, SumKept DEF Skips, Entered
  <2>3. CASE Adds(p)
    <3> DEFINE n == Len(book)
               s == SumOf(Entered, n)
    <3>1. dir[p] = logged[p] /\ logged[p] \in Nat /\ out' = out /\ out = NoOut
      BY <2>3, BenchAssumption DEF IInv, TypeOK, PairInv, MainInv, Adds
    <3>2. PICK g \in 0 .. (W \div P) - 1 : total' = (total + (dir[p] + P * g)) % W
      BY <1>5, <2>3 DEF MainReads, Adds, Scanned
    <3>3. g \in Nat /\ total \in Nat
      BY DEF IInv, TypeOK
    <3>4. total' % P = (total + logged[p]) % P
      <4>1. ((total + (logged[p] + P * g)) % W) % P = (total + logged[p]) % P
        BY <3>1, <3>3, AddModulo, Zenon
      <4>2. total' = (total + (logged[p] + P * g)) % W
        BY <3>1, <3>2, Zenon
      <4> QED
        BY <4>1, <4>2, Zenon
    <3>5. /\ n \in Nat /\ n + 1 \in Nat /\ Len(book') = n + 1
          /\ \A i \in 1 .. n : Entered[i] \in Nat /\ Entered'[i] = Entered[i]
          /\ Entered'[n + 1] = logged[p]
      <4>1. n \in Nat /\ DOMAIN book = 1 .. n /\ \A i \in 1 .. n : Entered[i] \in Nat
        BY EnteredIs
      <4>2. Len(book') = n + 1
        BY <2>3, <4>1 DEF Adds
      <4>3. \A i \in 1 .. n : Entered'[i] = Entered[i]
        BY <2>3, <4>1 DEF Entered, Adds
      <4>4. Entered'[n + 1] = logged[p]
        BY <2>3, <4>1 DEF Entered, Adds
      <4> QED
        BY <4>1, <4>2, <4>3, <4>4
    <3>6. s \in Nat /\ SumOf(Entered', n + 1) = s + logged[p]
      <4>1. \A i \in 1 .. n + 1 : Entered'[i] \in Nat
        BY <3>1, <3>5
      <4> HIDE DEF n
      <4> QED
        BY <3>5, <4>1, SumGrows
    <3>7. (total + logged[p]) % P = (s + logged[p]) % P
      <4>1. total % P = s % P /\ P \in Nat \ {0}
        BY BenchAssumption DEF SumInv
      <4>2. P \in Nat \ {0}
        BY <4>1
      <4>3. ASSUME NEW t \in Nat, NEW x \in Nat, NEW d \in Nat, t % P = x % P
            PROVE  (t + d) % P = (x + d) % P
        BY <4>2, <4>3, ModAdd, Zenon
      <4> QED
        BY <3>1, <3>3, <3>6, <4>1, <4>3, Zenon
    <3> QED
      BY <3>1, <3>4, <3>5, <3>6, <3>7 DEF SumInv
  <2> QED
    BY <2>1, <2>2, <2>3
<1>6. CASE MainUnlinks
  BY <1>6, SumKept DEF MainUnlinks, Entered
<1>7. CASE MainPrints
  BY <1>7, SumKept DEF MainPrints, Entered
<1>8. CASE MainKilled
  BY <1>8, SumKept DEF MainKilled, Entered
<1>9. CASE NewRun
  <2>1. \A i \in 1 .. Len(book) : Entered'[i] = 0
    <3>1. \A i \in DOMAIN book : book[i][1] # run'
      BY <1>9, BookType DEF IInv, TypeOK, BookInv, NewRun
    <3> QED
      BY <1>9, <3>1, EnteredIs DEF NewRun, Entered
  <2>2. SumOf(Entered', Len(book)) = 0
    BY <2>1, EnteredIs, SumOfZeros
  <2> QED
    BY <1>9, <2>2 DEF NewRun, SumInv
<1>10. ASSUME NEW p \in Pids, PairGoesLive(p) PROVE SumInv'
  BY <1>10, SumKept DEF PairGoesLive, Entered
<1>11. ASSUME NEW p \in Pids, PairRound(p) PROVE SumInv'
  BY <1>11, SumKept DEF PairRound, Entered
<1>12. ASSUME NEW p \in Pids, PairTimeUp(p) PROVE SumInv'
  BY <1>12, SumKept DEF PairTimeUp, Entered
<1>13. ASSUME NEW p \in Pids, PairSlaveEnds(p) PROVE SumInv'
  BY <1>13, SumKept DEF PairSlaveEnds, Entered
<1>14. ASSUME NEW p \in Pids, PairOpensLog(p) PROVE SumInv'
  BY <1>14, SumKept DEF PairOpensLog, Entered
<1>15. ASSUME NEW p \in Pids, PairWritesLog(p) PROVE SumInv'
  <2>1. logged[p] = NoLog
    BY <1>15 DEF IInv, PairInv, PairWritesLog
  <2>2. \A i \in DOMAIN book : logged'[book[i][2]] = logged[book[i][2]]
    <3>1. \A i \in DOMAIN book : book[i][2] # p
      BY <2>1 DEF IInv, BookInv
    <3> QED
      BY <1>15, <3>1, BookType DEF IInv, TypeOK, PairWritesLog
  <2>3. Entered' = Entered
    BY <1>15, <2>2 DEF PairWritesLog, Entered
  <2> QED
    BY <1>15, <2>3, SumKept DEF PairWritesLog
<1>16. ASSUME NEW p \in Pids, PairFails(p) PROVE SumInv'
  BY <1>16, SumKept DEF PairFails, Entered
<1>17. CASE UNCHANGED vars
  BY <1>17, SumKept DEF Entered
<1> QED
  BY <1>1, <1>2, <1>3, <1>4, <1>5, <1>6, <1>7, <1>8, <1>9, <1>10, <1>11, <1>12,
     <1>13, <1>14, <1>15, <1>16, <1>17
  DEF Next, MainStep, PairActs, PairStops, Finished

\* The number printed is the sum of the counts added, in the 32 bits "%u"
\* prints, whatever bits the stack left in the upper half of what was read.
THEOREM PrintedSums == Spec => []PrintedIsSum
<1>1. Init => SumInv
  <2> SUFFICES ASSUME Init PROVE SumInv
    OBVIOUS
  <2>1. Len(book) = 0 /\ total = 0 /\ out = NoOut
    BY DEF Init
  <2>2. SumOf(Entered, 0) = 0
    BY SumOfZeros
  <2> QED
    BY <2>1, <2>2 DEF SumInv
<1>2. IInv /\ SumInv /\ [Next]_vars => SumInv'
  BY SumStep
<1>3. SumInv => PrintedIsSum
  BY DEF SumInv, PrintedIsSum
<1> QED
  BY <1>1, <1>2, <1>3, InitInv, StepInv, PTL DEF Spec
=============================================================================

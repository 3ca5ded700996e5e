------------------------------ MODULE Fat12Boot -----------------------------
(***************************************************************************)
(* The boot chain of TINIX: boot.asm loads LOADER.BIN, loader.asm loads    *)
(* KERNEL.BIN, by the same routines over the same FAT12 diskette.  prog is *)
(* the program running; its data differ, its code is modelled once.        *)
(*                                                                         *)
(* A memory unit is half a sector (256 bytes): boot.asm loads to offset    *)
(* 0100h of its segment, loader.asm to offset 0.  A unit holds             *)
(* <<sector, half>> of what was last read there.  Table entries have three *)
(* digits of radix Nib and a byte has two (Nib = 16 in the code).          *)
(*                                                                         *)
(* The BIOS is external: int 13h takes cylinder, head and sector, reads    *)
(* within one track and within one 64 KB segment, and may fail at any      *)
(* time, leaving rubbish in the buffer.                                    *)
(***************************************************************************)
EXTENDS Integers, Sequences

CONSTANTS Disks,             \* the diskettes to boot from
          Names,             \* of files
          Nib,               \* radix of a digit of a table entry
          BytsPerSec, FATSz, SecPerTrk, RootDirSectors,
          TotSec,            \* sectors of the diskette
          EntriesPerSector,  \* directory entries in a sector (dx = 10h)
          Clusters,          \* numbers of the data clusters
          SegHalves          \* half sectors in a segment (256 in the code)

Places == 0 .. RootDirSectors * EntriesPerSector - 1
EndOfChain == Nib * Nib * Nib - 1
Diskettes == [dir : [Places -> [name : Names, cluster : 0 .. EndOfChain]],
              fat : [Clusters -> 0 .. EndOfChain]]

Wanted == [boot |-> "LOADER", loader |-> "KERNEL"]
SectorNoOfFAT1 == 1
NumHeads == 2
SectorNoOfRootDirectory == SectorNoOfFAT1 + 2 * FATSz
DeltaSectorNo == SectorNoOfRootDirectory - 2
SectorOf(cluster) == cluster + RootDirSectors + DeltaSectorNo

ASSUME BootAssumption ==
  /\ {Nib, BytsPerSec, FATSz, SecPerTrk, RootDirSectors, EntriesPerSector,
      TotSec, SegHalves} \subseteq Nat \ {0, 1}
  /\ Clusters \subseteq 2 .. EndOfChain - 1
  /\ SegHalves % 2 = 0
  /\ Disks \subseteq Diskettes

\* The format: the clusters fill the diskette, the table has an entry for each.
ASSUME FormatAssumption ==
  /\ Clusters = {n \in 2 .. EndOfChain : SectorOf(n) < TotSec}
  /\ \A n \in Clusters : (n * 3) \div 2 + 1 < FATSz * BytsPerSec

\* The chains of the two files may end with any mark, be of any length, run in
\* circles or share clusters; they do not lead to entries 0 and 1, which belong
\* to no cluster (as the chain of an empty file would), for at those numbers
\* the code reads directory sectors and takes them for the file's.
Marks == {n \in 2 .. EndOfChain : n \notin Clusters}
Closed(d, used) ==
  /\ \A e \in Places : d.dir[e].name \in {Wanted.boot, Wanted.loader}
                         => d.dir[e].cluster \in used \cup Marks
  /\ \A n \in used : d.fat[n] \in used \cup Marks
ASSUME DiskAssumption ==
  \A d \in Disks : \E used \in SUBSET Clusters : Closed(d, used)

VARIABLES disk,     \* the diskette
          prog,     \* the program running
          pc,       \* where it stands
          left,     \* wRootDirSizeForLoop
          sector,   \* wSectorNo
          ax, bx,   \* cluster number, load offset
          mem,      \* the segment each program loads into
          win,      \* the two sectors in the 4 KB below it
          got       \* history: clusters the BIOS delivered to [es:bx]

vars == <<disk, prog, pc, left, sector, ax, bx, mem, win, got>>
search == <<left, sector>>

Progs == {"boot", "loader"}
Offset == [boot |-> 1, loader |-> 0]
Rubbish == -1
Reads == {"readdir", "readdata", "readfat"}
Halves == {<<s, h>> : s \in 0 .. TotSec - 1, h \in {0, 1}}
            \cup {<<Rubbish, h>> : h \in {0, 1}}

TypeOK ==
  /\ disk \in Diskettes /\ prog \in Progs
  /\ pc \in {"search", "scan", "next", "loaded", "absent"} \cup Reads
  /\ left \in 0 .. RootDirSectors
  /\ sector \in SectorNoOfRootDirectory
                  .. SectorNoOfRootDirectory + RootDirSectors
  /\ ax \in 0 .. EndOfChain /\ bx \in 0 .. SegHalves - 1
  /\ mem \in [Progs -> [0 .. SegHalves - 1 -> Halves]]
  /\ win \in [{0, 1} -> {Rubbish} \cup 0 .. TotSec - 1]
  /\ got \in Seq(Clusters)

Blank == [h \in 0 .. SegHalves - 1 |-> <<Rubbish, 0>>]

Init ==
  /\ disk \in Disks
  /\ prog = "boot" /\ pc = "search"
  /\ left = RootDirSectors /\ sector = SectorNoOfRootDirectory
  /\ ax = 0 /\ bx = 0 /\ got = <<>>
  /\ mem = [p \in Progs |-> Blank] /\ win = [i \in {0, 1} |-> Rubbish]

-----------------------------------------------------------------------------
(***************************************************************************)
(* The diskette's table: entries 2k and 2k+1 share bytes 3k to 3k+2.       *)
(***************************************************************************)
Entry(n) == IF n \in Clusters THEN disk.fat[n] ELSE 0
FatByte(o) ==
  LET e == Entry(2 * (o \div 3))
      f == Entry(2 * (o \div 3) + 1)
  IN CASE o % 3 = 0 -> e % (Nib * Nib)
       [] o % 3 = 1 -> e \div (Nib * Nib) + Nib * (f % Nib)
       [] o % 3 = 2 -> f \div Nib

\* A byte of the window; both copies of the table are alike, and what lies
\* behind them is not a table.
WindowByte(o) ==
  LET s == win[o \div BytsPerSec] - SectorNoOfFAT1
  IN IF s \in 0 .. 2 * FATSz - 1
       THEN FatByte((s % FATSz) * BytsPerSec + (o % BytsPerSec)) ELSE 0

(***************************************************************************)
(* ReadSector's conversion, and the BIOS's way back from it.               *)
(***************************************************************************)
\* Mutant: inc ah forgotten, sectors of a track counted from 0.
ChsFromZero(x) ==
  LET y == x \div SecPerTrk
  IN [cylinder |-> y \div 2, head |-> y % 2, sec |-> x % SecPerTrk]

Chs(x) ==
  LET y == x \div SecPerTrk
  IN [cylinder |-> y \div 2, head |-> y % 2, sec |-> (x % SecPerTrk) + 1]

SectorAt(c) == (c.cylinder * NumHeads + c.head) * SecPerTrk + c.sec - 1
Readable(x, n) ==
  LET c == Chs(x)
  IN c.sec >= 1 /\ c.sec + n - 1 <= SecPerTrk /\ SectorAt(c) + n <= TotSec
InSegment(offset) == offset + 1 < SegHalves
Filled(s) == [mem EXCEPT ![prog][bx] = <<s, 0>>, ![prog][bx + 1] = <<s, 1>>]

\* The sector number of each read: a directory sector, a data sector, or the
\* sector in which the entry of cluster ax begins.
FatSector == SectorNoOfFAT1 + ((ax * 3) \div 2) \div BytsPerSec

-----------------------------------------------------------------------------
(***************************************************************************)
(* The search: one root directory sector after the other is read to the    *)
(* place where the file will go, and its entries compared.                 *)
(***************************************************************************)
Search ==
  /\ pc = "search"
  /\ IF left = 0
       THEN pc' = "absent" /\ UNCHANGED <<left, bx>>
       ELSE pc' = "readdir" /\ left' = left - 1 /\ bx' = Offset[prog]
  /\ UNCHANGED <<disk, prog, sector, ax, mem, win, got>>

ReadDir ==
  /\ pc = "readdir" /\ Readable(sector, 1) /\ InSegment(bx)
  /\ mem' = Filled(SectorAt(Chs(sector))) /\ pc' = "scan"
  /\ UNCHANGED <<disk, prog, search, ax, bx, win, got>>

\* The entries of the sector in memory that bear the name, in order.
Matches ==
  LET first == (mem[prog][Offset[prog]][1] - SectorNoOfRootDirectory)
                 * EntriesPerSector
  IN {e \in first .. first + EntriesPerSector - 1 :
        e \in Places /\ disk.dir[e].name = Wanted[prog]}

Scan ==
  /\ pc = "scan"
  /\ IF Matches = {}
       THEN pc' = "search" /\ sector' = sector + 1 /\ UNCHANGED <<ax, bx>>
       ELSE /\ \E e \in Matches : /\ \A f \in Matches : e <= f
                                  /\ ax' = disk.dir[e].cluster
            /\ bx' = Offset[prog] /\ pc' = "readdata" /\ UNCHANGED sector
  /\ UNCHANGED <<disk, prog, left, mem, win, got>>

(***************************************************************************)
(* The chain: a cluster, its table entry, the next cluster.                *)
(***************************************************************************)
ReadData ==
  /\ pc = "readdata" /\ Readable(SectorOf(ax), 1) /\ InSegment(bx)
  /\ LET s == SectorAt(Chs(SectorOf(ax)))
     IN /\ mem' = Filled(s)
        /\ got' = Append(got, s - RootDirSectors - DeltaSectorNo)
  /\ pc' = "readfat"
  /\ UNCHANGED <<disk, prog, search, ax, bx, win>>

\* Mutant: cl = 1, one sector of the table only.
ReadFatOneSector ==
  /\ pc = "readfat" /\ Readable(FatSector, 1)
  /\ win' = [win EXCEPT ![0] = SectorAt(Chs(FatSector))]
  /\ pc' = "next"
  /\ UNCHANGED <<disk, prog, search, ax, bx, mem, got>>

ReadFat ==
  /\ pc = "readfat" /\ Readable(FatSector, 2)
  /\ win' = [i \in {0, 1} |-> SectorAt(Chs(FatSector)) + i]
  /\ pc' = "next"
  /\ UNCHANGED <<disk, prog, search, ax, bx, mem, got>>

\* Mutant: the carry is not looked at (no jc .GoOnReading).
ReadFailsUnseen ==
  /\ pc \in Reads
  /\ IF pc = "readfat"
       THEN /\ win' = [i \in {0, 1} |-> Rubbish] /\ pc' = "next"
            /\ UNCHANGED <<mem, got>>
       ELSE /\ mem' = IF InSegment(bx) THEN Filled(Rubbish) ELSE mem
            /\ IF pc = "readdir"
                 THEN pc' = "scan" /\ UNCHANGED got
                 ELSE pc' = "readfat" /\ got' = Append(got, ax)
            /\ UNCHANGED win
  /\ UNCHANGED <<disk, prog, search, ax, bx>>

\* The carry set by int 13h: jc back to it, with the buffer as it may be.
ReadFails ==
  /\ pc \in Reads
  /\ IF pc = "readfat"
       THEN win' = [i \in {0, 1} |-> Rubbish] /\ UNCHANGED mem
       ELSE /\ mem' = IF InSegment(bx) THEN Filled(Rubbish) ELSE mem
            /\ UNCHANGED win
  /\ UNCHANGED <<disk, prog, pc, search, ax, bx, got>>

\* Mutant: and ax, 0FFFh left out.
GetFATEntryUnmasked(n) ==
  LET o == ((n * 3) \div 2) % BytsPerSec
      word == WindowByte(o) + Nib * Nib * WindowByte(o + 1)
  IN IF (n * 3) % 2 = 1 THEN word \div Nib ELSE word

\* The word at the entry's place, shifted by a digit for odd clusters, masked.
GetFATEntry(n) ==
  LET o == ((n * 3) \div 2) % BytsPerSec
      word == WindowByte(o) + Nib * Nib * WindowByte(o + 1)
  IN (IF (n * 3) % 2 = 1 THEN word \div Nib ELSE word) % (Nib * Nib * Nib)

\* bx is a 16 bit register.
NextCluster ==
  /\ pc = "next"
  /\ IF GetFATEntry(ax) = EndOfChain
       THEN pc' = "loaded" /\ UNCHANGED <<ax, bx>>
       ELSE /\ ax' = GetFATEntry(ax) /\ bx' = (bx + 2) % SegHalves
            /\ pc' = "readdata"
  /\ UNCHANGED <<disk, prog, search, mem, win, got>>

(***************************************************************************)
(* jmp BaseOfLoader:OffsetOfLoader; the loader starts with data of its     *)
(* own.  Later it goes on to protected mode, which is not part of this     *)
(* module; an absent file ends in jmp $.                                   *)
(***************************************************************************)
StartLoader ==
  /\ pc = "loaded" /\ prog = "boot"
  /\ prog' = "loader" /\ pc' = "search"
  /\ left' = RootDirSectors /\ sector' = SectorNoOfRootDirectory
  /\ got' = <<>> /\ win' = [i \in {0, 1} |-> Rubbish]
  /\ UNCHANGED <<disk, ax, bx, mem>>

Rests ==
  /\ pc = "absent" \/ (pc = "loaded" /\ prog = "loader")
  /\ UNCHANGED vars

Step == Search \/ ReadDir \/ Scan \/ ReadData \/ ReadFat \/ NextCluster
          \/ StartLoader
Next == Step \/ ReadFails \/ Rests

Spec == Init /\ [][Next]_vars

\* The processor runs; a drive that can read the sector does so some day
\* (strong fairness: failures come in between).
FairSpec == /\ Spec /\ WF_vars(Search \/ Scan \/ NextCluster \/ StartLoader)
            /\ SF_vars(ReadDir) /\ SF_vars(ReadData) /\ SF_vars(ReadFat)

-----------------------------------------------------------------------------
(***************************************************************************)
(* Correctness.                                                            *)
(***************************************************************************)
EntriesOf(p) == {e \in Places : disk.dir[e].name = Wanted[p]}

\* The clusters of a file, 0 behind its end.
ChainOf(p) ==
  LET first == CHOOSE e \in EntriesOf(p) : \A f \in EntriesOf(p) : e <= f
      c[i \in Nat] == IF i = 0 THEN disk.dir[first].cluster ELSE Entry(c[i - 1])
  IN c

\* The file p asks for ends with 0FFFh and has room in the segment.
Fits(p) ==
  /\ EntriesOf(p) # {}
  /\ \E n \in 1 .. (SegHalves - Offset[p]) \div 2 : ChainOf(p)[n] = EndOfChain

Loaded(p) == (prog = p /\ pc = "loaded") \/ (p = "boot" /\ prog = "loader")

\* When a program has loaded a file that fits, every cluster of it is at its
\* place in memory, whole and in order, whatever read errors there were
\* (boot.asm 103-140, loader.asm 121-162).
MemoryHoldsFile ==
  \A p \in Progs : Loaded(p) /\ Fits(p) =>
    \A n \in 0 .. SegHalves \div 2 - 1 :
      (\A k \in 0 .. n : ChainOf(p)[k] \in Clusters) =>
        \A h \in {0, 1} : mem[p][Offset[p] + 2 * n + h]
                            = <<SectorOf(ChainOf(p)[n]), h>>

\* The boot chain implements FileLoad: the clusters it reads are those of the
\* file's chain, decoded from two bytes that may lie in two sectors, and it
\* stops with No LOADER or No KERNEL only if the name is nowhere in the root
\* directory (boot.asm 48-140, loader.asm 69-162).
Abstract == INSTANCE FileLoad WITH
  want <- Wanted[prog],
  stage <- CASE pc \in {"search", "readdir", "scan"} -> "searching"
             [] pc \in {"readdata", "readfat", "next"} -> "loading"
             [] OTHER -> pc
LoadsAsPromised == Abstract!Spec

\* A search for a file that is absent or fits comes to an end in spite of read
\* errors; no read asks the BIOS for sectors of two tracks (boot.asm 193-229,
\* loader.asm 235-271).
LoadEnds ==
  \A p \in Progs :
    (prog = p /\ pc = "search" /\ (Fits(p) \/ EntriesOf(p) = {}))
      ~> (prog = p /\ pc \in {"loaded", "absent"})
=============================================================================

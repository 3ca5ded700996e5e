--------------------------- MODULE Fat12Boot_proof --------------------------
(***************************************************************************)
(* Proofs about the boot chain, for every diskette of the format, every    *)
(* geometry and size of table, and every chain of the two files.           *)
(***************************************************************************)
EXTENDS Fat12Boot, NatLemmas

\* The first entry that bears the name, and the cluster it gives.
FirstEntry(p) == CHOOSE e \in EntriesOf(p) : \A f \in EntriesOf(p) : e <= f
First(p) == disk.dir[FirstEntry(p)].cluster

\* The clusters the chains of the two files may run through.
Used == CHOOSE used \in SUBSET Clusters : Closed(disk, used)
DiskInv == Used \in SUBSET Clusters /\ Closed(disk, Used)

\* Directory sectors behind the search.
Behind == sector - SectorNoOfRootDirectory

\* The search: counters agree, the sector in memory is the one last read, and no
\* entry of the sectors behind it has the name.
SearchInv ==
  /\ pc = "search" => left + Behind = RootDirSectors
  /\ pc \in {"readdir", "scan"} => /\ left + Behind + 1 = RootDirSectors
                                   /\ bx = Offset[prog]
  /\ pc = "scan" => mem[prog][Offset[prog]] = <<sector, 0>>
  /\ pc \in {"search", "readdir", "scan"} =>
       /\ got = <<>>
       /\ \A e \in EntriesOf(prog) : Behind * EntriesPerSector <= e

\* The clusters read are a beginning of the file's chain.
GotInv ==
  /\ \A i \in 1 .. Len(got) : got[i] \in Used
  /\ got # <<>> => got[1] = First(prog)
  /\ \A i \in 1 .. Len(got) - 1 : got[i + 1] = disk.fat[got[i]]
  /\ pc \in {"readdata", "readfat", "next", "loaded"} => EntriesOf(prog) # {}

\* The cluster number in the register, and the part of the table in the window.
NextInv ==
  /\ pc = "readdata" => /\ ax = IF got = <<>> THEN First(prog)
                                              ELSE disk.fat[got[Len(got)]]
                        /\ ax \in Used \cup Marks
  /\ pc \in {"readfat", "next"} => got # <<>> /\ ax = got[Len(got)]
  /\ pc = "next" => win[0] = FatSector /\ win[1] = FatSector + 1
  /\ pc = "loaded" => got # <<>> /\ disk.fat[got[Len(got)]] = EndOfChain

\* Room for whole clusters in the segment, and the place of the i-th.
Cap(p) == (SegHalves - Offset[p]) \div 2
Place(p, i) == Offset[p] + 2 * (i - 1)
InPlace(p, s, n) ==
  \A i \in 1 .. n, h \in {0, 1} : mem[p][Place(p, i) + h] = <<SectorOf(s[i]), h>>

\* What MemoryHoldsFile promises of one program.
HoldsFile(p) ==
  Fits(p) => \A n \in 0 .. SegHalves \div 2 - 1 :
               (\A k \in 0 .. n : ChainOf(p)[k] \in Clusters) =>
                 \A h \in {0, 1} : mem[p][Offset[p] + 2 * n + h]
                                     = <<SectorOf(ChainOf(p)[n]), h>>

\* The clusters read are in memory as long as the segment has room for them, and
\* boot's file stays there while the loader runs.
MemInv ==
  /\ pc = "readdata" /\ Len(got) < Cap(prog) =>
       bx = Place(prog, Len(got) + 1) /\ InPlace(prog, got, Len(got))
  /\ pc \in {"readfat", "next", "loaded"} /\ Len(got) <= Cap(prog) =>
       bx = Place(prog, Len(got)) /\ InPlace(prog, got, Len(got))
  /\ prog = "loader" => HoldsFile("boot")

IInv == TypeOK /\ DiskInv /\ SearchInv /\ GotInv /\ NextInv /\ MemInv

-----------------------------------------------------------------------------
\* The constants are numbers of at least two.
LEMMA Positive ==
  /\ Nib \in Nat /\ BytsPerSec \in Nat /\ FATSz \in Nat /\ SecPerTrk \in Nat
  /\ RootDirSectors \in Nat /\ EntriesPerSector \in Nat /\ TotSec \in Nat
  /\ SegHalves \in Nat
  /\ Nib >= 2 /\ BytsPerSec >= 2 /\ FATSz >= 2 /\ SecPerTrk >= 2
  /\ RootDirSectors >= 2 /\ EntriesPerSector >= 2 /\ TotSec >= 2
  /\ SegHalves >= 2 /\ SegHalves % 2 = 0
  BY BootAssumption

\* The BIOS reads the sector the code asks for.
LEMMA SectorRead == ASSUME NEW x \in Nat PROVE SectorAt(Chs(x)) = x
<1> DEFINE y == x \div SecPerTrk
           c == [cylinder |-> y \div 2, head |-> y % 2, sec |-> (x % SecPerTrk) + 1]
<1>1. Chs(x) = c
  BY DEF Chs
<1>2. y \in Nat /\ x % SecPerTrk \in 0 .. SecPerTrk - 1
      /\ x = SecPerTrk * y + (x % SecPerTrk)
  <2>1. SecPerTrk \in Nat \ {0}
    BY Positive
  <2> QED
    BY DivMod, <2>1, Zenon
<1>3. (y \div 2) * 2 + (y % 2) = y
  BY <1>2
<1>4. c.cylinder = y \div 2 /\ c.head = y % 2 /\ c.sec = (x % SecPerTrk) + 1
  OBVIOUS
<1> HIDE DEF y, c
<1>5. (c.cylinder * NumHeads + c.head) * SecPerTrk = y * SecPerTrk
  BY <1>3, <1>4 DEF NumHeads
<1>6. y * SecPerTrk = SecPerTrk * y
  BY <1>2, Positive
<1>7. (c.cylinder * NumHeads + c.head) * SecPerTrk + c.sec - 1 = x
  BY <1>2, <1>4, <1>5, <1>6, Positive
<1> QED
  BY <1>1, <1>7 DEF SectorAt

\* The window holds the byte of the table at p and the one behind it, be it in the
\* same sector or the first of the next.
LEMMA WindowHolds ==
  ASSUME NEW p \in Nat, p < FATSz * BytsPerSec - 1,
         win[0] = SectorNoOfFAT1 + p \div BytsPerSec,
         win[1] = SectorNoOfFAT1 + p \div BytsPerSec + 1
  PROVE  /\ WindowByte(p % BytsPerSec) = FatByte(p)
         /\ WindowByte((p % BytsPerSec) + 1) = FatByte(p + 1)
<1> DEFINE q == p \div BytsPerSec
           o == p % BytsPerSec
           B == BytsPerSec
<1>1. q \in Nat /\ o \in 0 .. B - 1 /\ p = B * q + o /\ B \in Nat \ {0}
  <2>1. B \in Nat \ {0}
    BY Positive
  <2> QED
    BY DivMod, <2>1, Zenon
<1> HIDE DEF q, o, B
<1>2. ASSUME NEW s \in Nat, NEW r \in 0 .. B - 1, B * s + r < FATSz * B
      PROVE  /\ s \in 0 .. 2 * FATSz - 1
             /\ (s % FATSz) * B + r = B * s + r
  <2>1. s < FATSz
    <3>1. B * s < B * FATSz
      BY <1>1, <1>2, Positive
    <3> QED
      BY <1>1, <3>1, Positive
  <2>2. s % FATSz = s
    BY <2>1, Positive
  <2>3. s * B = B * s
    BY <1>1
  <2> QED
    BY <2>1, <2>2, <2>3, Positive
<1>3. WindowByte(o) = FatByte(p)
  <2>1. o \div B = 0 /\ o % B = o
    BY <1>1
  <2>2. win[o \div B] - SectorNoOfFAT1 = q
    BY <1>1, <2>1 DEF q, SectorNoOfFAT1, B
  <2>3. q \in 0 .. 2 * FATSz - 1 /\ (q % FATSz) * B + o = p
    <3>1. B * q + o < FATSz * B
      BY <1>1, Positive DEF B
    <3> QED
      BY <1>1, <1>2, <3>1
  <2> QED
    BY <2>1, <2>2, <2>3 DEF WindowByte, B
<1>4. WindowByte(o + 1) = FatByte(p + 1)
  <2>1. CASE o + 1 < B
    <3>1. (o + 1) \div B = 0 /\ (o + 1) % B = o + 1
      BY <1>1, <2>1
    <3>2. win[(o + 1) \div B] - SectorNoOfFAT1 = q
      BY <1>1, <3>1 DEF q, SectorNoOfFAT1, B
    <3>3. q \in 0 .. 2 * FATSz - 1 /\ (q % FATSz) * B + (o + 1) = p + 1
      <4>1. B * q + (o + 1) < FATSz * B
        BY <1>1, Positive DEF B
      <4>2. (q % FATSz) * B + (o + 1) = B * q + (o + 1)
        BY <1>1, <1>2, <2>1, <4>1
      <4> QED
        BY <1>1, <1>2, <2>1, <4>1, <4>2
    <3> QED
      BY <3>1, <3>2, <3>3 DEF WindowByte, B
  <2>2. CASE o + 1 = B
    <3>1. (o + 1) \div B = 1 /\ (o + 1) % B = 0
      BY <1>1, <2>2
    <3>2. win[(o + 1) \div B] - SectorNoOfFAT1 = q + 1
      BY <1>1, <3>1 DEF q, SectorNoOfFAT1, B
    <3>3. q + 1 \in 0 .. 2 * FATSz - 1 /\ ((q + 1) % FATSz) * B + 0 = p + 1
      <4>1. B * (q + 1) + 0 = p + 1
        BY <1>1, <2>2
      <4>2. B * (q + 1) + 0 < FATSz * B
        BY <1>1, <4>1, Positive DEF B
      <4> QED
        BY <1>1, <1>2, <4>1, <4>2
    <3> QED
      BY <3>1, <3>2, <3>3 DEF WindowByte, B
  <2> QED
    BY <1>1, <2>1, <2>2
<1> QED
  BY <1>3, <1>4 DEF o

\* A table entry has three digits.
LEMMA Radix ==
  /\ EndOfChain \in Nat /\ EndOfChain >= 7
  /\ Nib * Nib \in Nat \ {0} /\ (Nib * Nib) * Nib \in Nat \ {0}
  /\ (Nib * Nib) * Nib = EndOfChain + 1
  <1>1. Nib * Nib \in Nat /\ Nib * Nib >= 4
    BY Positive
  <1> DEFINE s == Nib * Nib
  <1>2. s \in Nat /\ s >= 4 /\ EndOfChain = s * Nib - 1
    BY <1>1 DEF EndOfChain
  <1> HIDE DEF s
  <1>3. s * Nib \in Nat /\ s * Nib >= 8
    BY <1>2, Positive
  <1> QED
    BY <1>2, <1>3 DEF s

LEMMA ClusterRange == Clusters \subseteq 2 .. EndOfChain - 1
  BY BootAssumption

LEMMA EntryRange ==
  ASSUME disk \in Diskettes, NEW n PROVE Entry(n) \in 0 .. EndOfChain
  BY Radix DEF Entry, Diskettes

\* Entries 2k and 2k + 1 and the bytes they share.
LEMMA SharedBytes ==
  ASSUME NEW k \in Nat
  PROVE  LET e == Entry(2 * k)
             f == Entry(2 * k + 1)
         IN /\ FatByte(3 * k) = e % (Nib * Nib)
            /\ FatByte(3 * k + 1) = e \div (Nib * Nib) + Nib * (f % Nib)
            /\ FatByte(3 * k + 2) = f \div Nib
<1>1. (3 * k) \div 3 = k /\ (3 * k) % 3 = 0
  OBVIOUS
<1>2. (3 * k + 1) \div 3 = k /\ (3 * k + 1) % 3 = 1
  OBVIOUS
<1>3. (3 * k + 2) \div 3 = k /\ (3 * k + 2) % 3 = 2
  OBVIOUS
<1>4. FatByte(3 * k) = Entry(2 * k) % (Nib * Nib)
  BY <1>1 DEF FatByte
<1>5. FatByte(3 * k + 1) = Entry(2 * k) \div (Nib * Nib) + Nib * (Entry(2 * k + 1) % Nib)
  BY <1>2 DEF FatByte
<1>6. FatByte(3 * k + 2) = Entry(2 * k + 1) \div Nib
  BY <1>3 DEF FatByte
<1> QED
  BY <1>4, <1>5, <1>6

\* An even entry is the lower three digits of its word ...
LEMMA EvenWord ==
  ASSUME NEW e \in 0 .. EndOfChain, NEW f \in 0 .. EndOfChain
  PROVE  ((e % (Nib * Nib)) + Nib * Nib * (e \div (Nib * Nib) + Nib * (f % Nib)))
            % (Nib * Nib * Nib) = e
<1> DEFINE t == Nib
           s == Nib * Nib
           c == s * t
           a == e % s
           b == e \div s
           g == f % t
<1>1. /\ t \in Nat /\ t >= 2 /\ s \in Nat \ {0} /\ c \in Nat \ {0}
      /\ e \in Nat /\ e < c /\ f \in Nat
  BY Positive, Radix
<1>2. a \in 0 .. s - 1 /\ b \in Nat /\ e = s * b + a
  <2> HIDE DEF t, s, c
  <2> QED
    BY <1>1, DivMod
<1>3. g \in 0 .. t - 1
  BY <1>1
<1> HIDE DEF t, s, a, b, g
<1>4. a + s * (b + t * g) = c * g + e
  <2>1. s * (b + t * g) = s * b + s * (t * g)
    BY <1>1, <1>2, <1>3
  <2>2. s * (t * g) = (s * t) * g
    BY <1>1, <1>2, <1>3
  <2> QED
    BY <1>1, <1>2, <1>3, <2>1, <2>2
<1> HIDE DEF c
<1>5. (c * g + e) % c = e
  BY <1>1, <1>3, DivModUnique
<1> QED
  BY <1>4, <1>5 DEF t, s, a, b, c, g

\* ... and an odd one what is left when the lowest digit is shifted out.
LEMMA OddWord ==
  ASSUME NEW e \in 0 .. EndOfChain, NEW f \in 0 .. EndOfChain
  PROVE  ((e \div (Nib * Nib) + Nib * (f % Nib) + Nib * Nib * (f \div Nib))
             \div Nib) % (Nib * Nib * Nib) = f
<1> DEFINE t == Nib
           s == Nib * Nib
           b == e \div s
           g == f % t
           h == f \div t
<1>1. /\ t \in Nat \ {0} /\ s \in Nat \ {0} /\ s * t = EndOfChain + 1
      /\ e \in Nat /\ e < s * t /\ f \in Nat /\ f < s * t
  BY Positive, Radix
<1>2. b \in 0 .. t - 1
  <2> HIDE DEF t, s
  <2>1. b \in Nat /\ e % s \in 0 .. s - 1 /\ e = s * b + (e % s)
    BY <1>1, DivMod
  <2> HIDE DEF b
  <2>2. s * b < s * t
    BY <1>1, <2>1
  <2>3. b < t
    BY <1>1, <2>1, <2>2
  <2> QED
    BY <1>1, <2>1, <2>3
<1>3. g \in 0 .. t - 1 /\ h \in Nat /\ f = t * h + g
  <2> HIDE DEF t, s
  <2> QED
    BY <1>1, DivMod
<1>4. s = t * t
  OBVIOUS
<1> HIDE DEF t, s, b, g, h
<1>5. b + t * g + s * h = t * f + b
  <2>1. t * f = t * (t * h) + t * g
    BY <1>1, <1>3
  <2>2. t * (t * h) = (t * t) * h
    BY <1>1, <1>3
  <2> QED
    BY <1>1, <1>2, <1>3, <1>4, <2>1, <2>2
<1>6. (t * f + b) \div t = f
  BY <1>1, <1>2, DivModUnique
<1>7. f % (s * t) = f
  BY <1>1
<1> QED
  BY <1>5, <1>6, <1>7 DEF t, s, b, g, h

\* GetFATEntry returns the entry the table has for the cluster.
LEMMA EntryDecoded ==
  ASSUME disk \in Diskettes, ax \in Clusters,
         win[0] = FatSector, win[1] = FatSector + 1
  PROVE  GetFATEntry(ax) = disk.fat[ax]
<1> DEFINE p == (ax * 3) \div 2
           o == p % BytsPerSec
           word == WindowByte(o) + Nib * Nib * WindowByte(o + 1)
<1>1. ax \in Nat /\ p \in Nat /\ p < FATSz * BytsPerSec - 1
  <2>1. ax \in Nat
    BY ClusterRange
  <2>2. p + 1 < FATSz * BytsPerSec
    BY FormatAssumption
  <2>3. FATSz * BytsPerSec \in Nat
    BY Positive
  <2> QED
    BY <2>1, <2>2, <2>3
<1>2. GetFATEntry(ax) = (IF (ax * 3) % 2 = 1 THEN word \div Nib ELSE word)
                          % (Nib * Nib * Nib)
  BY DEF GetFATEntry
<1>3. word = FatByte(p) + Nib * Nib * FatByte(p + 1)
  <2>1. WindowByte(o) = FatByte(p) /\ WindowByte(o + 1) = FatByte(p + 1)
    <3> HIDE DEF p
    <3> QED
      BY <1>1, WindowHolds DEF FatSector, p
  <2> QED
    BY <2>1
<1> HIDE DEF word
<1>4. disk.fat[ax] = Entry(ax)
  BY DEF Entry
<1>5. CASE ax % 2 = 0
  <2> DEFINE k == ax \div 2
  <2>1. k \in Nat /\ ax = 2 * k /\ p = 3 * k /\ (ax * 3) % 2 = 0
    BY <1>1, <1>5
  <2> HIDE DEF k, p
  <2> DEFINE e == Entry(2 * k)
             f == Entry(2 * k + 1)
  <2>2. e \in 0 .. EndOfChain /\ f \in 0 .. EndOfChain
    BY EntryRange
  <2>3. FatByte(p) = e % (Nib * Nib)
        /\ FatByte(p + 1) = e \div (Nib * Nib) + Nib * (f % Nib)
    BY <2>1, SharedBytes
  <2>4. Entry(ax) = e
    BY <2>1
  <2> HIDE DEF e, f
  <2>5. word % (Nib * Nib * Nib) = e
    BY <1>3, <2>2, <2>3, EvenWord
  <2> QED
    BY <1>2, <1>4, <2>1, <2>4, <2>5
<1>6. CASE ax % 2 = 1
  <2> DEFINE k == ax \div 2
  <2>1. k \in Nat /\ ax = 2 * k + 1 /\ p = 3 * k + 1 /\ (ax * 3) % 2 = 1
    BY <1>1, <1>6
  <2> HIDE DEF k, p
  <2> DEFINE e == Entry(2 * k)
             f == Entry(2 * k + 1)
  <2>2. e \in 0 .. EndOfChain /\ f \in 0 .. EndOfChain
    BY EntryRange
  <2>a. (3 * k + 1) + 1 = 3 * k + 2
    BY <2>1
  <2>3. FatByte(p) = e \div (Nib * Nib) + Nib * (f % Nib)
        /\ FatByte(p + 1) = f \div Nib
    BY <2>1, <2>a, SharedBytes
  <2>4. Entry(ax) = f
    BY <2>1
  <2> HIDE DEF e, f
  <2>5. (word \div Nib) % (Nib * Nib * Nib) = f
    BY <1>3, <2>2, <2>3, OddWord
  <2> QED
    BY <1>2, <1>4, <2>1, <2>4, <2>5
<1> QED
  BY <1>1, <1>5, <1>6

\* Primed definitions of the diskette alone.
LEMMA DiskKept ==
  ASSUME disk' = disk
  PROVE  /\ Used' = Used /\ (DiskInv => DiskInv')
         /\ \A p : EntriesOf(p)' = EntriesOf(p) /\ First(p)' = First(p)
  <1>1. Used' = Used
    BY DEF Used
  <1>2. ASSUME NEW p PROVE EntriesOf(p)' = EntriesOf(p)
    BY DEF EntriesOf
  <1>3. ASSUME NEW p PROVE First(p)' = First(p)
    BY <1>2 DEF First, FirstEntry
  <1> QED
    BY <1>1, <1>2, <1>3 DEF DiskInv

LEMMA ChainKept ==
  ASSUME disk' = disk, NEW p \in Progs
  PROVE  ChainOf(p)' = ChainOf(p) /\ Fits(p)' = Fits(p)
  <1>1. EntriesOf(p)' = EntriesOf(p)
    BY DiskKept
  <1>2. ChainOf(p)' = ChainOf(p)
    BY <1>1 DEF ChainOf, Entry
  <1> QED
    BY <1>1, <1>2 DEF Fits

\* What a delivered sector leaves in memory.
LEMMA FilledAt ==
  ASSUME TypeOK, InSegment(bx), NEW s \in {Rubbish} \cup 0 .. TotSec - 1
  PROVE  /\ Filled(s) \in [Progs -> [0 .. SegHalves - 1 -> Halves]]
         /\ \A h \in {0, 1} : Filled(s)[prog][bx + h] = <<s, h>>
         /\ \A i \in 0 .. SegHalves - 1 :
              i # bx /\ i # bx + 1 => Filled(s)[prog][i] = mem[prog][i]
         /\ \A p \in Progs : p # prog => Filled(s)[p] = mem[p]
<1> DEFINE H == 0 .. SegHalves - 1
           m == [mem[prog] EXCEPT ![bx] = <<s, 0>>, ![bx + 1] = <<s, 1>>]
<1>1. /\ mem \in [Progs -> [H -> Halves]] /\ prog \in Progs
      /\ bx \in H /\ bx + 1 \in H /\ <<s, 0>> \in Halves /\ <<s, 1>> \in Halves
  BY Positive DEF TypeOK, InSegment, Halves
<1>2. /\ m \in [H -> Halves] /\ m[bx] = <<s, 0>> /\ m[bx + 1] = <<s, 1>>
      /\ \A i \in H : i # bx /\ i # bx + 1 => m[i] = mem[prog][i]
  <2> HIDE DEF H
  <2>1. mem[prog] \in [H -> Halves] /\ bx # bx + 1
    BY <1>1 DEF H
  <2> QED
    BY <1>1, <2>1
<1>3. Filled(s) = [mem EXCEPT ![prog] = m]
  <2> HIDE DEF H
  <2> QED
    BY <1>1 DEF Filled
<1> HIDE DEF m, H
<1>4. /\ Filled(s) \in [Progs -> [H -> Halves]] /\ Filled(s)[prog] = m
      /\ \A p \in Progs : p # prog => Filled(s)[p] = mem[p]
  BY <1>1, <1>2, <1>3
<1>5. bx + 0 = bx
  BY <1>1 DEF H
<1> QED
  BY <1>2, <1>4, <1>5 DEF H

LEMMA OffsetRange == \A p \in Progs : Offset[p] \in {0, 1}
  BY DEF Offset, Progs

\* There is room in the segment for the clusters that Cap counts.
LEMMA Room ==
  ASSUME NEW p \in Progs
  PROVE  /\ Cap(p) \in Nat
         /\ \A i \in 1 .. Cap(p) : /\ Place(p, i) \in 0 .. SegHalves - 2
                                   /\ Place(p, i) = Offset[p] + 2 * (i - 1)
<1>1. Offset[p] \in {0, 1}
  BY OffsetRange
<1> QED
  BY <1>1, Positive DEF Cap, Place

\* The least entry that bears the name is the first one.
LEMMA FirstIsLeast ==
  ASSUME NEW p, NEW e \in EntriesOf(p), \A f \in EntriesOf(p) : e <= f
  PROVE  FirstEntry(p) = e
<1> DEFINE S == EntriesOf(p)
           Least(x) == x \in S /\ \A f \in S : x <= f
<1>1. S \subseteq Nat
  BY DEF EntriesOf, Places
<1>2. \A x : Least(x) => x = e
  BY <1>1
<1>3. FirstEntry(p) = CHOOSE x \in S : \A f \in S : x <= f
  BY DEF FirstEntry
<1> HIDE DEF S
<1>4. LET c == CHOOSE x \in S : \A f \in S : x <= f
      IN c \in S /\ \A f \in S : c <= f
  <2> \E x \in S : \A f \in S : x <= f
    BY DEF S
  <2> QED
    OBVIOUS
<1> QED
  BY <1>2, <1>3, <1>4

\* If there is an entry, there is a first one.
LEMMA FirstExists ==
  ASSUME NEW p, EntriesOf(p) # {}
  PROVE  FirstEntry(p) \in EntriesOf(p)
<1>1. EntriesOf(p) \in SUBSET Nat
  BY DEF EntriesOf, Places
<1>2. PICK e \in EntriesOf(p) : \A f \in EntriesOf(p) : e <= f
  BY <1>1, LeastNatural
<1> QED
  BY <1>2, FirstIsLeast

\* The chain of a file: its first cluster, then one table entry after the other.
LEMMA ChainEquation ==
  ASSUME TypeOK, NEW p \in Progs, EntriesOf(p) # {}
  PROVE  /\ ChainOf(p) \in [Nat -> 0 .. EndOfChain]
         /\ ChainOf(p)[0] = First(p)
         /\ \A i \in Nat : ChainOf(p)[i + 1] = Entry(ChainOf(p)[i])
<1> DEFINE S == 0 .. EndOfChain
           a == First(p)
           next == [v \in Nat \X S |-> Entry(v[2])]
           Is(c) == c = [i \in Nat |-> IF i = 0 THEN a ELSE Entry(c[i - 1])]
<1>1. disk \in Diskettes
  BY DEF TypeOK
<1>2. a \in S
  <2>1. FirstEntry(p) \in Places
    BY FirstExists DEF EntriesOf
  <2> QED
    BY <1>1, <2>1 DEF First, Diskettes
<1>3. next \in [Nat \X S -> S]
  BY <1>1, EntryRange
<1>4. \E c \in [Nat -> S] : Is(c)
  <2> HIDE DEF next, S, a
  <2>1. PICK c \in [Nat -> S] : Unrolls(c, a, next)
    BY <1>2, <1>3, Recursion
  <2>2. ASSUME NEW i \in Nat
        PROVE  (IF i = 0 THEN a ELSE next[<<i, c[i - 1]>>])
                 = (IF i = 0 THEN a ELSE Entry(c[i - 1]))
    <3>1. CASE i # 0
      <4>1. c[i - 1] \in S
        BY <3>1, <2>1
      <4> QED
        BY <4>1 DEF next
    <3> QED
      BY <3>1
  <2>3. Is(c)
    BY <2>1, <2>2 DEF Unrolls
  <2> QED
    BY <2>3
<1>5. ChainOf(p) = CHOOSE c : Is(c)
  BY DEF ChainOf, First, FirstEntry
<1>6. Is(ChainOf(p))
  <2> HIDE DEF Is
  <2> QED
    BY <1>4, <1>5
<1> DEFINE c == ChainOf(p)
<1> HIDE DEF c, a
<1>7. c = [i \in Nat |-> IF i = 0 THEN a ELSE Entry(c[i - 1])]
  BY <1>6 DEF c
<1>8. c[0] = a
  BY <1>7
<1>9. ASSUME NEW i \in Nat PROVE c[i + 1] = Entry(c[i])
  <2>1. c[i + 1] = Entry(c[(i + 1) - 1]) /\ (i + 1) - 1 = i
    BY <1>7
  <2> QED
    BY <2>1
<1>10. c \in [Nat -> S]
  <2>1. ASSUME NEW i \in Nat PROVE (IF i = 0 THEN a ELSE Entry(c[i - 1])) \in S
    BY <1>1, <1>2, EntryRange
  <2> HIDE DEF S
  <2> QED
    BY <1>7, <2>1
<1> QED
  BY <1>8, <1>9, <1>10 DEF c, a

\* Sector numbers are naturals.
LEMMA Sectors ==
  /\ SectorNoOfRootDirectory \in Nat /\ RootDirSectors + DeltaSectorNo \in Nat
  /\ \A n \in Nat : SectorOf(n) \in Nat /\ SectorOf(n) - RootDirSectors - DeltaSectorNo = n
  BY Positive DEF SectorNoOfRootDirectory, DeltaSectorNo, SectorOf, SectorNoOfFAT1

-----------------------------------------------------------------------------
\* The invariant holds of the first state.
LEMMA InitInv == Init => IInv
<1> SUFFICES ASSUME Init PROVE IInv
  OBVIOUS
<1>1. TypeOK
  <2>1. disk \in Diskettes
    BY BootAssumption DEF Init
  <2>2. mem \in [Progs -> [0 .. SegHalves - 1 -> Halves]]
    BY DEF Init, Blank, Halves
  <2>3. got \in Seq(Clusters)
    BY DEF Init
  <2>4. win \in [{0, 1} -> {Rubbish} \cup 0 .. TotSec - 1]
    BY DEF Init
  <2>5. /\ left \in 0 .. RootDirSectors /\ bx \in 0 .. SegHalves - 1
        /\ sector \in SectorNoOfRootDirectory
                        .. SectorNoOfRootDirectory + RootDirSectors
        /\ ax \in 0 .. EndOfChain
    BY Positive, Sectors, Radix DEF Init
  <2>6. prog \in Progs /\ pc = "search"
    BY DEF Init, Progs
  <2> QED
    BY <2>1, <2>2, <2>3, <2>4, <2>5, <2>6 DEF TypeOK
<1>2. DiskInv
  BY DiskAssumption DEF Init, DiskInv, Used
<1>3. SearchInv
  <2>1. Behind = 0 /\ Behind * EntriesPerSector = 0
    BY Sectors, Positive DEF Init, Behind
  <2>2. \A e \in EntriesOf(prog) : 0 <= e
    BY DEF EntriesOf, Places
  <2> QED
    BY <2>1, <2>2, Positive DEF Init, SearchInv
<1>4. GotInv /\ NextInv /\ MemInv
  BY DEF Init, GotInv, NextInv, MemInv
<1> QED
  BY <1>1, <1>2, <1>3, <1>4 DEF IInv

-----------------------------------------------------------------------------
\* The search.
LEMMA SearchStep == IInv /\ Search => IInv'
<1> SUFFICES ASSUME IInv, Search PROVE IInv'
  OBVIOUS
<1>1. /\ pc = "search" /\ UNCHANGED <<disk, prog, sector, ax, mem, win, got>>
      /\ pc' = IF left = 0 THEN "absent" ELSE "readdir"
      /\ left' = IF left = 0 THEN left ELSE left - 1
      /\ bx' = IF left = 0 THEN bx ELSE Offset[prog]
  BY DEF Search
<1>2. TypeOK /\ prog \in Progs /\ left \in 0 .. RootDirSectors
  BY DEF IInv, TypeOK
<1>3. TypeOK'
  <2>1. left' \in 0 .. RootDirSectors
    BY <1>1, <1>2, Positive
  <2>2. bx' \in 0 .. SegHalves - 1
    <3>1. bx \in 0 .. SegHalves - 1
      BY DEF IInv, TypeOK
    <3>2. Offset[prog] \in 0 .. SegHalves - 1
      BY <1>2, OffsetRange, Positive
    <3> QED
      BY <1>1, <3>1, <3>2
  <2>3. pc' \in {"absent", "readdir"}
    BY <1>1
  <2> QED
    BY <1>1, <1>2, <2>1, <2>2, <2>3 DEF TypeOK, Reads
<1>4. EntriesOf(prog)' = EntriesOf(prog) /\ First(prog)' = First(prog)
      /\ Used' = Used /\ DiskInv'
  BY <1>1, DiskKept DEF IInv
<1>5. SearchInv'
  <2>1. Behind' = Behind
    BY <1>1 DEF Behind
  <2>2. left + Behind = RootDirSectors /\ got = <<>>
        /\ \A e \in EntriesOf(prog) : Behind * EntriesPerSector <= e
    BY <1>1 DEF IInv, SearchInv
  <2>3. CASE left = 0
    BY <1>1, <2>3 DEF SearchInv
  <2>4. CASE left # 0
    <3>1. /\ pc' = "readdir" /\ left' = left - 1
          /\ bx' = Offset[prog] /\ prog' = prog /\ got' = got
      BY <1>1, <2>4
    <3>2. left' + Behind' + 1 = RootDirSectors
      <4>1. sector \in Nat /\ Behind \in Int
        BY Sectors, Positive DEF IInv, TypeOK, Behind
      <4> QED
        BY <1>2, <2>1, <2>2, <3>1, <4>1, Positive
    <3> QED
      BY <1>4, <2>1, <2>2, <3>1, <3>2 DEF SearchInv
  <2> QED
    BY <2>3, <2>4
<1>6. got = <<>>
  BY <1>1 DEF IInv, SearchInv
<1>7. GotInv' /\ NextInv'
  BY <1>1, <1>6 DEF GotInv, NextInv
<1>8. MemInv'
  <2>1. HoldsFile("boot")' = HoldsFile("boot")
    BY <1>1, ChainKept DEF HoldsFile, Progs
  <2> QED
    BY <1>1, <2>1 DEF IInv, MemInv
<1> QED
  BY <1>3, <1>4, <1>5, <1>7, <1>8 DEF IInv

\* A read of the loader leaves boot's memory alone.
LEMMA BootKept ==
  ASSUME IInv, disk' = disk, prog' = prog, mem'["boot"] = mem["boot"] \/ prog = "boot"
  PROVE  prog' = "loader" => HoldsFile("boot")'
<1> SUFFICES ASSUME prog = "loader" PROVE HoldsFile("boot")'
  OBVIOUS
<1>1. HoldsFile("boot") /\ mem'["boot"] = mem["boot"]
  BY DEF IInv, MemInv
<1>2. ChainOf("boot")' = ChainOf("boot") /\ Fits("boot")' = Fits("boot")
  BY ChainKept DEF Progs
<1> QED
  BY <1>1, <1>2 DEF HoldsFile

LEMMA ReadDirStep == IInv /\ ReadDir => IInv'
<1> SUFFICES ASSUME IInv, ReadDir PROVE IInv'
  OBVIOUS
<1>1. /\ pc = "readdir" /\ pc' = "scan"
      /\ UNCHANGED <<disk, prog, left, sector, ax, bx, win, got>>
      /\ Readable(sector, 1) /\ InSegment(bx)
      /\ mem' = Filled(SectorAt(Chs(sector)))
  BY DEF ReadDir, search
<1>2. TypeOK /\ prog \in Progs /\ sector \in Nat /\ bx = Offset[prog] /\ got = <<>>
  BY <1>1, Sectors, Positive DEF IInv, TypeOK, SearchInv
<1>3. SectorAt(Chs(sector)) = sector /\ sector \in 0 .. TotSec - 1
  BY <1>1, <1>2, SectorRead, Positive DEF Readable
<1>4. /\ mem' \in [Progs -> [0 .. SegHalves - 1 -> Halves]]
      /\ mem'[prog][bx + 0] = <<sector, 0>>
      /\ \A p \in Progs : p # prog => mem'[p] = mem[p]
  BY <1>1, <1>2, <1>3, FilledAt
<1>5. TypeOK'
  BY <1>1, <1>2, <1>4 DEF TypeOK
<1>6. EntriesOf(prog)' = EntriesOf(prog) /\ DiskInv'
  BY <1>1, DiskKept DEF IInv
<1>7. SearchInv'
  <2>1. bx + 0 = Offset[prog]
    BY <1>2, OffsetRange
  <2>2. mem'[prog'][Offset[prog']] = <<sector', 0>>
    BY <1>1, <1>4, <2>1
  <2>3. Behind' = Behind
    BY <1>1 DEF Behind
  <2> QED
    BY <1>1, <1>6, <2>2, <2>3 DEF IInv, SearchInv
<1>8. GotInv' /\ NextInv'
  BY <1>1, <1>2 DEF GotInv, NextInv
<1>9. prog' = "loader" => HoldsFile("boot")'
  BY <1>1, <1>4, BootKept DEF Progs
<1>10. MemInv'
  BY <1>1, <1>9 DEF MemInv
<1> QED
  BY <1>5, <1>6, <1>7, <1>8, <1>10 DEF IInv

LEMMA ScanStep == IInv /\ Scan => IInv'
<1> SUFFICES ASSUME IInv, Scan PROVE IInv'
  OBVIOUS
<1> DEFINE low == Behind * EntriesPerSector
<1>1. /\ pc = "scan" /\ UNCHANGED <<disk, prog, left, mem, win, got>>
      /\ mem[prog][Offset[prog]] = <<sector, 0>>
      /\ left + Behind + 1 = RootDirSectors
      /\ got = <<>> /\ \A e \in EntriesOf(prog) : low <= e
  BY DEF Scan, IInv, SearchInv
<1>2. /\ TypeOK /\ prog \in Progs /\ left \in 0 .. RootDirSectors
      /\ Behind \in Nat /\ sector \in Nat /\ Offset[prog] \in {0, 1}
  BY Sectors, Positive, OffsetRange DEF IInv, TypeOK, Behind
<1>3. low \in Nat /\ (Behind + 1) * EntriesPerSector = low + EntriesPerSector
  BY <1>2, Positive
<1>4. \A e : e \in Matches <=> /\ e \in EntriesOf(prog)
                               /\ e \in low .. low + EntriesPerSector - 1
  <2>1. mem[prog][Offset[prog]][1] = sector
    BY <1>1
  <2>2. (mem[prog][Offset[prog]][1] - SectorNoOfRootDirectory) * EntriesPerSector
          = low
    BY <2>1 DEF Behind
  <2> HIDE DEF low
  <2> QED
    BY <2>2 DEF Matches, EntriesOf
<1> HIDE DEF low
<1>5. EntriesOf(prog)' = EntriesOf(prog) /\ First(prog)' = First(prog)
      /\ Used' = Used /\ DiskInv'
  BY <1>1, DiskKept DEF IInv
<1>6. prog' = "loader" => HoldsFile("boot")'
  BY <1>1, BootKept
<1>7. CASE Matches = {}
  <2>1. pc' = "search" /\ sector' = sector + 1 /\ ax' = ax /\ bx' = bx
    BY <1>7 DEF Scan
  <2>2. Behind' = Behind + 1
    BY <1>2, <2>1, Sectors DEF Behind
  <2>3. SearchInv'
    <3>1. ASSUME NEW e \in EntriesOf(prog) PROVE low + EntriesPerSector <= e
      <4>1. low <= e /\ e \in Nat
        BY <1>1 DEF EntriesOf, Places
      <4> QED
        BY <1>3, <1>4, <1>7, <4>1, Positive
    <3>2. left' + Behind' = RootDirSectors
      BY <1>1, <1>2, <2>2, Positive
    <3> QED
      BY <1>1, <1>3, <1>5, <2>1, <2>2, <3>1, <3>2 DEF SearchInv
  <2>4. TypeOK'
    <3>1. sector' \in SectorNoOfRootDirectory
                        .. SectorNoOfRootDirectory + RootDirSectors
      BY <1>1, <1>2, <2>1, Sectors, Positive DEF IInv, TypeOK, Behind
    <3> QED
      BY <1>1, <1>2, <2>1, <3>1 DEF TypeOK
  <2>5. GotInv' /\ NextInv' /\ MemInv'
    BY <1>1, <1>6, <2>1 DEF GotInv, NextInv, MemInv
  <2> QED
    BY <1>5, <2>3, <2>4, <2>5 DEF IInv
<1>8. CASE Matches # {}
  <2>1. PICK e \in Matches : /\ \A f \in Matches : e <= f
                             /\ ax' = disk.dir[e].cluster
    BY <1>8 DEF Scan
  <2>2. bx' = Offset[prog] /\ pc' = "readdata" /\ sector' = sector
    BY <1>8 DEF Scan
  <2>3. e \in EntriesOf(prog) /\ e \in Places /\ disk.dir[e].name = Wanted[prog]
    BY <1>4 DEF EntriesOf
  <2>4. FirstEntry(prog) = e
    <3>1. ASSUME NEW f \in EntriesOf(prog) PROVE e <= f
      <4>1. low <= f /\ f \in Nat /\ e \in low .. low + EntriesPerSector - 1
        BY <1>1, <1>4 DEF EntriesOf, Places
      <4> QED
        BY <1>3, <1>4, <2>1, <4>1, Positive
    <3> QED
      BY <2>3, <3>1, FirstIsLeast
  <2>5. ax' = First(prog)
    BY <2>1, <2>4 DEF First
  <2>6. ax' \in Used \cup Marks
    <3>1. Wanted[prog] \in {Wanted.boot, Wanted.loader}
      BY <1>2 DEF Wanted, Progs
    <3> QED
      BY <2>1, <2>3, <3>1 DEF IInv, DiskInv, Closed
  <2>7. TypeOK'
    <3>1. ax' \in 0 .. EndOfChain
      BY <1>2, <2>1, <2>3 DEF TypeOK, Diskettes
    <3>2. bx' \in 0 .. SegHalves - 1
      BY <1>2, <2>2, Positive
    <3> QED
      BY <1>1, <1>2, <2>2, <3>1, <3>2 DEF TypeOK, Reads
  <2>8. SearchInv'
    BY <2>2 DEF SearchInv
  <2>9. GotInv'
    BY <1>1, <1>5, <2>3 DEF GotInv
  <2>10. NextInv'
    BY <1>1, <1>5, <2>2, <2>5, <2>6 DEF NextInv, Marks
  <2>11. MemInv'
    <3>1. Len(got') = 0
      BY <1>1
    <3>2. bx' = Place(prog', 0 + 1)
      BY <1>1, <1>2, <2>2 DEF Place
    <3>3. InPlace(prog, got, 0)'
      BY DEF InPlace
    <3> QED
      BY <1>1, <1>6, <2>2, <3>1, <3>2, <3>3 DEF MemInv
  <2> QED
    BY <1>5, <2>7, <2>8, <2>9, <2>10, <2>11 DEF IInv
<1> QED
  BY <1>7, <1>8

-----------------------------------------------------------------------------
\* A sector that can be read holds a cluster of the file.
LEMMA ReadableCluster ==
  ASSUME IInv, ax \in Used \cup Marks, Readable(SectorOf(ax), 1)
  PROVE  /\ ax \in Used /\ ax \in Clusters
         /\ SectorAt(Chs(SectorOf(ax))) = SectorOf(ax)
         /\ SectorOf(ax) \in 0 .. TotSec - 1
         /\ SectorOf(ax) - RootDirSectors - DeltaSectorNo = ax
<1>1. ax \in Nat /\ SectorOf(ax) \in Nat
      /\ SectorOf(ax) - RootDirSectors - DeltaSectorNo = ax
  BY Sectors, Radix DEF IInv, TypeOK
<1>2. SectorAt(Chs(SectorOf(ax))) = SectorOf(ax)
  BY <1>1, SectorRead
<1>3. SectorOf(ax) + 1 <= TotSec
  BY <1>2 DEF Readable
<1>4. SectorOf(ax) < TotSec
  BY <1>1, <1>3, Positive
<1>5. ax \in Used
  BY <1>4, FormatAssumption DEF Marks
<1> QED
  BY <1>1, <1>2, <1>3, <1>5, Positive DEF IInv, DiskInv

LEMMA ReadDataStep == IInv /\ ReadData => IInv'
<1> SUFFICES ASSUME IInv, ReadData PROVE IInv'
  OBVIOUS
<1> DEFINE n == Len(got)
<1>1. /\ pc = "readdata" /\ pc' = "readfat"
      /\ UNCHANGED <<disk, prog, left, sector, ax, bx, win>>
      /\ Readable(SectorOf(ax), 1) /\ InSegment(bx)
      /\ ax = (IF got = <<>> THEN First(prog) ELSE disk.fat[got[n]])
      /\ ax \in Used \cup Marks
  BY DEF ReadData, search, IInv, NextInv
<1>2. /\ ax \in Used /\ ax \in Clusters /\ SectorOf(ax) \in 0 .. TotSec - 1
      /\ mem' = Filled(SectorOf(ax)) /\ got' = Append(got, ax)
  BY <1>1, ReadableCluster DEF ReadData
<1>3. TypeOK /\ prog \in Progs /\ got \in Seq(Clusters) /\ n \in Nat
      /\ (got = <<>> <=> n = 0)
  BY DEF IInv, TypeOK
<1>4. /\ got' \in Seq(Clusters) /\ Len(got') = n + 1
      /\ got'[n + 1] = ax /\ \A i \in 1 .. n : got'[i] = got[i]
  BY <1>2, <1>3
<1>5. /\ mem' \in [Progs -> [0 .. SegHalves - 1 -> Halves]]
      /\ \A h \in {0, 1} : mem'[prog][bx + h] = <<SectorOf(ax), h>>
      /\ \A i \in 0 .. SegHalves - 1 :
           i # bx /\ i # bx + 1 => mem'[prog][i] = mem[prog][i]
      /\ \A p \in Progs : p # prog => mem'[p] = mem[p]
  BY <1>1, <1>2, <1>3, FilledAt
<1>6. TypeOK'
  BY <1>1, <1>3, <1>4, <1>5 DEF TypeOK, Reads
<1>7. EntriesOf(prog)' = EntriesOf(prog) /\ First(prog)' = First(prog)
      /\ Used' = Used /\ DiskInv'
  BY <1>1, DiskKept DEF IInv
<1>8. prog' = "loader" => HoldsFile("boot")'
  BY <1>1, <1>5, BootKept DEF Progs
<1> HIDE DEF n
<1>9. SearchInv'
  BY <1>1 DEF SearchInv
<1>10. GotInv'
  <2>1. /\ \A i \in 1 .. n : got[i] \in Used
        /\ got # <<>> => got[1] = First(prog)
        /\ \A i \in 1 .. n - 1 : got[i + 1] = disk.fat[got[i]]
        /\ EntriesOf(prog) # {}
    BY <1>1 DEF IInv, GotInv, n
  <2>2. \A i \in 1 .. n + 1 : got'[i] \in Used
    BY <1>2, <1>3, <1>4, <2>1
  <2>3. got'[1] = First(prog)
    BY <1>1, <1>3, <1>4, <2>1
  <2>4. ASSUME NEW i \in 1 .. (n + 1) - 1 PROVE got'[i + 1] = disk.fat[got'[i]]
    <3>1. CASE i = n
      BY <1>1, <1>3, <1>4, <3>1
    <3>2. CASE i # n
      <4>1. i \in 1 .. n - 1 /\ i \in 1 .. n /\ i + 1 \in 1 .. n
        BY <1>3, <3>2
      <4> QED
        BY <1>4, <2>1, <4>1
    <3> QED
      BY <3>1, <3>2
  <2> QED
    BY <1>1, <1>4, <1>7, <2>1, <2>2, <2>3, <2>4 DEF GotInv
<1>11. NextInv'
  <2>1. got' # <<>> /\ ax' = got'[Len(got')]
    BY <1>1, <1>3, <1>4
  <2> QED
    BY <1>1, <2>1 DEF NextInv
<1>12. MemInv'
  <2>1. ASSUME Len(got') <= Cap(prog')
        PROVE  bx' = Place(prog', Len(got')) /\ InPlace(prog, got, Len(got))'
    <3>1. n < Cap(prog)
      BY <1>1, <1>3, <1>4, <2>1, Room
    <3>2. bx = Place(prog, n + 1) /\ InPlace(prog, got, n)
      BY <1>1, <3>1 DEF IInv, MemInv, n
    <3>3. ASSUME NEW i \in 1 .. n + 1, NEW h \in {0, 1}
          PROVE  mem'[prog][Place(prog, i) + h] = <<SectorOf(got'[i]), h>>
      <4>1. CASE i = n + 1
        BY <1>4, <1>5, <3>2, <4>1
      <4>2. CASE i # n + 1
        <5>1. i \in 1 .. n /\ i \in 1 .. Cap(prog) /\ n + 1 \in 1 .. Cap(prog)
          BY <1>3, <3>1, <4>2, Room
        <5>2. Place(prog, i) + h \in 0 .. SegHalves - 1
              /\ Place(prog, i) + h # bx /\ Place(prog, i) + h # bx + 1
          <6>1. /\ Place(prog, i) \in 0 .. SegHalves - 2
                /\ Place(prog, i) = Offset[prog] + 2 * (i - 1)
                /\ bx = Offset[prog] + 2 * ((n + 1) - 1)
            BY <1>3, <3>2, <5>1, Room
          <6> QED
            BY <1>3, <5>1, <6>1, OffsetRange, Positive
        <5>3. mem[prog][Place(prog, i) + h] = <<SectorOf(got[i]), h>>
          BY <3>2, <5>1 DEF InPlace
        <5> QED
          BY <1>4, <1>5, <5>1, <5>2, <5>3
      <4> QED
        BY <4>1, <4>2
    <3>4. InPlace(prog, got, Len(got))'
      BY <1>1, <1>4, <3>3 DEF InPlace, Place
    <3> QED
      BY <1>1, <1>4, <3>2, <3>4
  <2> QED
    BY <1>1, <1>8, <2>1 DEF MemInv
<1> QED
  BY <1>6, <1>7, <1>9, <1>10, <1>11, <1>12 DEF IInv

LEMMA ReadFatStep == IInv /\ ReadFat => IInv'
<1> SUFFICES ASSUME IInv, ReadFat PROVE IInv'
  OBVIOUS
<1>1. /\ pc = "readfat" /\ pc' = "next"
      /\ UNCHANGED <<disk, prog, left, sector, ax, bx, mem, got>>
      /\ Readable(FatSector, 2)
      /\ win' = [i \in {0, 1} |-> SectorAt(Chs(FatSector)) + i]
  BY DEF ReadFat, search
<1>2. FatSector \in Nat
  <2>1. ax \in Nat
    BY Radix DEF IInv, TypeOK
  <2>2. (ax * 3) \div 2 \in Nat
    BY <2>1
  <2> QED
    <3>1. \A p \in Nat : p \div BytsPerSec \in Nat
      BY Positive
    <3> QED
      BY <2>2, <3>1 DEF FatSector, SectorNoOfFAT1
<1>3. SectorAt(Chs(FatSector)) = FatSector /\ FatSector + 1 \in 0 .. TotSec - 1
  BY <1>1, <1>2, SectorRead, Positive DEF Readable
<1>4. /\ win' \in [{0, 1} -> {Rubbish} \cup 0 .. TotSec - 1]
      /\ win'[0] = FatSector /\ win'[1] = FatSector + 1
  BY <1>1, <1>2, <1>3, Positive
<1>5. TypeOK'
  BY <1>1, <1>4 DEF IInv, TypeOK
<1>6. EntriesOf(prog)' = EntriesOf(prog) /\ First(prog)' = First(prog)
      /\ Used' = Used /\ DiskInv'
  BY <1>1, DiskKept DEF IInv
<1>7. prog' = "loader" => HoldsFile("boot")'
  BY <1>1, BootKept
<1>8. SearchInv'
  BY <1>1 DEF SearchInv
<1>9. GotInv'
  BY <1>1, <1>6 DEF IInv, GotInv
<1>10. NextInv'
  <2>1. FatSector' = FatSector
    BY <1>1 DEF FatSector
  <2> QED
    BY <1>1, <1>4, <2>1 DEF IInv, NextInv
<1>11. MemInv'
  BY <1>1, <1>7 DEF IInv, MemInv, InPlace
<1> QED
  BY <1>5, <1>6, <1>8, <1>9, <1>10, <1>11 DEF IInv

\* What GetFATEntry returns is the entry of the last cluster read.
LEMMA NextDecoded ==
  ASSUME IInv, pc = "next"
  PROVE  /\ got # <<>> /\ ax = got[Len(got)] /\ ax \in Used
         /\ GetFATEntry(ax) = disk.fat[got[Len(got)]]
         /\ GetFATEntry(ax) \in Used \cup Marks
<1>1. got # <<>> /\ ax = got[Len(got)]
      /\ win[0] = FatSector /\ win[1] = FatSector + 1
  BY DEF IInv, NextInv
<1>2. Len(got) \in 1 .. Len(got)
  BY <1>1 DEF IInv, TypeOK
<1>3. ax \in Used /\ Used \subseteq Clusters
  BY <1>1, <1>2 DEF IInv, GotInv, DiskInv
<1>4. disk \in Diskettes
  BY DEF IInv, TypeOK
<1>5. GetFATEntry(ax) = disk.fat[ax]
  BY <1>1, <1>3, <1>4, EntryDecoded
<1>6. disk.fat[ax] \in Used \cup Marks
  BY <1>3 DEF IInv, DiskInv, Closed
<1> QED
  BY <1>1, <1>3, <1>5, <1>6

LEMMA NextClusterStep == IInv /\ NextCluster => IInv'
<1> SUFFICES ASSUME IInv, NextCluster PROVE IInv'
  OBVIOUS
<1> DEFINE v == GetFATEntry(ax)
           n == Len(got)
<1>1. /\ pc = "next" /\ UNCHANGED <<disk, prog, left, sector, mem, win, got>>
  BY DEF NextCluster, search
<1>2. /\ got # <<>> /\ ax = got[n] /\ v = disk.fat[got[n]] /\ v \in Used \cup Marks
  BY <1>1, NextDecoded
<1>3. /\ TypeOK /\ prog \in Progs /\ n \in Nat /\ n >= 1
      /\ bx \in 0 .. SegHalves - 1
  BY <1>2 DEF IInv, TypeOK
<1>4. EntriesOf(prog)' = EntriesOf(prog) /\ First(prog)' = First(prog)
      /\ Used' = Used /\ DiskInv'
  BY <1>1, DiskKept DEF IInv
<1>5. prog' = "loader" => HoldsFile("boot")'
  BY <1>1, BootKept
<1>6. n <= Cap(prog) => bx = Place(prog, n) /\ InPlace(prog, got, n)
  BY <1>1 DEF IInv, MemInv
<1>7. InPlace(prog, got, n) => InPlace(prog, got, n)'
  BY <1>1 DEF InPlace
<1>8. CASE v = EndOfChain
  <2>1. pc' = "loaded" /\ ax' = ax /\ bx' = bx
    BY <1>8 DEF NextCluster
  <2>2. TypeOK' /\ SearchInv'
    BY <1>1, <1>3, <2>1 DEF TypeOK, SearchInv
  <2>3. GotInv'
    BY <1>1, <1>4, <2>1 DEF IInv, GotInv
  <2>4. NextInv'
    BY <1>1, <1>2, <1>8, <2>1 DEF NextInv
  <2>5. MemInv'
    BY <1>1, <1>5, <1>6, <1>7, <2>1 DEF MemInv
  <2> QED
    BY <1>4, <2>2, <2>3, <2>4, <2>5 DEF IInv
<1>9. CASE v # EndOfChain
  <2>1. pc' = "readdata" /\ ax' = v /\ bx' = (bx + 2) % SegHalves
    BY <1>9 DEF NextCluster
  <2>2. TypeOK'
    <3>1. v \in 0 .. EndOfChain
      <4> HIDE DEF v
      <4> QED
        BY <1>2, ClusterRange, Radix DEF IInv, DiskInv, Marks
    <3>2. bx' \in 0 .. SegHalves - 1
      BY <1>3, <2>1, Positive
    <3> QED
      BY <1>1, <1>3, <2>1, <3>1, <3>2 DEF TypeOK, Reads
  <2>3. GotInv' /\ SearchInv'
    BY <1>1, <1>4, <2>1 DEF IInv, GotInv, SearchInv
  <2>4. NextInv'
    BY <1>1, <1>2, <1>4, <2>1 DEF NextInv, Marks
  <2>5. ASSUME n < Cap(prog)
        PROVE  bx' = Place(prog, n + 1) /\ InPlace(prog, got, n)'
    <3>1. /\ n \in 1 .. Cap(prog) /\ n + 1 \in 1 .. Cap(prog)
      BY <1>3, <2>5, Room
    <3>2. /\ bx = Offset[prog] + 2 * (n - 1)
          /\ Place(prog, n + 1) = Offset[prog] + 2 * ((n + 1) - 1)
          /\ Place(prog, n + 1) \in 0 .. SegHalves - 2
      BY <1>3, <1>6, <3>1, Room
    <3>3. bx + 2 = Place(prog, n + 1) /\ bx + 2 \in 0 .. SegHalves - 1
      BY <1>3, <3>2, OffsetRange, Positive
    <3>4. (bx + 2) % SegHalves = bx + 2
      BY <3>3, Positive
    <3> QED
      BY <1>3, <1>6, <1>7, <2>1, <2>5, <3>1, <3>3, <3>4
  <2>6. MemInv'
    <3>1. Place(prog', Len(got') + 1) = Place(prog, n + 1) /\ Cap(prog') = Cap(prog)
          /\ Len(got') = n
      BY <1>1
    <3> QED
      BY <1>1, <1>5, <2>1, <2>5, <3>1 DEF MemInv
  <2> QED
    BY <1>4, <2>2, <2>3, <2>4, <2>6 DEF IInv
<1> QED
  BY <1>8, <1>9

-----------------------------------------------------------------------------
\* A program that has come to its end with a file that fits has it in memory.
LEMMA LoadedHolds == ASSUME IInv, pc = "loaded" PROVE HoldsFile(prog)
<1> SUFFICES ASSUME Fits(prog), NEW m \in 0 .. SegHalves \div 2 - 1,
                    \A k \in 0 .. m : ChainOf(prog)[k] \in Clusters,
                    NEW h \in {0, 1}
             PROVE  mem[prog][Offset[prog] + 2 * m + h]
                      = <<SectorOf(ChainOf(prog)[m]), h>>
  BY DEF HoldsFile
<1> DEFINE n == Len(got)
           c == ChainOf(prog)
<1>1. /\ TypeOK /\ prog \in Progs /\ n \in Nat /\ n >= 1 /\ m \in Nat
      /\ disk.fat[got[n]] = EndOfChain /\ got[1] = First(prog)
      /\ EntriesOf(prog) # {} /\ \A i \in 1 .. n : got[i] \in Clusters
  BY Positive DEF IInv, TypeOK, NextInv, GotInv, DiskInv
<1>2. c[0] = First(prog) /\ \A i \in Nat : c[i + 1] = Entry(c[i])
  BY <1>1, ChainEquation
<1>3. EndOfChain \notin Clusters
  BY ClusterRange, Radix
<1> HIDE DEF n, c
<1>4. \A k \in 0 .. n - 1 : c[k] = got[k + 1]
  <2> DEFINE T == {k \in Nat : k <= n - 1 => c[k] = got[k + 1]}
  <2>1. 0 \in T
    BY <1>1, <1>2
  <2>2. ASSUME NEW k \in T PROVE k + 1 \in T
    <3> SUFFICES ASSUME k + 1 <= n - 1 PROVE c[k + 1] = got[(k + 1) + 1]
      BY <2>2
    <3>1. k \in Nat /\ k + 1 \in 1 .. n - 1 /\ k + 1 \in 1 .. n /\ c[k] = got[k + 1]
      BY <1>1, <2>2
    <3>2. got[(k + 1) + 1] = disk.fat[got[k + 1]]
      BY <3>1 DEF IInv, GotInv, n
    <3>3. c[k + 1] = disk.fat[got[k + 1]]
      BY <1>1, <1>2, <3>1 DEF Entry
    <3> QED
      BY <3>2, <3>3
  <2> HIDE DEF T
  <2>3. T \in SUBSET Nat
    BY DEF T
  <2>4. T = Nat
    BY <2>1, <2>2, <2>3, Induct
  <2> QED
    BY <1>1, <2>4 DEF T
<1>5. c[n] = EndOfChain
  <2>1. n - 1 \in Nat /\ (n - 1) + 1 = n /\ n - 1 \in 0 .. n - 1
    BY <1>1
  <2>2. c[n - 1] = got[n] /\ got[n] \in Clusters /\ c[n] = Entry(c[n - 1])
    BY <1>1, <1>2, <1>4, <2>1
  <2> QED
    BY <1>1, <2>2 DEF Entry
<1>6. m \in 0 .. n - 1
  <2>1. CASE n <= m
    BY <1>1, <1>3, <1>5, <2>1 DEF c
  <2> QED
    BY <1>1, <2>1
<1>7. n <= Cap(prog)
  <2>1. PICK j \in 1 .. Cap(prog) : c[j] = EndOfChain
    BY DEF Fits, Cap, c
  <2>2. CASE j < n
    <3>1. j \in 0 .. n - 1 /\ j + 1 \in 1 .. n
      BY <1>1, <2>1, <2>2, Room
    <3> QED
      BY <1>1, <1>3, <1>4, <2>1, <3>1
  <2> QED
    BY <1>1, <2>1, <2>2, Room
<1>8. InPlace(prog, got, n)
  BY <1>7 DEF IInv, MemInv, n
<1>9. mem[prog][Place(prog, m + 1) + h] = <<SectorOf(got[m + 1]), h>>
  <2>1. m + 1 \in 1 .. n
    BY <1>1, <1>6
  <2> QED
    BY <1>8, <2>1 DEF InPlace
<1>10. Place(prog, m + 1) = Offset[prog] + 2 * m
  BY <1>1, OffsetRange DEF Place
<1> QED
  BY <1>4, <1>6, <1>9, <1>10 DEF c

LEMMA StartLoaderStep == IInv /\ StartLoader => IInv'
<1> SUFFICES ASSUME IInv, StartLoader PROVE IInv'
  OBVIOUS
<1>1. /\ pc = "loaded" /\ prog = "boot" /\ prog' = "loader" /\ pc' = "search"
      /\ left' = RootDirSectors /\ sector' = SectorNoOfRootDirectory
      /\ got' = <<>> /\ win' = [i \in {0, 1} |-> Rubbish]
      /\ UNCHANGED <<disk, ax, bx, mem>>
  BY DEF StartLoader
<1>2. TypeOK
  BY DEF IInv
<1>3. TypeOK'
  <2>1. win' \in [{0, 1} -> {Rubbish} \cup 0 .. TotSec - 1]
    BY <1>1
  <2>2. got' \in Seq(Clusters) /\ prog' \in Progs
    BY <1>1 DEF Progs
  <2>3. left' \in 0 .. RootDirSectors
        /\ sector' \in SectorNoOfRootDirectory
                         .. SectorNoOfRootDirectory + RootDirSectors
    BY <1>1, Positive, Sectors
  <2> QED
    BY <1>1, <1>2, <2>1, <2>2, <2>3 DEF TypeOK
<1>4. DiskInv'
  BY <1>1, DiskKept DEF IInv
<1>5. SearchInv'
  <2>1. Behind' = 0 /\ 0 * EntriesPerSector = 0
    BY <1>1, Sectors, Positive DEF Behind
  <2>2. \A e \in EntriesOf(prog)' : 0 <= e
    BY DEF EntriesOf, Places
  <2> QED
    BY <1>1, <2>1, <2>2, Positive DEF SearchInv
<1>6. GotInv' /\ NextInv'
  BY <1>1 DEF GotInv, NextInv
<1>7. HoldsFile("boot")'
  <2>1. HoldsFile("boot")
    BY <1>1, LoadedHolds
  <2>2. ChainOf("boot")' = ChainOf("boot") /\ Fits("boot")' = Fits("boot")
    BY <1>1, ChainKept DEF Progs
  <2> QED
    BY <1>1, <2>1, <2>2 DEF HoldsFile
<1>8. MemInv'
  BY <1>1, <1>7 DEF MemInv
<1> QED
  BY <1>3, <1>4, <1>5, <1>6, <1>8 DEF IInv

\* A failed read spoils at most the place of the cluster that is read.
LEMMA ReadFailsStep == IInv /\ ReadFails => IInv'
<1> SUFFICES ASSUME IInv, ReadFails PROVE IInv'
  OBVIOUS
<1>1. /\ pc \in Reads /\ UNCHANGED <<disk, prog, pc, left, sector, ax, bx, got>>
  BY DEF ReadFails, search
<1>2. /\ TypeOK /\ prog \in Progs /\ Len(got) \in Nat
  BY DEF IInv, TypeOK
<1>3. EntriesOf(prog)' = EntriesOf(prog) /\ First(prog)' = First(prog)
      /\ Used' = Used /\ DiskInv'
  BY <1>1, DiskKept DEF IInv
<1>4. CASE pc = "readfat"
  <2>1. win' = [i \in {0, 1} |-> Rubbish] /\ mem' = mem
    BY <1>4 DEF ReadFails
  <2>2. TypeOK'
    <3>1. win' \in [{0, 1} -> {Rubbish} \cup 0 .. TotSec - 1]
      BY <2>1
    <3> QED
      BY <1>1, <1>2, <2>1, <3>1 DEF TypeOK
  <2>3. prog' = "loader" => HoldsFile("boot")'
    BY <1>1, <2>1, BootKept
  <2>4. SearchInv' /\ GotInv' /\ NextInv'
    BY <1>1, <1>3, <1>4 DEF IInv, SearchInv, GotInv, NextInv
  <2>5. MemInv'
    BY <1>1, <1>4, <2>1, <2>3 DEF IInv, MemInv, InPlace
  <2> QED
    BY <1>3, <2>2, <2>4, <2>5 DEF IInv
<1>5. CASE pc # "readfat"
  <2>1. win' = win /\ mem' = IF InSegment(bx) THEN Filled(Rubbish) ELSE mem
    BY <1>5 DEF ReadFails
  <2>2. /\ mem' \in [Progs -> [0 .. SegHalves - 1 -> Halves]]
        /\ \A i \in 0 .. SegHalves - 1 :
             i # bx /\ i # bx + 1 => mem'[prog][i] = mem[prog][i]
        /\ \A p \in Progs : p # prog => mem'[p] = mem[p]
    <3>1. CASE InSegment(bx)
      BY <1>2, <2>1, <3>1, FilledAt
    <3>2. CASE ~ InSegment(bx)
      BY <1>2, <2>1, <3>2 DEF TypeOK
    <3> QED
      BY <3>1, <3>2
  <2>3. TypeOK'
    BY <1>1, <1>2, <2>1, <2>2 DEF TypeOK
  <2>4. prog' = "loader" => HoldsFile("boot")'
    BY <1>1, <2>2, BootKept DEF Progs
  <2>5. SearchInv'
    <3>1. Behind' = Behind /\ pc # "scan"
      BY <1>1 DEF Behind, Reads
    <3> QED
      BY <1>1, <1>3, <3>1 DEF IInv, SearchInv
  <2>6. GotInv'
    BY <1>1, <1>3 DEF IInv, GotInv
  <2>7. NextInv'
    BY <1>1, <1>3, <1>5 DEF IInv, NextInv, Reads
  <2>8. ASSUME pc = "readdata", Len(got) < Cap(prog)
        PROVE  bx = Place(prog, Len(got) + 1) /\ InPlace(prog, got, Len(got))'
    <3> DEFINE n == Len(got)
    <3>1. bx = Place(prog, n + 1) /\ InPlace(prog, got, n)
      BY <2>8 DEF IInv, MemInv
    <3> HIDE DEF n
    <3>2. ASSUME NEW i \in 1 .. n, NEW h \in {0, 1}
          PROVE  mem'[prog][Place(prog, i) + h] = <<SectorOf(got[i]), h>>
      <4>1. n \in Nat /\ i \in 1 .. Cap(prog) /\ n + 1 \in 1 .. Cap(prog)
        BY <1>2, <2>8, Room DEF n
      <4>2. Place(prog, i) + h \in 0 .. SegHalves - 1
            /\ Place(prog, i) + h # bx /\ Place(prog, i) + h # bx + 1
        <5>1. /\ Place(prog, i) \in 0 .. SegHalves - 2
              /\ Place(prog, i) = Offset[prog] + 2 * (i - 1)
              /\ bx = Offset[prog] + 2 * ((n + 1) - 1)
          BY <1>2, <3>1, <4>1, Room
        <5> QED
          BY <1>2, <4>1, <5>1, OffsetRange, Positive
      <4>3. mem[prog][Place(prog, i) + h] = <<SectorOf(got[i]), h>>
        BY <3>1 DEF InPlace
      <4> QED
        BY <2>2, <4>2, <4>3
    <3> QED
      BY <1>1, <3>1, <3>2 DEF InPlace, Place, n
  <2>9. MemInv'
    BY <1>1, <1>5, <2>4, <2>8 DEF MemInv, Reads
  <2> QED
    BY <1>3, <2>3, <2>5, <2>6, <2>7, <2>9 DEF IInv
<1> QED
  BY <1>4, <1>5

-----------------------------------------------------------------------------
\* Every step preserves the invariant.
LEMMA StepInv == IInv /\ [Next]_vars => IInv'
<1>1. IInv /\ Step => IInv'
  BY SearchStep, ReadDirStep, ScanStep, ReadDataStep, ReadFatStep,
     NextClusterStep, StartLoaderStep DEF Step
<1>2. IInv /\ UNCHANGED vars => IInv'
  <2> SUFFICES ASSUME IInv, UNCHANGED vars PROVE IInv'
    OBVIOUS
  <2>1. UNCHANGED <<disk, prog, pc, left, sector, ax, bx, mem, win, got>>
    BY DEF vars
  <2>2. EntriesOf(prog)' = EntriesOf(prog) /\ First(prog)' = First(prog)
        /\ Used' = Used /\ DiskInv'
    BY <2>1, DiskKept DEF IInv
  <2>3. prog' = "loader" => HoldsFile("boot")'
    BY <2>1, BootKept
  <2>4. TypeOK' /\ SearchInv' /\ GotInv'
    BY <2>1, <2>2 DEF IInv, TypeOK, SearchInv, GotInv, Behind
  <2>5. NextInv'
    BY <2>1, <2>2 DEF IInv, NextInv, FatSector
  <2>6. MemInv'
    BY <2>1, <2>3 DEF IInv, MemInv, InPlace
  <2> QED
    BY <2>2, <2>4, <2>5, <2>6 DEF IInv
<1>3. IInv /\ Rests => IInv'
  BY <1>2 DEF Rests
<1> QED
  BY <1>1, <1>2, <1>3, ReadFailsStep DEF Next

LEMMA Invariant == Spec => []IInv
  BY InitInv, StepInv, PTL DEF Spec

\* Every variable stays in its range: the 16 bit load offset, the sector numbers
\* handed to the BIOS, and the clusters taken from the table (boot.asm 48-275).
THEOREM TypeCorrect == Spec => []TypeOK
<1>1. IInv => TypeOK
  BY DEF IInv
<1> QED
  BY <1>1, Invariant, PTL

\* A file that fits is in memory whole and in order when its program is done,
\* on every sound diskette and whatever reads fail (boot.asm 103-140, loader.asm
\* 121-162).
THEOREM FileInMemory == Spec => []MemoryHoldsFile
<1>1. IInv => MemoryHoldsFile
  <2>1. ASSUME IInv, NEW p \in Progs, Loaded(p) PROVE HoldsFile(p)
    <3>1. CASE prog = p /\ pc = "loaded"
      BY <2>1, <3>1, LoadedHolds
    <3>2. CASE p = "boot" /\ prog = "loader"
      BY <2>1, <3>2 DEF IInv, MemInv
    <3> QED
      BY <2>1, <3>1, <3>2 DEF Loaded
  <2> QED
    BY <2>1 DEF MemoryHoldsFile, HoldsFile
<1> QED
  BY <1>1, Invariant, PTL

-----------------------------------------------------------------------------
\* The abstract specification sees the same entries and the same clusters.
LEMMA Seen ==
  /\ \A p : Abstract!Named(Wanted[p]) = EntriesOf(p)
  /\ \A p : Abstract!FirstCluster(Wanted[p]) = First(p)
  /\ Abstract!Following
       = IF got = <<>> THEN First(prog) ELSE disk.fat[got[Len(got)]]
<1>1. ASSUME NEW p PROVE Abstract!Named(Wanted[p]) = EntriesOf(p)
  BY DEF Abstract!Named, EntriesOf
<1>2. ASSUME NEW p PROVE Abstract!FirstCluster(Wanted[p]) = First(p)
  <2> DEFINE Least(S) == CHOOSE e \in S : \A f \in S : e <= f
  <2>1. Abstract!FirstCluster(Wanted[p])
          = disk.dir[Least(Abstract!Named(Wanted[p]))].cluster
    BY DEF Abstract!FirstCluster
  <2>2. First(p) = disk.dir[Least(EntriesOf(p))].cluster
    BY DEF First, FirstEntry
  <2> HIDE DEF Least
  <2> QED
    BY <1>1, <2>1, <2>2
<1> QED
  BY <1>1, <1>2 DEF Abstract!Following

\* The stage of a load, as the refinement has it.
Stage == CASE pc \in {"search", "readdir", "scan"} -> "searching"
           [] pc \in {"readdata", "readfat", "next"} -> "loading"
           [] OTHER -> pc

LEMMA Stages ==
  /\ pc \in {"search", "readdir", "scan"} => Stage = "searching"
  /\ pc \in {"readdata", "readfat", "next"} => Stage = "loading"
  /\ pc \in {"loaded", "absent"} => Stage = pc
  BY DEF Stage

LEMMA StagesNext ==
  /\ pc' \in {"search", "readdir", "scan"} => Stage' = "searching"
  /\ pc' \in {"readdata", "readfat", "next"} => Stage' = "loading"
  /\ pc' \in {"loaded", "absent"} => Stage' = pc'
  BY DEF Stage

LEMMA InitPromise == Init => Abstract!Init
<1> SUFFICES ASSUME Init PROVE Abstract!Init
  OBVIOUS
<1>1. disk \in Abstract!Diskettes
  BY BootAssumption DEF Init, Diskettes, Abstract!Diskettes
<1> QED
  BY <1>1, Stages DEF Init, Abstract!Init, Stage, Wanted

\* The steps the promise speaks of.
LEMMA FindPromise == IInv /\ Scan => Abstract!Find \/ UNCHANGED Abstract!vars
<1> SUFFICES ASSUME IInv, Scan PROVE Abstract!Find \/ UNCHANGED Abstract!vars
  OBVIOUS
<1>1. /\ pc = "scan" /\ UNCHANGED <<disk, prog, got>> /\ Stage = "searching"
  BY Stages DEF Scan
<1>2. CASE Matches = {}
  <2>1. pc' = "search" /\ Stage' = "searching"
    BY <1>2, StagesNext DEF Scan
  <2> QED
    BY <1>1, <2>1 DEF Abstract!vars, Stage
<1>3. CASE Matches # {}
  <2>1. pc' = "readdata" /\ Stage' = "loading"
    BY <1>3, StagesNext DEF Scan
  <2>2. Abstract!Named(Wanted[prog]) # {}
    BY <1>3, Seen DEF Matches, EntriesOf
  <2> QED
    BY <1>1, <2>1, <2>2 DEF Abstract!Find, Stage
<1> QED
  BY <1>2, <1>3

LEMMA MissPromise == IInv /\ Search => Abstract!Miss \/ UNCHANGED Abstract!vars
<1> SUFFICES ASSUME IInv, Search PROVE Abstract!Miss \/ UNCHANGED Abstract!vars
  OBVIOUS
<1>1. /\ pc = "search" /\ UNCHANGED <<disk, prog, got>> /\ Stage = "searching"
  BY Stages DEF Search
<1>2. CASE left = 0
  <2>1. pc' = "absent" /\ Stage' = "absent"
    BY <1>2, StagesNext DEF Search
  <2>2. EntriesOf(prog) = {}
    <3>1. Behind = RootDirSectors
      BY <1>1, <1>2, Sectors, Positive DEF IInv, SearchInv, TypeOK, Behind
    <3>2. \A e \in EntriesOf(prog) : RootDirSectors * EntriesPerSector <= e
      BY <1>1, <3>1 DEF IInv, SearchInv
    <3>3. \A e \in EntriesOf(prog) : e \in 0 .. RootDirSectors * EntriesPerSector - 1
      BY DEF EntriesOf, Places
    <3>4. RootDirSectors * EntriesPerSector \in Nat
      BY Positive
    <3> QED
      BY <3>2, <3>3, <3>4
  <2> QED
    BY <1>1, <2>1, <2>2, Seen DEF Abstract!Miss, Stage
<1>3. CASE left # 0
  <2>1. pc' = "readdir" /\ Stage' = "searching"
    BY <1>3, StagesNext DEF Search
  <2> QED
    BY <1>1, <2>1 DEF Abstract!vars, Stage
<1> QED
  BY <1>2, <1>3

LEMMA ReadOnePromise == IInv /\ ReadData => Abstract!ReadOne
<1> SUFFICES ASSUME IInv, ReadData PROVE Abstract!ReadOne
  OBVIOUS
<1>1. /\ pc = "readdata" /\ pc' = "readfat" /\ UNCHANGED <<disk, prog>>
      /\ Readable(SectorOf(ax), 1)
      /\ ax \in Used \cup Marks /\ ax = Abstract!Following
  BY Seen DEF ReadData, IInv, NextInv
<1>2. ax \in Clusters /\ got' = Append(got, ax)
  BY <1>1, ReadableCluster DEF ReadData
<1>3. Stage = "loading" /\ Stage' = "loading"
  BY <1>1, Stages, StagesNext
<1> QED
  BY <1>1, <1>2, <1>3 DEF Abstract!ReadOne, Stage

LEMMA FinishPromise ==
  IInv /\ NextCluster => Abstract!Finish \/ UNCHANGED Abstract!vars
<1> SUFFICES ASSUME IInv, NextCluster
             PROVE  Abstract!Finish \/ UNCHANGED Abstract!vars
  OBVIOUS
<1>1. /\ pc = "next" /\ UNCHANGED <<disk, prog, got>> /\ Stage = "loading"
  BY Stages DEF NextCluster
<1>2. got # <<>> /\ GetFATEntry(ax) = Abstract!Following
  BY <1>1, NextDecoded, Seen
<1>3. CASE GetFATEntry(ax) = EndOfChain
  <2>1. pc' = "loaded" /\ Stage' = "loaded"
    BY <1>3, StagesNext DEF NextCluster
  <2> QED
    BY <1>1, <1>2, <1>3, <2>1 DEF Abstract!Finish, Stage
<1>4. CASE GetFATEntry(ax) # EndOfChain
  <2>1. pc' = "readdata" /\ Stage' = "loading"
    BY <1>4, StagesNext DEF NextCluster
  <2> QED
    BY <1>1, <2>1 DEF Abstract!vars, Stage
<1> QED
  BY <1>3, <1>4

LEMMA HandOverPromise == StartLoader => Abstract!HandOver
<1> SUFFICES ASSUME StartLoader PROVE Abstract!HandOver
  OBVIOUS
<1>1. /\ pc = "loaded" /\ prog = "boot" /\ prog' = "loader" /\ pc' = "search"
      /\ got' = <<>> /\ disk' = disk
  BY DEF StartLoader
<1>2. Stage = "loaded" /\ Stage' = "searching"
  BY <1>1, Stages, StagesNext
<1> QED
  BY <1>1, <1>2 DEF Abstract!HandOver, Stage, Wanted

\* Every step is a step of the promise, or one it does not see.
LEMMA StepPromise == IInv /\ [Next]_vars => [Abstract!Next]_(Abstract!vars)
<1> SUFFICES ASSUME IInv, [Next]_vars
             PROVE  Abstract!Next \/ UNCHANGED Abstract!vars
  OBVIOUS
<1>1. ASSUME UNCHANGED <<disk, prog, got>>, Stage' = Stage
      PROVE  UNCHANGED Abstract!vars
  BY <1>1 DEF Abstract!vars, Stage
<1>2. CASE ReadDir
  <2>1. Stage' = Stage
    BY <1>2, Stages, StagesNext DEF ReadDir
  <2> QED
    BY <1>1, <1>2, <2>1 DEF ReadDir
<1>3. CASE ReadFat
  <2>1. Stage' = Stage
    BY <1>3, Stages, StagesNext DEF ReadFat
  <2> QED
    BY <1>1, <1>3, <2>1 DEF ReadFat
<1>4. CASE ReadFails
  <2>1. Stage' = Stage
    BY <1>4 DEF ReadFails, Stage
  <2> QED
    BY <1>1, <1>4, <2>1 DEF ReadFails
<1>5. CASE Rests \/ UNCHANGED vars
  <2>1. UNCHANGED <<disk, prog, pc, got>>
    BY <1>5 DEF Rests, vars
  <2>2. Stage' = Stage
    BY <2>1 DEF Stage
  <2> QED
    BY <1>1, <2>1, <2>2
<1>6. CASE Search \/ Scan \/ ReadData \/ NextCluster \/ StartLoader
  BY <1>6, FindPromise, MissPromise, ReadOnePromise, FinishPromise, HandOverPromise
     DEF Abstract!Next
<1> QED
  BY <1>2, <1>3, <1>4, <1>5, <1>6 DEF Next, Step

\* The boot chain implements FileLoad: through sectors, tracks, bytes shared by
\* two table entries and failing reads, the clusters it reads are those of the
\* chain, and only a name that is nowhere in the directory is reported missing
\* (boot.asm 48-140, loader.asm 69-162).
THEOREM BootImplements == Spec => LoadsAsPromised
  BY InitPromise, StepPromise, Invariant, PTL
     DEF Spec, LoadsAsPromised, Abstract!Spec

=============================================================================

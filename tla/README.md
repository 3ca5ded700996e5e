# Verification of the programs in this repository

The repository (zealdoc) is a collection: notes, editor configuration, and a
number of C and assembly programs of its own. Those with behaviour worth
checking are a multi-process **pipe benchmark** (`opensource/context.c`), the
**TINIX** kernel with its boot sector and loader (`opensource/os`), a **cache
benchmark** (`opensource/zealcode/misc/bench`) with its **register access to
switch chips** (`bench/vtss`), a **TEA file cipher** (`crypto/impl`), a **uevent
listener** (`Documentation/kernel/udev`) and some **small algorithms**
(`opensource/zealcode`, `opensource/pretty.idea`). They share no state and, the
cache benchmark and its switch driver apart, do not call one another; each is a
system by itself.

This directory holds TLA+ modules of all of these, the TLC configurations that
check them, and TLAPS proofs about the pipe benchmark (the pair, and the whole
with any number of pairs), the kernel, the boot chain, the cache benchmark with its
switch access, the TEA cipher and the uevent listener. Paths are relative to `src/`.

## 1. Inventory

| component | state it keeps | operations | hard behaviour | correct when |
|---|---|---|---|---|
| pipe benchmark, pair: `pipe_loop`, `report`, `wake_me` (context.c 121-173, 268-375) | pipes `p1`, `p2` and who holds which end, `iter`/`check` of the master, `iter1`/`check` of the slave, the alarm clock, the log file | set up pipes, fork, arm the timer, write/read/check/count on both sides, the SIGALRM handler | the handler interrupts the master anywhere and never returns; either process may die; a slave ends only by end of file | no synchronisation error; one word under way; the log is what the slave answered; both processes end |
| pipe benchmark, main: `main`, `wait_child`, `calculate` (221-266, 377-488) | children, `.pidlog` files of the directory, `iter` (the total) | fork loop, wait loop, scan/add/delete, print | fork fails half way, logs unreadable or half written, main killed with pairs alive, a later run in the same directory | the number printed is the sum of the logs, none missing, none twice, none lost |
| TINIX kernel: `kernel.asm`, `start.c`, `protect.c`, `i8259.c`, `kliba.asm`, `klibc.c` | GDT/IDT and their registers, two 8259A, keyboard controller, stack, interrupt flag, `disp_pos` | `_start`/`cstart`, programming the 8259A, gates, keyboard and other interrupts, exceptions | interrupts and faults at any instruction, spurious interrupts, edge-triggered requests, stack frames with and without error code | every interrupt that can come has its handler; frames match; requests are acknowledged; keys keep being served; the text position never faults |
| TINIX boot: `boot.asm`, `loader.asm` | sector and entry counters, FAT12 chain, load address, memory map buffer | search the root directory, follow the chain, read with retry, E820, paging, ELF copy | read errors retried for ever, end marks, 64 KB wrap, bounded buffers | the file found is loaded whole and in order, or its absence reported |
| cache benchmark: `main.c`, `time.c` | options, `g_do_loop`, `g_times`, the buffer, the alarm, the timed child, stdout's buffer | read the options, duration loop, times loop, fork and time a child, report | the alarm before the loop; a child that copies unwritten output, is killed, or cannot be waited for; the carry between two clock readings | reads stay in the buffer; rounds and time reported are those that were; no line twice; the program ends |
| switch register access: `vtss_regop.c`, `vtss_sparx_reg.h`, `vtss.h`, `vtss_state.h` | the driver's descriptor | open, close, check block and sub block, read a register, read a frame, build a frame header | nine chips in one header under nested `#if`; results not written; the border between two words | an access reaches the register it names or is refused; fields of a header do not overlap |
| TEA cipher: `tea_test.c`, `tea.c`, `zclib.c` | two files, the key, the block | open, encrypt/decrypt blocks, padding | short reads, write errors, the file that is read being the one that is written, sense of the result | decryption inverts encryption; the whole file is processed |
| uevent listener | one socket, one static message buffer | bind, receive, parse, print | receive errors, malformed, cut and overlong messages, what earlier ones left in the buffer | what is printed is the last message |
| small algorithms: `count_bit.c`, `tom_duff.c`, `strlen.c`, `rot13.c`, `daffodil.c`, `align_test.c`, `endian.c`, `byte_order/`, conversions of `time.c`, `getwebcode.c` | none | pure functions | boundaries: 0, full width, unaligned, end of a text | equal to their obvious definition |

In the pipe benchmark, processes interact through two pipes, `fork`/`wait`,
SIGALRM, and files named by pid. In the kernel, code interacts with the processor
(gates, stack frames, interrupt flag) and with devices through ports. The cache
benchmark interacts with SIGALRM, with its child through `fork`, `wait3` and a
copied stdio buffer, and with a switch through the driver. The TEA program and
the listener interact with the system alone, which may fail any call.

### Not modelled, and why
* The copy of `context.c` under `zealcode/misc` is identical.
* `crypto/capi.c`: a straight sequence of kernel crypto calls, no state of its own.
* `vtss_state.h` beyond the sizes of the chips: state of code that is not in the
  repository. `lib/zc_sysdep.h`: names of the system's functions; what the TEA
  program uses of it is in `TeaFile`.
* `foo` of `uevent_listen.c` (43-73) is called by nobody; `rdname.c` reads a name
  and prints it; the bit-field test of `endian.c` shows what the compiler does.
* `b.y`, `leak_hole`, shell wrappers, editor plugins, rc files, notes, pages.
* The loader after the load: memory map, paging, copy of the ELF segments. The options, usage and DEBUG build of `context.c`.

## 2. Modules

| module | what it is | code |
|---|---|---|
| `PairLife` | what a pair promises its parent (abstract) | context.c 121-173, 268-375 |
| `PipePair` | the pair in detail | the same |
| `PipePair_proof` | inductive invariant, refinement, deadlock freedom, the end after an alarm | |
| `ContextBench` | main over a set of pairs, runs one after the other | context.c 221-266, 377-488 |
| `PairInBench` | the same with one pair put in as `PipePair` has it | |
| `ContextBench_proof` | inductive invariant of the whole, composition of the two levels | |
| `Kernel` | TINIX kernel with its processor and devices | opensource/os/kernel, lib |
| `Kernel_proof` | inductive invariant | |
| `FileLoad` | what the boot chain promises (abstract) | opensource/os/boot |
| `Fat12Boot` | boot sector and loader, reading files from a FAT12 diskette | boot.asm 48-275, loader.asm 69-318 |
| `Fat12Boot_proof` | inductive invariant, refinement of `FileLoad` | |
| `MCFat12Boot` | the small diskettes TLC boots from | |
| `CacheBench` | the cache benchmark, its child and its clock | bench/main.c, time.c |
| `MCCacheBench` | the option values TLC gives it | |
| `CacheBench_proof` | inductive invariants of the benchmark and of its switch access | |
| `RegisterMap` | the register tables: sets of rows, a function of the chip | vtss_sparx_reg.h |
| `Switch` | access to registers, frame headers | vtss_regop.c, vtss_sparx_reg.h 880-1000 |
| `MCSwitch` | the values TLC gives the fields of a header | |
| `TeaFile` | the TEA program and both directions of the cipher | tea_test.c, tea.c |
| `TeaFile_proof` | the cipher's algebra, inductive invariant of the runs | |
| `MCTeaFile` | the files TLC encrypts, exclusive or of small words | |
| `Uevent` | the uevent listener | uevent_listen.c |
| `Uevent_proof` | inductive invariant | |
| `Algorithms` | one call of each small program | zealcode, strlen.c, time.c |
| `NatLemmas` | division, least elements, induction and recursion on naturals, for the proofs | |

### PairLife
Four variables: the stage of the pair, its count, its slave and its log. The
count grows by one while the pair is `pinging`, freezes when the time is up, and
the log is written only after the slave is gone. It says nothing of pipes.

### PipePair
`mpc` and `spc` are program points; one action is one system call with the tests
on its result, in the order of the source. `fds` is the set of pipe ends each
process holds: `fork` copies the master's, `close` removes one, an exit or a
death removes all. A read blocks while some process holds the write end, a write
to a pipe nobody can read kills the writer (SIGPIPE; the program never changes
its action). `Alarm` may take the master from any point at which the clock is
armed into `report`; there is no way back, as in the code, where `report` ends
in `exit`. `Kill` is a signal from outside. `pongs` is a history variable, the
number of answers the slave has written.

`iter` and `iter1` are numbers modulo `W` (an `unsigned long`), the log is
printed modulo `P` (`%u`). `cost` takes the same way through log and total as
`iter` and is not modelled a second time; what is checked about it is that
`times` runs after the slave was reaped.

`KeepsPromise` is the refinement: `PipePair` implements `PairLife` under
`Stage`, `Peer`, `Logged`.

### ContextBench
Main over any number of pairs. A pair is what `PairLife` says of it, one component
of `stage`, `count`, `slave`, `logged` per pid; its actions (`PairActs`) are those
of `PairLife`, with what its log does to the directory added and nothing asked
beyond what the code asks: a master counts the answer of a slave that has died
since. `OwnPairsQuiet` is the property about the border between main and its
pairs: once the directory is opened, none of the run's own pairs touches a log.
Main's actions are the turns of its loops. The directory is a function from pid to the content of `context3<pid>.pidlog`.
A run may be killed and another started (`NewRun`); pairs of the earlier one go
on. `Scanned` is the `%u` conversion into an uninitialised `unsigned long`: any
upper half. Abstractions: pids are not reused, runs do not overlap, `unlink`
succeeds, the non-DEBUG build, `-p` not negative.

### PairInBench
Puts the two processes of `PipePair`, with their pipes, clock and signals, in the
place of the pair of any one pid `Me`: `DetailStep` is a step of one of them, and
`Shown` what main, the directory and the other pairs get to see of it. Everybody
else's steps are those of `ContextBench`. It is there for the theorem that
composes the two levels (`PairFits`), and is not the module of a run.

### Kernel
`pc` is where the processor stands, with the vector it is serving. `stack` holds
the words pushed above the kernel's own; `Enter` is what the processor does on
an interrupt or exception (all gates are interrupt gates), `Iretd` needs
eflags/cs/eip on top. The 8259A model is the one the code drives: ICW1 to ICW4
then masks, requests latched on an edge, priorities, EOI to the highest in
service, a spurious request on vector 7. `KeyArrives` fills port 60h and raises
IRQ 1; the next scan code comes only after the port was read. `disp_str` is
`disp_pos` arithmetic with the widths of `div bl` and `mul bl`; a text is the
list of its line lengths. Points between which neither an interrupt nor a fault
tells the difference are one action.

### FileLoad and Fat12Boot
boot.asm and loader.asm contain the same routines (search, chain, `ReadSector`,
`GetFATEntry`); `Fat12Boot` has each once and `prog` says which program runs,
with its own offset and file name. One action is one turn of the code between
two calls of `int 13h`. `ReadSector`'s conversion to cylinder, head and sector
is `Chs`; the BIOS computes back with `SectorAt`, so a wrong conversion reads a
wrong sector or none. A read within one track and one segment succeeds or fails
(`ReadFails`, the `jc` back to `int 13h`, buffer spoilt); others only fail.
The table is kept as FAT12 bytes: `FatByte` packs two entries of three digits
into three bytes, `GetFATEntry` takes one out of a window of two sectors. The
radix of a digit is the constant `Nib`, 16 in the code, so that a table of a few
bytes has entries that begin in the last byte of a sector.

`LoadsAsPromised` is the refinement of `FileLoad`: the clusters *delivered by
the BIOS* (`got`, a history variable) are those of the chain. `MemoryHoldsFile`
is about what is then in memory. Both directory sector and file go to the same
place, as in the code. `FormatAssumption` says the clusters fill the diskette and
the table has an entry for each. `DiskAssumption` is the one thing asked of the
diskettes themselves: the two files' chains do not lead to entries 0 and 1, which no
cluster has; they may end with any mark, run in circles or share clusters. Without
it the property is false: the code reads directory sectors as the file's (the chain
of an empty file, cluster 0, is such a one). Not modelled: screen output, `dwKernelSize` (written and
never read), and the loader after the load.

### CacheBench
`pc` is where main stands; a turn of `do_cache_read`'s endless loop is one
action, `Alarm` (the handler `report`) may come between any two. `opt` and
`times` are what getopt stored, with the defaults of main in `Begin`; the build
has no optimisation, so `g_do_loop` is read in every turn. `skew` is where malloc
put the block relative to a cache line, `at` the offsets the last step has read. The
options are any numbers `atoi` and `atoll` return, negative ones too, for nothing
checks them: the size in bytes is an `int` that wraps (`Bytes`), a negative stride
reads downwards until there is no more memory (`Mapped`; `Segfault`,
`ChildSegfault`), the counters are signed and wrap as in a build without
optimisation. Offsets themselves are not bounded: a `long` is taken to be wider than
an `int`. The times loop
runs in a child (`Fork`, `ChildRound`, `ChildExits`): `left` is its copy of
`g_times`, `buf` is what stdout holds unwritten, on a terminal nothing. The clock
is `gettimeofday` in seconds and microseconds, and does not run backwards during
a wait (`Later`). Left out: the figures `getrusage` gives, the text of the lines.

What the model shows besides its properties: an alarm between lines 148 and 118 is
lost (`AlarmLost`, an exception in `BenchEnds`); a negative `-t` makes the times loop
count down from it, through every value of a `long long` before it ends (`CountsDown`,
the other exception); a negative `-s` reads below the block, the one way out that
`InBuffer` leaves; the times loop reads the set
`g_times + 1` times (`RoundsCounted` says so); after a failed `wait3` (SIGCHLD
ignored) `elapsed` is summarized although nothing wrote it (`ElapsedRight`).

### RegisterMap and Switch
A chip is the set of preprocessor symbols of its build, and a register table a
function of it: a set of rows, each a name and an address, with the nested `#if` of
the header as the conditions of `When`; `Builds` are the nine chips the headers tell
apart. The access functions keep their names. `last` records the last access: what was
asked for, `rc`, whether the driver was asked (`asked`), the offset it got and what
became of `*value`. `Decoded` is the driver's view of the offset, `Owners` the
registers that live at an address. Words (an offset, the two halves of a header, the
value of a field) are sets of the bits that are 1; `Shifted` drops what leaves the 32
bits. `Values` gives the values a field of each width is given; `SwitchAssumption`
asks that they fit their field, as the macros' callers must see to, that the chips are
among `Builds`, and that ports are numbers. The definitions are called `SwitchInit`,
`SwitchNext`, `SwitchSpec` so that `CacheBench_proof` can extend both modules: the
switch access is part of the cache benchmark's program.

The code returns an uninitialised `rc` and leaves `*value` alone for all blocks
but CAPTURE and SYSTEM, the path of the others being under `#if 0` (vtss_regop.c
35-60): `vtss_io_pi_rd` chooses any `rc`. It refuses the sub blocks of ACL and
VAUI, which are greater than `S_MEMINIT`, although the comment at line 100 names
them. `vtss_vit_exit` does not close descriptor 0 and does not reset `vitfd`.
`vtss.h` sets the number of ports to 7 whatever the chip has. The address of
`ht_cpurx_readbuffer` is that of the SparX-28 for all chips: the assignment to `sub`
in line 148 overwrites what the `#if` for the two oldest chips made of `addr` (143-146),
although the header says that the sub block depends on chip and queue (803), and `addr`
is used on no chip. On the seven builds without the SparX-28's FIFOs queue 3 reads the
read pointer in the status sub block and queue 4 a sub block with nothing in it:
`Misread`, the exception `RightRegister` makes. Nobody in the repository calls the
function; the queues are taken to be 1 to 4.

### TeaFile
One block is `ReadBlock` and `WriteBlock`. The input may be `tmpfile` itself
(`inPlace`), which the code opens without O_TRUNC; `given` and `old` are what both
files held when the run began. A full disk takes `Parts` bytes of a block and
`write` says so to nobody. `tea_encrypt` and `tea_decrypt` are the code's rounds on
words of `Half` bytes, `EncryptRound` and `DecryptRound` a turn of their loops. The
exclusive or of two words is the constant `Exor`, of which the proofs use that it
gives a word; TLC computes it bit by bit (`MCExor`). The build in which `u32` is an `unsigned long` of 64 bits is
not modelled (there the sums differ and decryption fails). A read gives a
whole block up to the end of the file: a short read in the middle, which a regular file
gives only to a read cut off by a signal, and which would end the output there, is left
out. `NotStarted` includes
`zc_open` taking descriptor 0 for a failure.

### Uevent
`buffer` is the static buffer by offset; `envp` holds offsets. `Receive` is `recv`
with the cut at the buffer's size and the NUL after the last byte; what lies
behind it stays. `NextKey` is a turn of the loop that rebuilds `envp`.

### Algorithms
Each program is an operator in the shape of its loop; an input is chosen in
`Init`, one action calls the operator, `MatchesReference` compares with a plain
definition. Inputs left out because the program misbehaves on them: a copy of 0
bytes (`foo` and `foo3` count down from 0), a chunk of a page that fills `text`
(no NUL left). `summarize` has `%E` for all its conversions; a format ending in a
lone backslash makes it walk past the end, which the property states. So it does two
more limits: a page is printed as it came up to its first NUL only (what follows in that
piece is lost, and may be printed behind a later one), and `test_endianness` takes a big
endian machine for a little one where `unsigned long` has 8 bytes. `ntohl` of
`sequence.h` is defined as `htohl`, which does not exist; nobody calls it. `ptok`
loses up to a page where the product would overflow.

## 3. Runs

| run | what it asks | bounds |
|---|---|---|
| `pipe_pair` | all properties of the pair, with kills | `W=8`, `P=4`: wrap of both counters and of the printed word happens in a few rounds and they differ; `PipeCap=2`: room for a second word, so that `OneTurn` is not a matter of capacity |
| `pipe_pair_sigpipe` | does a write error end in exit code 4? (violated) | the same |
| `context_bench` | the total, over two runs and two pairs | two pids: both pairs in one run, one in each, or none for the second; `NProc=5` (odd: the division rounds); `W=4`, `P=2`: an upper half to lose |
| `context_bench_stale` | are the logs added those of the run's own processes? (violated) | the same |
| `kernel` | start-up, keys, spurious interrupts, faults within faults | lines 0 (master, masked) and 14 (slave, masked) besides the keyboard; exceptions without code (0), with code (13) and NMI (2); two keys queued; `DispCap`: a few lines of text after start-up; `StackCap`: a fault within a fault within a fault |
| `kernel_screen` | the text position over all 256 rows | no cap on the rows, so that the row number wraps |
| `fat12_boot` | is the right file loaded, whole, in spite of read errors? | 3451 diskettes: all pairs of disjoint chains over five clusters (loader up to 3, kernel up to 4), absent files, another end mark; entries odd, even, split between sectors and in the last sector of the table; `SegHalves=6`: a loader of 3 clusters runs into the segment's end, a kernel of 4 wraps |
| `cache_bench` | does the benchmark read where it may, count and time what it did, print once, and end? | module `MCCacheBench`: options -1, 0, 2, 6: negative, default, a stride that divides the size and one that does not, with `IntKb=3` also sizes that wrap to a negative number and to 0 bytes; `KB=4`, `Align=2`: blocks of 2, 6 and 10 bytes at both alignments; `Long=2`, `LongLong=8`: the counters wrap, a child told to read -1 times too; `Mapped=2`: a read below the block, and a crash; a clock of two microseconds a second, up to 3: carries happen |
| `switch` | does an access reach the register it names? do header fields keep apart? | module `MCSwitch`: all nine chips the headers know; every register and cell; ports 0, 6 and the CPU's: the ends of the range; one access, or two fields of a header (overlaps are pairwise), each with none, the lowest, the highest or all of its bits |
| `tea_file` | can what was written be undone, and is it the whole file? | bytes of 3 bits, words of two: 32 rounds wrap often; files that end nowhere, in a block, at its end, in the next; two runs, so that the second may take the first one's output |
| `uevent` | is what is printed the last message? | a buffer of 5, messages of up to 6 over three characters, `envp` of 3: cut messages, more keys than room, empty keys, a short message after a long one |
| `algorithms` | does every call return what its reference definition says? | words of 8 bits, longs of 4 bytes of 3 bits, copies up to 17 (three rounds of the device and each entry), numbers of up to 4 digits; pages with and without NULs; an `unsigned long` of 4 and of 8 bytes in `endian.c` |

`kernel` and `kernel_screen` do not check deadlock: the machine halts after an
exception, and the caps let it come to rest. The pair and the benchmark have an explicit
`Finished` action (`Rests` in the boot chain, the cache benchmark, the listener
and the algorithms), so that anything else without a successor is a deadlock.
`tea_file` does not check it: its runs are bounded, and after the last nothing
happens.

What the runs show, property by property, is in the comment above each
definition. The most telling:

* `LoggedRoundsAnswered`: the handler reads `iter` unprotected; the log is the
  number of answers or one less, never more.
* `PeerDeathSeen`, `PairEnds`: end of file reaches whoever waits, because of the
  four `close` calls; with one forgotten the handler's `wait` never returns.
* `TotalComplete`, `PrintedAtMostOnce`, `KeptUntilAdded`: a run prints all it
  could read, a log is in at most one printed total, and is on disk until some
  run added it. (A run killed between adding and printing does lose it.)
* `FrameComplete`: the handlers push a dummy error code for exactly the
  exceptions for which the processor pushes none.
* `NoDisplayFault`: nothing scrolls; the row wraps at 256 only because `mul bl`
  drops the ninth bit, and just before the division would fault.

* `LoadEnds`: a load ends if the file is absent or fits and ends with 0FFFh. The
  precondition is real: a file of another end mark, or a LOADER.BIN of more than
  127 sectors, makes the code repeat a read that cannot succeed; a KERNEL.BIN
  over 64 KB is loaded over its own beginning.

* `LinesOnce`: the child gets a copy of the unwritten lines and drops it, because it
  leaves by `_exit`.
* `RightRegister`: of all registers of all chips, only `MACRO_CTRL` and
  `SGMII_TR_DBG` (1009, 1035) share an address, as the header means them to; the one
  operation that asks for a wrong register is `ht_cpurx_readbuffer`, for queues 3 and 4
  of the chips without their FIFOs.
* `OwnPairsQuiet`: from `opendir` on the run's own pairs create and write no log, in
  spite of failed forks and dead slaves: `wait_child` waits for all of them.
* `WholeFile`: with no error the output is the whole input, also in place, followed
  by what a longer `tmpfile` held before; the program may report success after a
  short write or the failed write of a last, short block.
* `PrintedIsMessage`: nothing of an earlier, longer message is ever printed.

### Findings
1. `WriteErrorsCoded`: the table at context.c 29-41 gives write errors the exit
   code 4; the failing `write` raises SIGPIPE first.
2. `OwnLogsOnly`: context.c 253 says the files deleted are those of the
   spawned processes; the scan takes every `.pidlog`.

### Fairness
Weak fairness of the master's, the slave's and main's steps: the scheduler runs
every runnable process (each has at most one next instruction, so the
disjunction is enough). Weak fairness of `Alarm`: an armed clock expires. None
for `Kill` or failures. In `ContextBench` the steps that end a pair are fair
because `PairEnds` shows it of the pair. In `Kernel`: the processor runs and
takes the interrupts offered, the keyboard controller delivers what it has;
nobody has to press a key. `KeysServed` is about keys whose request the 8259A
has latched: a key that arrives before `init_8259A` loses its edge to ICW1 and,
the port being full, no other follows. The code does not empty the port.
In `Fat12Boot` reads are strongly fair: a drive that can read a sector succeeds
some day, with failures in between; the code has no other way out of a failure.
In `CacheBench`: main and the child are scheduled, an armed timer expires (that of a
negative duration, a large unsigned one, after many years); one
more option, or a kill, is nobody's promise.

## 4. Proofs

`PipePair_proof`, from `PairAssumption` alone (`W`, `P`, `PipeCap` positive,
`Duration` an integer, `MayKill` a Boolean), for every value of the constants:

* `TypeCorrect`, `SyncSafe`, `TurnSafe`, `LogSafe`, `ReapSafe`, `EofSafe`: the
  type invariant and five safety properties of the run.
* `PromiseKept`: `Spec => KeepsPromise`, the refinement.

The safety properties are not inductive: that the checks at lines 323 and 358
pass depends on what is in the pipes. The inductive invariant `IInv` adds

* `TurnInv`: exactly where the turn is (master, `p1`, slave, `p2`) and what the
  numbers in each place are: the word in `p1` is `iter`, the word in `p2` is
  `iter` and `iter1` is `iter` or its successor, `pongs` likewise;
* `FdInv`: which ends each process holds at each program point;
* `ReportInv`: what the handler has done at each of its points, and that a log
  exists only after the slave was reaped.

Each has one lemma per group of actions (`TurnStep`, `FdStep`, `ReportStep`,
`TypeStep`), put together in `StepInv`. The refinement uses `IInv` to show that
the steps the abstract pair cannot see are stutters and the others map to one
action.

`PairEnds` is liveness and stays with TLC, but what it needs of the code is proved:

* `NobodyStuck`: master and slave never both wait for ever. While one of them lives,
  one is at a step whose system call does not block (`NeverStuck`; the calls that block
  are listed in `MasterBlocked` and `SlaveBlocked`). Beside `IInv` it rests on
  `TurnHeld`: a master that waits for an answer has a question or an answer in a pipe,
  or a slave at work on it, or none left.
* `StopsSoonHolds`: once the alarm has come, or the master is gone, every step, kills
  included, leaves fewer than before, and never more than 14 (`StopsSoon`). `Left`
  counts them: at most seven of the handler, at most seven of the slave, which answers
  one question at most, as nobody writes another.

What is left to fairness is that a process that can go on does, and that the clock
expires. That the two blocked predicates are the negated ENABLED of the two processes is
read off the guards; the prover does not take ENABLED.

`ContextBench_proof`, from `BenchAssumption` of `ContextBench`, for any number of
pids, runs and processes:

* `TypeCorrect`, `TotalsComplete`, `NothingTwice`, `LogsKept`: the type invariant
  and the three promises about logs and totals.
* `DirectoryQuiet`: `OwnPairsQuiet`.
* `PairFits`: `DetailSpec => Spec` for the pair of any pid `Me`: with `PipePair`'s two
  processes in its place, whatever alarm, kills and pipes do, main, the directory and
  the other pairs show only behaviours of `ContextBench`, so that what is proved of it
  holds with that pair in detail. One pair at a time is replaced; all at once is not
  stated. The proof uses `PipePair`'s inductive invariant and its refinement
  (`PairMoves` names the action of `PairLife` each step is), and that the steps of the
  others leave the tie between the pair's variables and `ContextBench`'s alone. It is
  about safety: the fairness `ContextBench` asks of its pairs is argued from `PairEnds`.

`PrintedAtMostOnce` is not inductive: that no log is added twice needs that what a
run has added is off the disk unless the run was killed. `IInv` says which runs
can still print (`Live`), that a log one of them has added is gone or about to be
(`GoneInv`), that no two of them have the same log (`OnceInv`), that the book names
only ended pairs of runs begun (`BookInv`, `PairInv`), that main reads the directory
after it reaped its pairs (`MainInv`), and that the scan misses nothing (`ScanInv`).
`KeptUntilAdded` is used to show `ScanInv` when the directory is opened: a log of
this run that is not on disk would have been added, and nobody but this run could
have.

`CacheBench_proof`, from `BenchAssumption` of `CacheBench`: `TypeCorrect`,
`ReadsInBuffer`, `RoundsRight`, `NoLineTwice`, `ClockRight`, for every size, stride and
number of either sign, cache line, address, width of an `int` and of the counters, and
clock, with the exceptions `InBuffer` and `RoundsCounted` state. Here `IInv` adds where main has
settled what (`PlaceInv`), where reads may have gone (`ReadInv`), how passes and
counter differ at each point (`CountInv`), and which lines may have been written at
each point (`LineInv`, with `Said`).

Its second part is about `SwitchSpec`, from `SwitchAssumption`: `SwitchTypeCorrect`,
`RegistersRight` (with `Misread`, whose owners are `MisreadOwners`) and `FieldsKept`, on
all nine chips, for every set of ports, every
value of every field and any number of puts. `SwitchInv` is `SwitchTypeOK` and
`RightRegister` with `PutInv`, which says what the header holds: a bit of a word is
set exactly if a field put so far sets it, and of the two cookies at most one is put.
The lemmas say of the tables what the header file leaves to its author's care: the
rows of each table do not share an address, arrays with all their cells included
(`TableApart`; `SGMII_TR_DBG` apart), no two files share a block and sub block unless
they are one table (`SameTable`), so that an address has one owner (`OneOwner`); the
fields of a header do not overlap and none crosses the border of its words
(`FieldsClear`), so that one is read back whatever else was put (`ReadBack`); and
block, sub block and register do not run into each other in an offset
(`OffsetDecoded`). These are finite but large facts about literal tables; that no field
ever disturbs another needs them for any number of fields and all values, which the
run samples two at a time.

`Kernel_proof`, from `KernelAssumption`, for every set of devices and exceptions, any
number of keys and any depth of faults within faults: `HandlersAlwaysInPlace`,
`OnlyKeyboardGetsThrough`, `RequestsAcknowledged`, `StackAlwaysBalanced`,
`FramesAlwaysComplete`. `IInv` is indexed by the processor's place: which tables are
filled and loaded (`BootInv`), how the two 8259A are programmed and that they pass on
the keyboard's request only (`PicInv`), which request is in service (`ServiceInv`),
which vector the processor came through (`VectorInv`), and the exact stack of an
interrupt handler (`StackInv`): only the idle loop is interrupted, so it starts empty.
Under an exception frame there may be anything (`FrameInv`), for faults occur at every
point.

`Kernel_proof` also shows `TypeCorrect` and `DisplayNeverFaults`, with two invariants
of their own: what the other variables hold (`RestInv`), and that the text position is
that of a row below 256 (`DispInv`). The step is `disp_str`, a recursive function over
the lines of a text: `DispStrIs` shows, by induction on the number of lines, that
every line takes such a position to another one, because `NextLine` keeps eight bits
of the row.

`PrintedSums`, in `ContextBench_proof`: while main adds, the total is the sum of
the logs this run has added up to now, modulo `P` (`SumInv`); the upper halves
that `%u` leaves unset are multiples of `P` and never count. The sum is a recursive
function over the book; the lemmas say what appending to the book, or starting a run,
does to it.

`Fat12Boot_proof`, from the three assumptions of `Fat12Boot`, for every geometry, radix,
table and diskette they admit:

* `TypeCorrect`: sector numbers, clusters and the 16-bit load offset.
* `FileInMemory`: `MemoryHoldsFile`.
* `BootImplements`: `Spec => LoadsAsPromised`, the refinement of `FileLoad`.

The lemmas under them are the code's arithmetic: `SectorRead` (the BIOS computes back
the sector the code converted), `WindowHolds` (the two sectors read hold both bytes of
any entry), and that the entry taken out of them, shifted or masked, is the one the
table has. `IInv` says how far the search has come and that no entry before has the
name (`SearchInv`), that the clusters read are a beginning of the chain (`GotInv`),
what the register and the window hold at each point (`NextInv`), and which part of the
segment holds which clusters as long as there is room (`MemInv`). The refinement then
needs no more of memory: it is about what the BIOS delivered.

`TeaFile_proof`, from `TeaAssumption`, for every key, delta, width of a byte, size of a
block, set of files and number of runs:

* `BlocksInvert`: both directions of the cipher undo each other. Words and bytes
  convert into each other (`WordOfBytes`, `BytesOfWord`), addition modulo `M` is undone
  by subtraction (`AddSub`), a round of decryption undoes the round of encryption with
  the same sum (`Rounds`), and the sum decryption starts with and counts down is the
  one encryption counted up, because the number of rounds is 32 and the start is the
  delta times 32 (`Sums`). `TurnsBack` puts the
  rounds together by induction on their number. Nothing is assumed of `Exor` but that
  it gives a word.
* `FileWhole`: `WholeFile`. `IInv` says that tmpfile is untouched from `wat` on
  (`TailInv`), that what is before is what should be there (`Made`), that a run never
  writes past what it has read (`ReadInv`, `WriteInv`), so that in place, too, it
  always reads what the file held at the beginning.

`Uevent_proof`, from `UeventAssumption`, for every size of the buffer and of `envp` and
every alphabet: `PrintsMessage` (`PrintedIsMessage`) and `ReadsInside` (what strlen and
printf are given points into the buffer, and a NUL follows there). `IInv` says what of
the message is in the buffer before and after the `@` is overwritten (`SplitInv`,
`HeadInv`), and that the pointers stored are those of the first keys and `bufpos` that
of the next (`KeysInv`: a key is known by how many start up to it). Where a field ends
in the message, strlen stops in the buffer (`HeldText`); the last field ends because
`Receive` clears the byte behind the message.

`NatLemmas` has what several of these need: division with remainder, least elements,
induction, and that functions defined by recursion on naturals exist. Induction is
stated over a set of naturals (`Induct`), and recursion over a function that gives the
next value, as the provers cannot instantiate an operator; the recursive definitions
of the models are local functions of the form these lemmas apply to.

Only model-checked:

* liveness (`PairEnds`, `RunEnds`, `KeysServed`, `LoadEnds`, `BenchEnds`), which rests
  on fairness and on when actions are enabled;
* `Algorithms`: `MatchesReference` compares pure functions with their reference on
  enumerated inputs. What a recursive function computes for every input is an
  induction over data, and the bitwise operations of the module come
  from `Bitwise`, which a module with theorems cannot use.

## 5. Plan

1. done: the pipe benchmark: modules, refinement, composition, theorems.
2. done: `Kernel`, `FileLoad`, `Fat12Boot`.
3. done: `CacheBench` with theorems, `Switch`, `TeaFile`, `Uevent`, `Algorithms`.
4. not begun: `LoaderMemory`: the E820 loop and its buffer, the size of the page
   tables, the copy of the ELF segments, regions that must not overlap.
5. done: the theorems of `Kernel`, the boot chain with its refinement, `TeaFile` and
   `Uevent`; the sum of `ContextBench`; the switch access; what the end of a pair needs
   of the code.

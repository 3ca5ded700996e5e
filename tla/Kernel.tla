------------------------------- MODULE Kernel -------------------------------
(***************************************************************************)
(* The TINIX kernel (opensource/os/kernel and lib): _start sets up the     *)
(* descriptor tables and the 8259A pair, enables interrupts and idles; the *)
(* keyboard interrupt prints a line; every exception prints a report and   *)
(* halts.  The processor, the two interrupt controllers and the keyboard   *)
(* controller are hardware, modelled as the code drives them.              *)
(*                                                                         *)
(* One action is the run of instructions between two points where a fault  *)
(* or an interrupt makes a difference.                                     *)
(***************************************************************************)
EXTENDS Integers, Sequences, FiniteSets, FiniteSetsExt

CONSTANTS Lines,      \* interrupt lines the machine's devices raise
          Faults,     \* exceptions the processor may raise at any moment
          KeyCap,     \* bound: scan codes the keyboard queues
          DispCap,    \* bound: past this disp_pos nothing more comes in
          StackCap    \* bound: words faults within faults may pile up

ASSUME KernelAssumption ==
  /\ Lines \subseteq 0 .. 15 /\ Faults \subseteq (0 .. 14) \cup {16}
  /\ KeyCap \in Nat /\ DispCap \in Nat /\ StackCap \in Nat

VARIABLES pc,         \* where the processor stands
          stack,      \* words above the kernel's own, last one on top
          ifl,        \* the interrupt flag
          inNmi,      \* NMIs are blocked until the next iretd
          gdt, gdtr,  \* the kernel's table filled; the table in use
          idt, idtr,  \* the kernel's gates installed; lidt executed
          pic,        \* the two 8259A, "m" and "s"
          keys, obf,  \* scan codes queued; port 60h holds one
          disp        \* disp_pos

vars == <<pc, stack, ifl, inNmi, gdt, gdtr, idt, idtr, pic, keys, obf, disp>>

INT_VECTOR_IRQ0 == 32
INT_VECTOR_IRQ8 == 40
Exceptions == (0 .. 14) \cup {16}
HasErrCode == {8, 10, 11, 12, 13, 14}  \* the processor pushes an error code
\* Mutant: nmi without its push of 0xFFFFFFFF.
NmiPushesNoDummy == {0, 1, 3, 4, 5, 6, 7, 9, 16}

PushesDummy == (0 .. 7) \cup {9, 16}   \* the handler pushes 0xFFFFFFFF first
NoHandler == "none"
DivideError == -1

-----------------------------------------------------------------------------
(***************************************************************************)
(* 8259A: what a write to its two ports does.                              *)
(***************************************************************************)
Chip == [icw : {"icw2", "icw3", "icw4", "ready"}, base : {8, 112, 32, 40},
         mask : SUBSET (0 .. 7), irr : SUBSET (0 .. 7), isr : SUBSET (0 .. 7)]

\* ICW1 resets the edge sense: a line that is up must fall and rise again.
WriteCtl(c, icw1) ==
  IF icw1 THEN [c EXCEPT !.icw = "icw2", !.mask = {}, !.irr = {}, !.isr = {}]
          ELSE [c EXCEPT !.isr = IF @ = {} THEN @ ELSE @ \ {Min(@)}]  \* EOI

WriteMask(c, byte, bits) ==
  CASE c.icw = "icw2" -> [c EXCEPT !.icw = "icw3", !.base = byte]
    [] c.icw = "icw3" -> [c EXCEPT !.icw = "icw4"]
    [] c.icw = "icw4" -> [c EXCEPT !.icw = "ready"]
    [] OTHER -> [c EXCEPT !.mask = bits]

\* Mutant: no ICW4, so that the 8259A takes OCW1 for it.
ProgrammedShort(c, base, bits) ==
  WriteMask(WriteMask(WriteMask(WriteCtl(c, TRUE), base, {}), 0, {}), 0, bits)

\* init_8259A: ICW1 to ICW4 of a chip, then OCW1.
Programmed(c, base, bits) ==
  WriteMask(WriteMask(WriteMask(WriteMask(WriteCtl(c, TRUE), base, {}), 0, {}), 0, {}),
            0, bits)

\* Requests the master passes on: not masked, of higher priority than any
\* interrupt in service.
Passed(c) == {i \in c.irr \ c.mask : \A j \in c.isr : i < j}

\* The processor acknowledges request n.
Ack(c, n) == [c EXCEPT !.irr = @ \ {n}, !.isr = @ \cup {n}]

-----------------------------------------------------------------------------
(***************************************************************************)
(* disp_str: a text is the lengths of its lines, a newline between two.    *)
(***************************************************************************)
\* Mutant: the line number keeps its ninth bit.
NextLineUntruncated(pos, len) ==
  LET line[at \in DivideError .. 65535] ==
        IF at = DivideError \/ at \div 160 > 255 THEN DivideError
        ELSE 160 * (at \div 160 + 1) + 2 * len
  IN line[pos]

\* A newline and len characters after it.  div bl of a 16-bit ax by 160 faults
\* when the quotient needs nine bits; mul bl multiplies only the low byte of
\* the incremented line number.
NextLine(pos, len) ==
  LET line[at \in DivideError .. 65535] ==
        IF at = DivideError \/ at \div 160 > 255 THEN DivideError
        ELSE 160 * ((at \div 160 + 1) % 256) + 2 * len
  IN line[pos]

\* end[n] is the position after n newlines.
disp_str(pos, lines) ==
  LET end[n \in 0 .. Len(lines) - 1] ==
        IF n = 0 THEN pos + 2 * lines[1] ELSE NextLine(end[n - 1], lines[n + 1])
  IN end[Len(lines) - 1]

CStartBegins == [i \in 1 .. 17 |-> IF i = 16 THEN 25 ELSE 0]
CStartFinished == <<27, 0>>
TestStr == <<14, 0>>
SpuriousIrq == <<17, 0>>
IntLen == {3, 10}                  \* itoa: "0x" and one to eight digits
Description == {12, 46}            \* shortest and longest err_description

\* exception_handler: position 0, 400 blanks, position 0 again, the report.
ReportEnds(hasCode) ==
  {disp_str(0, <<15 + d, 0, 7 + a + 3 + b + 4 + c + (IF hasCode THEN 11 + c ELSE 0)>>)
     : a \in IntLen, b \in IntLen, c \in IntLen, d \in Description}

-----------------------------------------------------------------------------
\* What init_prot puts into the table: exception v at vector v, hwint00 to
\* hwint07 from INT_VECTOR_IRQ0 and hwint08 to hwint15 from INT_VECTOR_IRQ8.
Handler(v) ==
  IF ~idt THEN <<NoHandler, v>>
  ELSE CASE v \in Exceptions -> <<"exception", v>>
         [] v - INT_VECTOR_IRQ0 \in 0 .. 7 -> <<"hwint", v - INT_VECTOR_IRQ0>>
         [] v - INT_VECTOR_IRQ8 \in 0 .. 7 -> <<"hwint", v - INT_VECTOR_IRQ8 + 8>>
         [] OTHER -> <<NoHandler, v>>

Points == {"_start", "cstart", "init_8259A", "init_idt", "cstart_end", "lgdt", "lidt",
           "sti", "idle", "hw_push", "hw_call", "hw_pop", "hw_eoi", "kb_call",
           "kb_eoi", "kb_in", "iretd", "exc_push", "exc_call", "exc_pop", "hlt", "wild",
           "reset"}

\* The handler the processor is in, from the words it pushed on the stack.
Frame(v, code) == IF code THEN <<"eflags", "cs", "eip", "code">>
                          ELSE <<"eflags", "cs", "eip">>
Top(n) == SubSeq(stack, Len(stack) - n + 1, Len(stack))
Drop(n) == SubSeq(stack, 1, Len(stack) - n)

TypeOK ==
  /\ pc \in Points \X (0 .. 255)
  /\ stack \in Seq({"eflags", "cs", "eip", "code", "nocode", "irq", "vector"})
  /\ ifl \in BOOLEAN /\ inNmi \in BOOLEAN
  /\ gdt \in BOOLEAN /\ gdtr \in {"loader", "kernel"}
  /\ idt \in BOOLEAN /\ idtr \in BOOLEAN
  /\ pic \in [{"m", "s"} -> Chip]
  /\ keys \in 0 .. KeyCap /\ obf \in BOOLEAN
  /\ disp \in DivideError .. 65535

\* The loader enters with interrupts off and the BIOS's controller settings.
Init ==
  /\ pc = <<"_start", 0>> /\ stack = <<>> /\ ifl = FALSE /\ inNmi = FALSE
  /\ gdt = FALSE /\ gdtr = "loader"
  /\ idt = FALSE /\ idtr = FALSE
  /\ pic = [c \in {"m", "s"} |->
              [icw |-> "ready", base |-> IF c = "m" THEN 8 ELSE 112,
               mask |-> {}, irr |-> {}, isr |-> {}]]
  /\ keys = 0 /\ obf = FALSE /\ disp = 0

At(p) == pc[1] = p
Goto(p) == pc' = <<p, pc[2]>>

tables == <<gdt, gdtr, idt, idtr>>
devices == <<pic, keys, obf>>
cpu == <<stack, ifl, inNmi>>

(***************************************************************************)
(* Start-up.                                                               *)
(***************************************************************************)
Start == /\ At("_start") /\ Goto("cstart") /\ disp' = 0
         /\ UNCHANGED <<cpu, tables, devices>>

CStart == /\ At("cstart") /\ Goto("init_8259A")
          /\ disp' = disp_str(disp, CStartBegins) /\ gdt' = TRUE
          /\ UNCHANGED <<cpu, gdtr, idt, idtr, devices>>

\* Mutant: ICW2 of the slave one chip too far.
SlaveVectorsPastHwint ==
  /\ At("init_8259A") /\ Goto("init_idt")
  /\ pic' = [m |-> Programmed(pic["m"], INT_VECTOR_IRQ0, (0 .. 7) \ {1}),
             s |-> Programmed(pic["s"], INT_VECTOR_IRQ8 + 8, 0 .. 7)]
  /\ UNCHANGED <<cpu, tables, keys, obf, disp>>

\* Mutant: the ICW2 of the two chips swapped.
VectorsSwapped ==
  /\ At("init_8259A") /\ Goto("init_idt")
  /\ pic' = [m |-> Programmed(pic["m"], INT_VECTOR_IRQ8, (0 .. 7) \ {1}),
             s |-> Programmed(pic["s"], INT_VECTOR_IRQ0, 0 .. 7)]
  /\ UNCHANGED <<cpu, tables, keys, obf, disp>>

\* Only the keyboard stays unmasked: 0xFD for the master, 0xFF for the slave.
init_8259A ==
  /\ At("init_8259A") /\ Goto("init_idt")
  /\ pic' = [m |-> Programmed(pic["m"], INT_VECTOR_IRQ0, (0 .. 7) \ {1}),
             s |-> Programmed(pic["s"], INT_VECTOR_IRQ8, 0 .. 7)]
  /\ UNCHANGED <<cpu, tables, keys, obf, disp>>

InitIdt == /\ At("init_idt") /\ Goto("cstart_end") /\ idt' = TRUE
           /\ UNCHANGED <<cpu, gdt, gdtr, idtr, devices, disp>>

CStartEnds == /\ At("cstart_end") /\ Goto("lgdt")
              /\ disp' = disp_str(disp, CStartFinished)
              /\ UNCHANGED <<cpu, tables, devices>>

LoadTables == /\ \/ At("lgdt") /\ Goto("lidt") /\ gdtr' = "kernel" /\ UNCHANGED idtr
                 \/ At("lidt") /\ Goto("sti") /\ idtr' = TRUE /\ UNCHANGED gdtr
              /\ UNCHANGED <<cpu, gdt, idt, devices, disp>>

Sti == /\ At("sti") /\ Goto("idle") /\ ifl' = TRUE
       /\ UNCHANGED <<stack, inNmi, tables, devices, disp>>

(***************************************************************************)
(* Entry through a gate.  All are interrupt gates: the flag goes down.     *)
(***************************************************************************)
Enter(v, code) ==
  /\ ifl' = FALSE /\ stack' = stack \o Frame(v, code)
  /\ pc' = IF ~idtr \/ Handler(v)[1] = NoHandler THEN <<"reset", v>>
           ELSE CASE Handler(v) = <<"hwint", 1>> -> <<"kb_call", v>>
                  [] Handler(v)[1] = "hwint" /\ Handler(v)[2] # 1 -> <<"hw_push", v>>
                  [] Handler(v)[1] = "exception" -> <<"exc_push", v>>

\* The master's request with the highest priority; the cascade stands for the
\* slave's, and carries the slave's vector.
Interrupt ==
  /\ ifl /\ Passed(pic["m"]) # {}
  /\ LET i == Min(Passed(pic["m"]))
         j == Min(Passed(pic["s"]))
     IN IF i = 2 /\ Passed(pic["s"]) # {}
          THEN /\ pic' = [m |-> Ack(pic["m"], 2), s |-> Ack(pic["s"], j)]
               /\ Enter(pic["s"].base + j, FALSE)
          ELSE /\ pic' = [pic EXCEPT !["m"] = Ack(@, i)]
               /\ Enter(pic["m"].base + i, FALSE)
  /\ UNCHANGED <<inNmi, tables, keys, obf, disp>>

\* A line that falls before it is acknowledged: vector 7 of the master, with
\* no bit in service.
SpuriousInterrupt ==
  /\ ifl /\ Passed(pic["m"]) = {} /\ disp < DispCap
  /\ Enter(pic["m"].base + 7, FALSE)
  /\ UNCHANGED <<inNmi, tables, devices, disp>>

Fault(v) ==
  /\ ~At("reset") /\ ~At("wild") /\ (v = 2 => ~inNmi) /\ (At("hlt") => v = 2)
  /\ Len(stack) <= StackCap
  /\ Enter(v, v \in HasErrCode)
  /\ inNmi' = (inNmi \/ v = 2)
  /\ UNCHANGED <<tables, devices, disp>>

(***************************************************************************)
(* hwint_master, hwint_slave and hwint_master_kb.                          *)
(***************************************************************************)
Irq == Handler(pc[2])[2]

HwPush == /\ At("hw_push") /\ Goto("hw_call") /\ stack' = Append(stack, "irq")
          /\ UNCHANGED <<ifl, inNmi, tables, devices, disp>>

spurious_irq == /\ At("hw_call") /\ Goto("hw_pop") /\ disp' = disp_str(disp, SpuriousIrq)
                /\ UNCHANGED <<cpu, tables, devices>>

\* Mutant: no add esp, 4 after spurious_irq.
HwPopForgotten == /\ At("hw_pop") /\ Goto(IF Irq < 8 THEN "hw_eoi" ELSE "hlt")
                  /\ UNCHANGED <<cpu, tables, devices, disp>>

\* The slave's handlers halt here, without an EOI.
HwPop == /\ At("hw_pop") /\ stack' = Drop(1)
         /\ Goto(IF Irq < 8 THEN "hw_eoi" ELSE "hlt")
         /\ UNCHANGED <<ifl, inNmi, tables, devices, disp>>

test_str == /\ At("kb_call") /\ Goto("kb_eoi") /\ disp' = disp_str(disp, TestStr)
            /\ UNCHANGED <<cpu, tables, devices>>

\* Mutant: the handlers return without an EOI.
EoiForgotten == /\ \/ At("hw_eoi") /\ Goto("iretd")
                   \/ At("kb_eoi") /\ Goto("kb_in")
                /\ UNCHANGED <<cpu, tables, devices, disp>>

Eoi == /\ \/ At("hw_eoi") /\ Goto("iretd")
          \/ At("kb_eoi") /\ Goto("kb_in")
       /\ pic' = [pic EXCEPT !["m"] = WriteCtl(@, FALSE)]
       /\ UNCHANGED <<cpu, tables, keys, obf, disp>>

\* Mutant: no in al, 60h.
KeyLeftInPort == /\ At("kb_in") /\ Goto("iretd")
                 /\ UNCHANGED <<cpu, tables, devices, disp>>

\* in al, 60h empties the controller's output buffer.
ReadKey == /\ At("kb_in") /\ Goto("iretd") /\ obf' = FALSE
           /\ UNCHANGED <<cpu, tables, pic, keys, disp>>

Iretd ==
  /\ At("iretd")
  /\ IF Len(stack) >= 3 /\ Top(3) = <<"eflags", "cs", "eip">>
       THEN /\ stack' = Drop(3) /\ ifl' = TRUE /\ inNmi' = FALSE
            /\ pc' = <<"idle", 0>>
       ELSE Goto("wild") /\ UNCHANGED cpu
  /\ UNCHANGED <<tables, devices, disp>>

(***************************************************************************)
(* Exceptions: push the missing error code, the vector, report, halt.      *)
(***************************************************************************)
ExcPush == /\ At("exc_push") /\ Goto("exc_call")
           /\ stack' = stack \o (IF pc[2] \in PushesDummy THEN <<"nocode">> ELSE <<>>)
                             \o <<"vector">>
           /\ UNCHANGED <<ifl, inNmi, tables, devices, disp>>

exception_handler ==
  /\ At("exc_call") /\ Goto("exc_pop")
  /\ disp' \in ReportEnds(stack[Len(stack) - 1] = "code")
  /\ UNCHANGED <<cpu, tables, devices>>

ExcPop == /\ At("exc_pop") /\ Goto("hlt") /\ stack' = Drop(2)
          /\ UNCHANGED <<ifl, inNmi, tables, devices, disp>>

(***************************************************************************)
(* The devices, followed until the processor stops: an interrupt gate has  *)
(* cleared the flag for good by then.                                      *)
(***************************************************************************)
Stopped == pc[1] \in {"hlt", "reset", "wild"}

KeyPressed ==
  /\ ~Stopped /\ keys < KeyCap /\ disp < DispCap
  /\ keys' = keys + 1
  /\ UNCHANGED <<pc, cpu, tables, pic, obf, disp>>

\* The next scan code reaches port 60h, and the line of IRQ 1 rises.
KeyArrives ==
  /\ ~Stopped /\ keys > 0 /\ ~obf
  /\ keys' = keys - 1 /\ obf' = TRUE
  /\ pic' = [pic EXCEPT !["m"].irr = @ \cup {1}]
  /\ UNCHANGED <<pc, cpu, tables, disp>>

LineRises(i) ==
  /\ ~Stopped
  /\ pic' = IF i < 8 THEN [pic EXCEPT !["m"].irr = @ \cup {i}]
            ELSE [m |-> [pic["m"] EXCEPT !.irr = IF i - 8 \in pic["s"].mask
                                                   THEN @ ELSE @ \cup {2}],
                  s |-> [pic["s"] EXCEPT !.irr = @ \cup {i - 8}]]
  /\ UNCHANGED <<pc, cpu, tables, keys, obf, disp>>

-----------------------------------------------------------------------------
Step == \/ Start \/ CStart \/ init_8259A \/ InitIdt \/ CStartEnds \/ LoadTables
        \/ Sti \/ HwPush \/ spurious_irq \/ HwPop \/ test_str \/ Eoi \/ ReadKey
        \/ Iretd \/ ExcPush \/ exception_handler \/ ExcPop

Next == \/ Step \/ Interrupt \/ SpuriousInterrupt
        \/ \E v \in Faults : Fault(v)
        \/ KeyPressed \/ KeyArrives
        \/ \E i \in Lines : LineRises(i)

Spec == Init /\ [][Next]_vars

\* The processor runs, takes the interrupts it is offered, and the keyboard
\* controller delivers what it has.
FairSpec == /\ Spec /\ WF_vars(Step) /\ WF_vars(Interrupt) /\ WF_vars(KeyArrives)

-----------------------------------------------------------------------------
\* Once interrupts are on, both tables are the kernel's and every interrupt
\* that can come, the spurious one included, has its own handler (kernel.asm
\* 99-137, protect.c 44-81): the vectors written to the 8259A in i8259.c are
\* those the gates are installed at.
HandlersInPlace ==
  ifl => /\ gdt /\ gdtr = "kernel" /\ idtr
         /\ \A c \in {"m", "s"} : pic[c].icw = "ready"
         /\ \A i \in ((0 .. 7) \ pic["m"].mask) \cup {7} :
              Handler(pic["m"].base + i) = <<"hwint", i>>

\* After the masks of i8259.c lines 27-28 no line but the keyboard's gets
\* through, whichever devices request: other handlers run for a spurious
\* interrupt only, and nothing but a fault before lidt resets the machine.
OnlyKeyboard ==
  /\ At("hw_push") => pc[2] = INT_VECTOR_IRQ0 + 7
  /\ At("reset") => ~idtr

\* A handler runs while its own request is in service and acknowledges it
\* before it returns (kernel.asm 141-159): in the idle loop nothing is left
\* in service that would hold back the next key.
AcknowledgedOnce ==
  /\ (At("kb_call") \/ At("kb_eoi")) => pic["m"].isr = {1}
  /\ At("idle") => pic["m"].isr = {} /\ pic["s"].isr = {}

\* Every path through a handler leaves the stack as iretd needs it.
IretdFindsFrame ==
  /\ ~At("wild")
  /\ At("idle") => stack = <<>>

\* exception_handler always finds vec_no, err_code, eip, cs and eflags where it
\* reads them: a handler pushes 0xFFFFFFFF exactly where the processor pushes
\* no error code (kernel.asm 237-294).
FrameComplete ==
  At("exc_call") =>
    /\ Len(stack) >= 5
    /\ Top(5) = <<"eflags", "cs", "eip", IF pc[2] \in HasErrCode THEN "code" ELSE "nocode",
                  "vector">>

\* disp_pos grows by a line with every key and nothing ever scrolls; because
\* mul bl drops the ninth bit of the line number the division of the next
\* newline (kliba.asm 37-46) still never overflows.
NoDisplayFault == disp # DivideError

\* Every key whose request the master 8259A has seen is read, unless the
\* machine stops: the handler's EOI and its read of port 60h let the next one
\* interrupt again.  (A key that arrived before ICW1 has lost its edge, and with
\* port 60h full no other will come: nothing in i8259.c empties the port.)
KeysServed == (ifl /\ obf /\ 1 \in pic["m"].irr) ~> (~obf \/ Stopped)
=============================================================================

----------------------------- MODULE Kernel_proof -----------------------------
(***************************************************************************)
(* Proofs about the TINIX kernel, for every set of devices and faults, any *)
(* number of keys and any depth of faults within faults: interrupts find   *)
(* their handlers, and handlers their stack frames, and however much is    *)
(* printed disp_str never divides by too little.                           *)
(***************************************************************************)
EXTENDS Kernel, NatLemmas, SequenceTheorems, TLAPS

Words == {"eflags", "cs", "eip", "code", "nocode", "irq", "vector"}
BareFrame == <<"eflags", "cs", "eip">>

\* The points of start-up, in the order of the code, up to lidt; the points the
\* processor can be at from then on.
Boot == {"_start", "cstart", "init_8259A", "init_idt", "cstart_end", "lgdt", "lidt"}
Running == {"sti", "idle", "hw_push", "hw_call", "hw_pop", "hw_eoi", "kb_call", "kb_eoi",
            "kb_in", "iretd", "exc_push", "exc_call", "exc_pop", "hlt"}

\* What the code's progress needs of the types; disp_pos has no part in it.
TypeInv ==
  /\ pc \in (Boot \cup Running \cup {"reset"}) \X (0 .. 255)
  /\ stack \in Seq(Words)
  /\ pic \in [{"m", "s"} -> Chip]

\* What start-up has done when the processor stands at a point.
BootInv ==
  /\ pc[1] \in Running => idtr
  /\ pc[1] \in Boot \cup {"reset"} => ~idtr
  /\ pc[1] \in Running \cup (Boot \ {"_start", "cstart"}) => gdt
  /\ pc[1] \in Running \cup {"cstart_end", "lgdt", "lidt"} => idt
  /\ pc[1] \in Running \cup {"lidt"} => gdtr = "kernel"
  /\ ifl <=> pc[1] = "idle"

\* The two 8259A, once programmed, pass on the keyboard's request only.
PicInv ==
  pc[1] \in Running \cup {"init_idt", "cstart_end", "lgdt", "lidt"} =>
    /\ pic["m"].icw = "ready" /\ pic["m"].base = INT_VECTOR_IRQ0
    /\ pic["m"].mask = (0 .. 7) \ {1}
    /\ pic["s"].icw = "ready" /\ pic["s"].base = INT_VECTOR_IRQ8
    /\ pic["s"].mask = 0 .. 7 /\ pic["s"].isr = {}

\* The request in service is the one whose handler runs.
ServiceInv ==
  /\ pc[1] \in {"init_idt", "cstart_end", "lgdt", "lidt", "sti", "idle", "hw_push",
                "hw_call", "hw_pop", "hw_eoi", "kb_in", "iretd"} => pic["m"].isr = {}
  /\ pc[1] \in {"kb_call", "kb_eoi"} => pic["m"].isr = {1}

\* The vector the processor came through.
VectorInv ==
  /\ pc[1] \in {"hw_push", "hw_call", "hw_pop", "hw_eoi"} => pc[2] = INT_VECTOR_IRQ0 + 7
  /\ pc[1] \in {"exc_push", "exc_call"} => pc[2] \in Exceptions

\* The stack of an interrupt handler holds its frame and nothing below it: only
\* the idle loop is interrupted, and from an exception nobody returns.
StackInv ==
  /\ pc[1] \in Boot \cup {"sti", "idle"} => stack = <<>>
  /\ pc[1] \in {"hw_push", "hw_eoi", "kb_call", "kb_eoi", "kb_in", "iretd"} =>
       stack = BareFrame
  /\ pc[1] \in {"hw_call", "hw_pop"} => stack = Append(BareFrame, "irq")

\* An exception handler finds what the processor pushed, on top of anything.
FrameInv ==
  /\ pc[1] = "exc_push" =>
       \E below \in Seq(Words) : stack = below \o Frame(pc[2], pc[2] \in HasErrCode)
  /\ pc[1] = "exc_call" =>
       \E below \in Seq(Words) :
         stack = below \o <<"eflags", "cs", "eip",
                            IF pc[2] \in HasErrCode THEN "code" ELSE "nocode", "vector">>

IInv == TypeInv /\ BootInv /\ PicInv /\ ServiceInv /\ VectorInv /\ StackInv /\ FrameInv

USE DEF Boot, Running, INT_VECTOR_IRQ0, INT_VECTOR_IRQ8, At, Goto

-----------------------------------------------------------------------------
\* Two sequences with the same elements: a part of s is t.
LEMMA SubSeqIs ==
  ASSUME NEW S, NEW s \in Seq(S), NEW t \in Seq(S), NEW m \in Nat, NEW n \in Nat,
         m >= 1, n <= Len(s), Len(t) = n - m + 1,
         \A k \in 1 .. Len(t) : s[m + k - 1] = t[k]
  PROVE  SubSeq(s, m, n) = t
<1>1. Len(t) \in Nat /\ Len(s) \in Nat
  OBVIOUS
<1>2. \A k \in m .. n : k \in 1 .. Len(s) /\ s[k] \in S
  BY <1>1
<1>3. /\ SubSeq(s, m, n) \in Seq(S)
      /\ Len(SubSeq(s, m, n)) = Len(t)
      /\ \A k \in 1 .. n - m + 1 : SubSeq(s, m, n)[k] = s[m + k - 1]
  <2>1. m \in Int /\ n \in Int
    OBVIOUS
  <2>2. /\ SubSeq(s, m, n) \in Seq(S)
        /\ Len(SubSeq(s, m, n)) = IF m <= n THEN n - m + 1 ELSE 0
        /\ \A k \in 1 .. n - m + 1 : SubSeq(s, m, n)[k] = s[m + k - 1]
    BY <1>2, <2>1, SubSeqProperties
  <2> QED
    BY <1>1, <2>2
<1> QED
  BY <1>1, <1>3, SeqEqual

\* A bare frame, and one with the argument of spurious_irq on it.
LEMMA Frames ==
  /\ BareFrame \in Seq(Words) /\ Len(BareFrame) = 3
  /\ SubSeq(BareFrame, 1, 3) = BareFrame /\ SubSeq(BareFrame, 1, 0) = <<>>
  /\ Append(BareFrame, "irq") \in Seq(Words) /\ Len(Append(BareFrame, "irq")) = 4
  /\ SubSeq(Append(BareFrame, "irq"), 1, 3) = BareFrame
<1> DEFINE long == Append(BareFrame, "irq")
<1>1. /\ BareFrame \in Seq(Words) /\ Len(BareFrame) = 3
      /\ long \in Seq(Words) /\ Len(long) = 4
      /\ \A k \in 1 .. 3 : long[k] = BareFrame[k]
  BY DEF BareFrame, Words
<1>2. SubSeq(BareFrame, 1, 0) = <<>>
  BY DEF BareFrame
<1> HIDE DEF long
<1>3. SubSeq(BareFrame, 1, 3) = BareFrame
  BY <1>1, SubSeqIs
<1>4. SubSeq(long, 1, 3) = BareFrame
  BY <1>1, SubSeqIs
<1> QED
  BY <1>1, <1>2, <1>3, <1>4 DEF long

\* What was pushed last is on top.
LEMMA TopOf ==
  ASSUME NEW s \in Seq(Words), NEW t \in Seq(Words)
  PROVE  /\ s \o t \in Seq(Words) /\ Len(s \o t) = Len(s) + Len(t)
         /\ SubSeq(s \o t, Len(s) + 1, Len(s) + Len(t)) = t
<1>1. /\ s \o t \in Seq(Words) /\ Len(s \o t) = Len(s) + Len(t) /\ Len(s) \in Nat /\ Len(t) \in Nat
      /\ \A k \in 1 .. Len(t) : (s \o t)[Len(s) + k] = t[k]
  OBVIOUS
<1>2. \A k \in 1 .. Len(t) : (s \o t)[(Len(s) + 1) + k - 1] = t[k]
  <2> SUFFICES ASSUME NEW k \in 1 .. Len(t) PROVE (s \o t)[(Len(s) + 1) + k - 1] = t[k]
    OBVIOUS
  <2>1. (Len(s) + 1) + k - 1 = Len(s) + k
    BY <1>1
  <2> QED
    BY <1>1, <2>1
<1> DEFINE st == s \o t
       m == Len(s) + 1
       n == Len(s) + Len(t)
<1>3. /\ st \in Seq(Words) /\ m \in Nat /\ n \in Nat /\ m >= 1 /\ n <= Len(st)
      /\ Len(t) = n - m + 1 /\ \A k \in 1 .. Len(t) : st[m + k - 1] = t[k]
  BY <1>1, <1>2
<1> HIDE DEF st, m, n
<1>4. SubSeq(st, m, n) = t
  BY <1>3, SubSeqIs
<1> QED
  BY <1>1, <1>4 DEF st, m, n

\* ICW1 to ICW4 and OCW1 leave nothing of what a chip held.
LEMMA Prog ==
  ASSUME NEW c \in Chip, NEW b \in {8, 112, 32, 40}, NEW bits \in SUBSET (0 .. 7)
  PROVE  Programmed(c, b, bits) =
           [icw |-> "ready", base |-> b, mask |-> bits, irr |-> {}, isr |-> {}]
<1> DEFINE Is(w, a, m) == [icw |-> w, base |-> a, mask |-> m, irr |-> {}, isr |-> {}]
<1>1. WriteCtl(c, TRUE) = Is("icw2", c.base, {})
  BY DEF WriteCtl, Chip
<1>2. WriteMask(Is("icw2", c.base, {}), b, {}) = Is("icw3", b, {})
  BY DEF WriteMask
<1>3. WriteMask(Is("icw3", b, {}), 0, {}) = Is("icw4", b, {})
  BY DEF WriteMask
<1>4. WriteMask(Is("icw4", b, {}), 0, {}) = Is("ready", b, {})
  BY DEF WriteMask
<1>5. WriteMask(Is("ready", b, {}), 0, bits) = Is("ready", b, bits)
  BY DEF WriteMask
<1> HIDE DEF Is
<1> QED
  BY <1>1, <1>2, <1>3, <1>4, <1>5 DEF Programmed, Is

\* One controller of the pair written.
LEMMA OneChip ==
  ASSUME TypeInv, NEW c \in Chip
  PROVE  LET p == [pic EXCEPT !["m"] = c]
         IN p \in [{"m", "s"} -> Chip] /\ p["m"] = c /\ p["s"] = pic["s"]
BY DEF TypeInv

\* Both written.
LEMMA BothChips ==
  ASSUME NEW c \in Chip, NEW d \in Chip
  PROVE  LET p == [m |-> c, s |-> d]
         IN p \in [{"m", "s"} -> Chip] /\ p["m"] = c /\ p["s"] = d
<1>1. [m |-> c, s |-> d] = [x \in {"m", "s"} |-> IF x = "m" THEN c ELSE d]
  OBVIOUS
<1> QED
  BY <1>1

\* An EOI leaves nothing in service where one request was.
LEMMA EoiIs ==
  ASSUME NEW c \in Chip, c.isr \in {{}, {1}}
  PROVE  WriteCtl(c, FALSE) = [c EXCEPT !.isr = {}]
<1>1. Min({1}) = 1
  BY DEF Min
<1>2. CASE c.isr = {}
  BY <1>2 DEF WriteCtl, Chip
<1>3. CASE c.isr = {1}
  BY <1>1, <1>3 DEF WriteCtl, Chip
<1> QED
  BY <1>2, <1>3

\* With everything else masked, what is passed on is the keyboard's request.
LEMMA KbOnly ==
  ASSUME NEW c \in Chip, c.mask = (0 .. 7) \ {1}, Passed(c) # {}
  PROVE  Min(Passed(c)) = 1
<1>1. Passed(c) = {1}
  BY DEF Passed, Chip
<1>2. Min({1}) = 1
  BY DEF Min
<1> QED
  BY <1>1, <1>2

\* Acknowledged, the keyboard's request is the one in service.
LEMMA AckIs ==
  ASSUME NEW c \in Chip, c.isr = {}
  PROVE  LET d == Ack(c, 1)
         IN  /\ d \in Chip /\ d.isr = {1} /\ d.icw = c.icw
             /\ d.base = c.base /\ d.mask = c.mask
<1> DEFINE irr == c.irr \ {1}
           isr == c.isr \cup {1}
           d == [c EXCEPT !.irr = irr, !.isr = isr]
<1>1. irr \in SUBSET (0 .. 7) /\ isr \in SUBSET (0 .. 7) /\ isr = {1}
  BY DEF Chip
<1> HIDE DEF irr, isr
<1>2. /\ d \in Chip /\ d.isr = isr /\ d.icw = c.icw /\ d.base = c.base /\ d.mask = c.mask
  BY <1>1 DEF Chip
<1> QED
  BY <1>1, <1>2 DEF Ack, irr, isr

\* An interrupt that is not the cascade's.
LEMMA NotCascade ==
  ASSUME Interrupt, Min(Passed(pic["m"])) = 1
  PROVE  pic' = [pic EXCEPT !["m"] = Ack(pic["m"], 1)] /\ Enter(pic["m"].base + 1, FALSE)
<1> DEFINE i == Min(Passed(pic["m"]))
<1>1. i # 2
  OBVIOUS
<1>2. pic' = [pic EXCEPT !["m"] = Ack(pic["m"], i)] /\ Enter(pic["m"].base + i, FALSE)
  BY <1>1, Zenon DEF Interrupt
<1> HIDE DEF i
<1>3. i = 1
  BY DEF i
<1> QED
  BY <1>2, <1>3

\* Where an exception leads: to its handler, or, before lidt, to a reset.
LEMMA EnterFault ==
  ASSUME BootInv, TypeInv, NEW v \in Exceptions, NEW code \in BOOLEAN, Enter(v, code)
  PROVE  pc' = (IF idtr THEN <<"exc_push", v>> ELSE <<"reset", v>>)
<1>1. v \in Int
  BY DEF Exceptions
<1>2. CASE idtr
  <2>1. idt
    BY <1>2 DEF BootInv, TypeInv
  <2>2. Handler(v) = <<"exception", v>>
    BY <1>1, <2>1 DEF Handler, Exceptions
  <2>3. Handler(v)[1] = "exception" /\ Handler(v) # <<"hwint", 1>>
    BY <2>2
  <2> QED
    BY <1>2, <2>3 DEF Enter, NoHandler
<1>3. CASE ~idtr
  BY <1>3 DEF Enter
<1> QED
  BY <1>2, <1>3

\* Where the two vectors an interrupt can have lead.
LEMMA HandlerKb == idt => Handler(33) = <<"hwint", 1>> /\ Handler(39) = <<"hwint", 7>>
<1> SUFFICES ASSUME idt PROVE Handler(33) = <<"hwint", 1>> /\ Handler(39) = <<"hwint", 7>>
  OBVIOUS
<1>1. 33 \notin Exceptions /\ 39 \notin Exceptions
  BY DEF Exceptions
<1>2. Handler(33) = <<"hwint", 33 - 32>>
  BY <1>1 DEF Handler
<1>3. Handler(39) = <<"hwint", 39 - 32>>
  BY <1>1 DEF Handler
<1> QED
  BY <1>2, <1>3

\* What enters at an interrupt: the idle loop's empty stack gets one bare frame.
LEMMA EnterIrq ==
  ASSUME BootInv, TypeInv, StackInv, ifl, NEW v \in {33, 39}, Enter(v, FALSE)
  PROVE  /\ pc' = (IF v = 33 THEN <<"kb_call", 33>> ELSE <<"hw_push", 39>>)
         /\ stack' = BareFrame /\ pc[1] = "idle" /\ idtr
<1>1. pc[1] = "idle" /\ idtr /\ idt /\ stack = <<>>
  BY DEF BootInv, StackInv
<1>2. stack' = BareFrame
  <2>1. stack' = <<>> \o BareFrame
    BY <1>1 DEF Enter, Frame, BareFrame
  <2> QED
    BY <2>1 DEF BareFrame
<1>3. CASE v = 33
  <2>1. Handler(v)[1] = "hwint" /\ Handler(v)[2] = 1 /\ Handler(v) = <<"hwint", 1>>
    BY <1>1, <1>3, HandlerKb
  <2> QED
    BY <1>1, <1>2, <1>3, <2>1 DEF Enter, NoHandler
<1>4. CASE v = 39
  <2>1. Handler(v)[1] = "hwint" /\ Handler(v)[2] = 7 /\ Handler(v) # <<"hwint", 1>>
    BY <1>1, <1>4, HandlerKb
  <2>2. pc' = <<"hw_push", v>>
    BY <1>1, <2>1 DEF Enter, NoHandler
  <2> QED
    BY <1>1, <1>2, <1>4, <2>2
<1> QED
  BY <1>3, <1>4

\* The initial state satisfies the invariant.
LEMMA InitInv == Init => IInv
  BY DEF Init, IInv, TypeInv, Chip, BootInv, PicInv, ServiceInv, VectorInv, StackInv, FrameInv

-----------------------------------------------------------------------------
\* The steps that leave the stack and the controllers alone.
LEMMA QuietStep ==
  ASSUME IInv, Start \/ CStart \/ InitIdt \/ CStartEnds \/ LoadTables \/ Sti \/ spurious_irq
               \/ test_str \/ ReadKey \/ exception_handler \/ KeyPressed
  PROVE  IInv'
<1> USE DEF IInv, TypeInv, BootInv, PicInv, ServiceInv, VectorInv, StackInv, FrameInv,
            cpu, tables, devices
<1>1. CASE Start
  BY <1>1 DEF Start
<1>2. CASE CStart
  BY <1>2 DEF CStart
<1>3. CASE InitIdt
  BY <1>3 DEF InitIdt
<1>4. CASE CStartEnds
  BY <1>4 DEF CStartEnds
<1>5. CASE LoadTables
  BY <1>5 DEF LoadTables
<1>6. CASE Sti
  BY <1>6 DEF Sti
<1>7. CASE spurious_irq
  BY <1>7 DEF spurious_irq
<1>8. CASE test_str
  BY <1>8 DEF test_str
<1>9. CASE ReadKey
  BY <1>9 DEF ReadKey
<1>10. CASE exception_handler
  BY <1>10 DEF exception_handler
<1>11. CASE KeyPressed
  BY <1>11 DEF KeyPressed
<1> QED
  BY <1>1, <1>2, <1>3, <1>4, <1>5, <1>6, <1>7, <1>8, <1>9, <1>10, <1>11

\* init_8259A leaves the pair in the state PicInv asks for.
LEMMA Init8259AStep == IInv /\ init_8259A => IInv'
<1> SUFFICES ASSUME IInv, init_8259A PROVE IInv'
  OBVIOUS
<1> DEFINE Set(b, bits) == [icw |-> "ready", base |-> b, mask |-> bits, irr |-> {}, isr |-> {}]
<1>1. pic["m"] \in Chip /\ pic["s"] \in Chip
  BY DEF IInv, TypeInv
<1>2. /\ Programmed(pic["m"], 32, (0 .. 7) \ {1}) = Set(32, (0 .. 7) \ {1})
      /\ Programmed(pic["s"], 40, 0 .. 7) = Set(40, 0 .. 7)
  BY <1>1, Prog
<1>3. Set(32, (0 .. 7) \ {1}) \in Chip /\ Set(40, 0 .. 7) \in Chip
  BY DEF Chip
<1>4. /\ pic' \in [{"m", "s"} -> Chip]
      /\ pic'["m"] = Set(32, (0 .. 7) \ {1}) /\ pic'["s"] = Set(40, 0 .. 7)
  <2>1. pic' = [m |-> Set(32, (0 .. 7) \ {1}), s |-> Set(40, 0 .. 7)]
    BY <1>2 DEF init_8259A
  <2> HIDE DEF Set
  <2> QED
    BY <1>3, <2>1, BothChips
<1>5. TypeInv'
  BY <1>4 DEF IInv, TypeInv, init_8259A, cpu, tables
<1>6. PicInv' /\ ServiceInv'
  <2>1. pc' = <<"init_idt", pc[2]>>
    BY DEF init_8259A
  <2> QED
    BY <1>4, <2>1 DEF PicInv, ServiceInv
<1>7. BootInv' /\ VectorInv' /\ StackInv' /\ FrameInv'
  BY DEF IInv, TypeInv, BootInv, VectorInv, StackInv, FrameInv, init_8259A, cpu, tables
<1> QED
  BY <1>5, <1>6, <1>7 DEF IInv

\* The EOI ends the service of the request whose handler runs.
LEMMA EoiStep == IInv /\ Eoi => IInv'
<1> SUFFICES ASSUME IInv, Eoi PROVE IInv'
  OBVIOUS
<1> DEFINE done == [pic["m"] EXCEPT !.isr = {}]
<1>1. pic["m"] \in Chip /\ pic["m"].isr \in {{}, {1}}
  BY DEF IInv, TypeInv, ServiceInv, Eoi
<1>2. WriteCtl(pic["m"], FALSE) = done
  BY <1>1, EoiIs
<1>3. /\ done \in Chip /\ done.isr = {} /\ done.icw = pic["m"].icw
      /\ done.base = pic["m"].base /\ done.mask = pic["m"].mask
  BY <1>1 DEF Chip
<1>4. pic' \in [{"m", "s"} -> Chip] /\ pic'["m"] = done /\ pic'["s"] = pic["s"]
  <2>1. pic' = [pic EXCEPT !["m"] = done]
    BY <1>2 DEF Eoi
  <2> HIDE DEF done
  <2> QED
    BY <1>3, <2>1, OneChip DEF IInv
<1> HIDE DEF done
<1>5. /\ \/ pc[1] = "hw_eoi" /\ pc' = <<"iretd", pc[2]>>
         \/ pc[1] = "kb_eoi" /\ pc' = <<"kb_in", pc[2]>>
      /\ stack' = stack /\ pc[2] \in 0 .. 255
  BY DEF IInv, TypeInv, Eoi, cpu
<1>6. TypeInv'
  BY <1>4, <1>5 DEF IInv, TypeInv
<1>7. PicInv' /\ ServiceInv'
  BY <1>3, <1>4, <1>5 DEF IInv, PicInv, ServiceInv
<1>8. BootInv' /\ VectorInv' /\ StackInv' /\ FrameInv'
  BY DEF IInv, TypeInv, BootInv, VectorInv, StackInv, FrameInv, Eoi, cpu, tables
<1> QED
  BY <1>6, <1>7, <1>8 DEF IInv

\* A device latches a request; what the pair passes on does not depend on it.
LEMMA RequestStep == IInv /\ (KeyArrives \/ \E i \in Lines : LineRises(i)) => IInv'
<1> SUFFICES ASSUME IInv, KeyArrives \/ \E i \in Lines : LineRises(i) PROVE IInv'
  OBVIOUS
<1> DEFINE With(c, i) == [c EXCEPT !.irr = @ \cup {i}]
           Like(c, d) == /\ d \in Chip /\ d.isr = c.isr /\ d.icw = c.icw
                         /\ d.base = c.base /\ d.mask = c.mask
<1>1. pic["m"] \in Chip /\ pic["s"] \in Chip
  BY DEF IInv, TypeInv
<1>2. \A c \in Chip, i \in 0 .. 7 : Like(c, With(c, i))
  BY DEF Chip
<1>3. \A c \in Chip : Like(c, c)
  OBVIOUS
<1>4. UNCHANGED <<pc, cpu, tables>>
  BY DEF KeyArrives, LineRises
<1>5. /\ pic' \in [{"m", "s"} -> Chip]
      /\ Like(pic["m"], pic'["m"]) /\ Like(pic["s"], pic'["s"])
  <2>1. CASE KeyArrives
    <3>1. pic' = [pic EXCEPT !["m"] = With(pic["m"], 1)]
      BY <1>1, <2>1 DEF KeyArrives
    <3>2. Like(pic["m"], With(pic["m"], 1)) /\ Like(pic["s"], pic["s"])
      <4> HIDE DEF With, Like
      <4> QED
        BY <1>1, <1>2, <1>3
    <3> HIDE DEF With
    <3> QED
      BY <3>1, <3>2, OneChip DEF IInv
  <2>2. ASSUME NEW i \in Lines, LineRises(i)
        PROVE  /\ pic' \in [{"m", "s"} -> Chip]
               /\ Like(pic["m"], pic'["m"]) /\ Like(pic["s"], pic'["s"])
    <3>1. i \in 0 .. 15
      BY KernelAssumption
    <3>2. CASE i < 8
      <4>1. pic' = [pic EXCEPT !["m"] = With(pic["m"], i)]
        BY <1>1, <2>2, <3>2 DEF LineRises
      <4>2. Like(pic["m"], With(pic["m"], i)) /\ Like(pic["s"], pic["s"])
        <5> HIDE DEF With, Like
        <5> QED
          BY <1>1, <1>2, <1>3, <3>1, <3>2
      <4> HIDE DEF With
      <4> QED
        BY <4>1, <4>2, OneChip DEF IInv
    <3>3. CASE i >= 8
      <4> DEFINE master == IF i - 8 \in pic["s"].mask THEN pic["m"] ELSE With(pic["m"], 2)
      <4>1. pic' = [m |-> master, s |-> With(pic["s"], i - 8)]
        <5>1. ~(i < 8)
          BY <3>1, <3>3
        <5>2. CASE i - 8 \in pic["s"].mask
          <6>1. [pic["m"] EXCEPT !.irr = @] = pic["m"]
            BY <1>1 DEF Chip
          <6> QED
            BY <2>2, <5>1, <5>2, <6>1 DEF LineRises
        <5>3. CASE i - 8 \notin pic["s"].mask
          BY <2>2, <5>1, <5>3 DEF LineRises
        <5> QED
          BY <5>2, <5>3
      <4>2. Like(pic["m"], master) /\ Like(pic["s"], With(pic["s"], i - 8))
        <5>1. i - 8 \in 0 .. 7
          BY <3>1, <3>3
        <5> HIDE DEF With, Like
        <5> QED
          BY <1>1, <1>2, <1>3, <5>1
      <4> HIDE DEF With, master
      <4> QED
        BY <4>1, <4>2, BothChips
    <3> QED
      BY <3>1, <3>2, <3>3
  <2> QED
    BY <2>1, <2>2
<1> HIDE DEF With
<1>6. TypeInv' /\ PicInv' /\ ServiceInv'
  BY <1>4, <1>5 DEF IInv, TypeInv, PicInv, ServiceInv, cpu, tables
<1>7. BootInv' /\ VectorInv' /\ StackInv' /\ FrameInv'
  BY <1>4 DEF IInv, BootInv, VectorInv, StackInv, FrameInv, cpu, tables
<1> QED
  BY <1>6, <1>7 DEF IInv

\* hwint_master around its call: one word pushed, the same word popped.
LEMMA HwintStep == IInv /\ (HwPush \/ HwPop) => IInv'
<1> SUFFICES ASSUME IInv, HwPush \/ HwPop PROVE IInv'
  OBVIOUS
<1>1. UNCHANGED <<ifl, inNmi, tables, devices>>
  BY DEF HwPush, HwPop
<1>2. pc[2] = 39 /\ pc'[2] = 39 /\ idt
  BY DEF IInv, TypeInv, BootInv, VectorInv, HwPush, HwPop
<1>3. CASE HwPush
  <2>1. stack' = Append(BareFrame, "irq") /\ pc' = <<"hw_call", 39>> /\ pc[1] = "hw_push"
    BY <1>2, <1>3 DEF IInv, StackInv, HwPush
  <2>2. TypeInv' /\ StackInv' /\ FrameInv'
    BY <1>1, <2>1, Frames DEF IInv, TypeInv, StackInv, FrameInv, devices
  <2>3. BootInv' /\ PicInv' /\ ServiceInv' /\ VectorInv'
    BY <1>1, <2>1 DEF IInv, BootInv, PicInv, ServiceInv, VectorInv, devices, tables
  <2> QED
    BY <2>2, <2>3 DEF IInv
<1>4. CASE HwPop
  <2>1. stack' = BareFrame
    BY <1>4, Frames DEF IInv, StackInv, HwPop, Drop
  <2>2. pc' = <<"hw_eoi", 39>> /\ pc[1] = "hw_pop"
    <3>1. Irq = 7
      BY <1>2, HandlerKb DEF Irq
    <3> QED
      BY <1>2, <1>4, <3>1 DEF HwPop
  <2>3. TypeInv' /\ StackInv' /\ FrameInv'
    BY <1>1, <2>1, <2>2, Frames DEF IInv, TypeInv, StackInv, FrameInv, devices
  <2>4. BootInv' /\ PicInv' /\ ServiceInv' /\ VectorInv'
    BY <1>1, <2>2 DEF IInv, BootInv, PicInv, ServiceInv, VectorInv, devices, tables
  <2> QED
    BY <2>3, <2>4 DEF IInv
<1> QED
  BY <1>3, <1>4

\* iretd finds a bare frame and returns to the idle loop.
LEMMA IretdStep == IInv /\ Iretd => IInv'
<1> SUFFICES ASSUME IInv, Iretd PROVE IInv'
  OBVIOUS
<1>1. Len(stack) = 3 /\ Top(3) = BareFrame /\ Drop(3) = <<>>
  BY Frames DEF IInv, StackInv, Iretd, Top, Drop
<1>2. /\ stack' = <<>> /\ ifl' = TRUE /\ pc' = <<"idle", 0>> /\ pc[1] = "iretd"
      /\ UNCHANGED <<tables, devices>>
  BY <1>1 DEF Iretd, BareFrame
<1>3. TypeInv' /\ StackInv' /\ FrameInv'
  BY <1>2 DEF IInv, TypeInv, StackInv, FrameInv, devices
<1>4. BootInv' /\ PicInv' /\ ServiceInv' /\ VectorInv'
  BY <1>2 DEF IInv, BootInv, PicInv, ServiceInv, VectorInv, devices, tables
<1> QED
  BY <1>3, <1>4 DEF IInv

\* What an exception handler puts on top of the processor's frame.
LEMMA ExcPushed ==
  ASSUME NEW below \in Seq(Words), NEW v \in Exceptions,
         stack = below \o Frame(v, v \in HasErrCode), pc = <<"exc_push", v>>, ExcPush
  PROVE  stack' = below \o <<"eflags", "cs", "eip",
                             IF v \in HasErrCode THEN "code" ELSE "nocode", "vector">>
<1>1. CASE v \in HasErrCode
  <2>1. v \notin PushesDummy
    BY <1>1 DEF HasErrCode, PushesDummy
  <2>2. /\ stack = below \o <<"eflags", "cs", "eip", "code">>
        /\ stack' = stack \o <<>> \o <<"vector">>
    BY <1>1, <2>1 DEF ExcPush, Frame
  <2> QED
    BY <1>1, <2>2 DEF Words
<1>2. CASE v \notin HasErrCode
  <2>1. v \in PushesDummy
    BY <1>2 DEF HasErrCode, PushesDummy, Exceptions
  <2>2. /\ stack = below \o <<"eflags", "cs", "eip">>
        /\ stack' = stack \o <<"nocode">> \o <<"vector">>
    BY <1>2, <2>1 DEF ExcPush, Frame
  <2> QED
    BY <1>2, <2>2 DEF Words
<1> QED
  BY <1>1, <1>2

\* The exception handlers around their call.
LEMMA ExcStep == IInv /\ (ExcPush \/ ExcPop) => IInv'
<1> SUFFICES ASSUME IInv, ExcPush \/ ExcPop PROVE IInv'
  OBVIOUS
<1>1. UNCHANGED <<ifl, inNmi, tables, devices>> /\ pc = <<pc[1], pc[2]>>
  BY DEF IInv, TypeInv, ExcPush, ExcPop
<1>2. CASE ExcPush
  <2>1. pc = <<"exc_push", pc[2]>> /\ pc' = <<"exc_call", pc[2]>> /\ pc[2] \in Exceptions
    BY <1>1, <1>2 DEF IInv, VectorInv, ExcPush
  <2>2. PICK below \in Seq(Words) : stack = below \o Frame(pc[2], pc[2] \in HasErrCode)
    <3>1. pc[1] = "exc_push" /\ FrameInv
      BY <2>1 DEF IInv
    <3> HIDE DEF Boot, Running
    <3> QED
      BY <3>1 DEF FrameInv
  <2> DEFINE top == <<"eflags", "cs", "eip", IF pc[2] \in HasErrCode THEN "code" ELSE "nocode",
                      "vector">>
  <2>3. stack' = below \o top
    BY <1>2, <2>1, <2>2, ExcPushed
  <2>4. stack' \in Seq(Words)
    <3>1. top \in Seq(Words)
      BY DEF Words
    <3> QED
      BY <2>3, <3>1
  <2>5. FrameInv'
    BY <2>1, <2>3 DEF FrameInv
  <2>6. TypeInv' /\ StackInv'
    BY <1>1, <2>1, <2>4 DEF IInv, TypeInv, StackInv, devices
  <2>7. BootInv' /\ PicInv' /\ ServiceInv' /\ VectorInv'
    BY <1>1, <2>1 DEF IInv, BootInv, PicInv, ServiceInv, VectorInv, devices, tables
  <2> QED
    BY <2>5, <2>6, <2>7 DEF IInv
<1>3. CASE ExcPop
  <2>1. pc = <<"exc_pop", pc[2]>> /\ pc' = <<"hlt", pc[2]>>
    BY <1>1, <1>3 DEF ExcPop
  <2>2. stack' \in Seq(Words)
    BY <1>3 DEF IInv, TypeInv, ExcPop, Drop
  <2>3. TypeInv' /\ StackInv' /\ FrameInv'
    BY <1>1, <2>1, <2>2 DEF IInv, TypeInv, StackInv, FrameInv, devices
  <2>4. BootInv' /\ PicInv' /\ ServiceInv' /\ VectorInv'
    BY <1>1, <2>1 DEF IInv, BootInv, PicInv, ServiceInv, VectorInv, devices, tables
  <2> QED
    BY <2>3, <2>4 DEF IInv
<1> QED
  BY <1>2, <1>3

\* The interrupts that get through: the keyboard's, and the spurious one.
LEMMA InterruptStep == IInv /\ (Interrupt \/ SpuriousInterrupt) => IInv'
<1> SUFFICES ASSUME IInv, Interrupt \/ SpuriousInterrupt PROVE IInv'
  OBVIOUS
<1>1. /\ ifl /\ pc[1] = "idle" /\ UNCHANGED tables
      /\ pic["m"] \in Chip /\ pic["m"].base = 32 /\ pic["m"].mask = (0 .. 7) \ {1}
      /\ pic["m"].isr = {}
  BY DEF IInv, TypeInv, BootInv, PicInv, ServiceInv, Interrupt, SpuriousInterrupt
<1>2. CASE Interrupt
  <2> DEFINE ack == Ack(pic["m"], 1)
  <2>1. Passed(pic["m"]) # {}
    BY <1>2 DEF Interrupt
  <2>2. Min(Passed(pic["m"])) = 1
    BY <1>1, <2>1, KbOnly
  <2>3. pic' = [pic EXCEPT !["m"] = ack] /\ Enter(33, FALSE)
    <3>1. pic["m"].base + 1 = 33
      BY <1>1
    <3> QED
      BY <1>2, <2>2, <3>1, NotCascade
  <2>4. /\ ack \in Chip /\ ack.isr = {1} /\ ack.icw = pic["m"].icw
        /\ ack.base = pic["m"].base /\ ack.mask = pic["m"].mask
    BY <1>1, AckIs
  <2> HIDE DEF ack
  <2>5. pic' \in [{"m", "s"} -> Chip] /\ pic'["m"] = ack /\ pic'["s"] = pic["s"]
    BY <2>3, <2>4, OneChip DEF IInv
  <2>6. pc' = <<"kb_call", 33>> /\ stack' = BareFrame /\ ifl' = FALSE
    BY <1>1, <2>3, EnterIrq DEF IInv, Enter
  <2>7. TypeInv' /\ StackInv' /\ FrameInv'
    BY <2>5, <2>6, Frames DEF TypeInv, StackInv, FrameInv
  <2>8. PicInv' /\ ServiceInv'
    BY <1>1, <2>4, <2>5, <2>6 DEF IInv, PicInv, ServiceInv
  <2>9. BootInv' /\ VectorInv'
    BY <1>1, <2>6 DEF IInv, BootInv, VectorInv, tables
  <2> QED
    BY <2>7, <2>8, <2>9 DEF IInv
<1>3. CASE SpuriousInterrupt
  <2>1. Enter(39, FALSE) /\ UNCHANGED devices
    <3>1. pic["m"].base + 7 = 39
      BY <1>1
    <3> QED
      BY <1>3, <3>1 DEF SpuriousInterrupt
  <2>2. pc' = <<"hw_push", 39>> /\ stack' = BareFrame /\ ifl' = FALSE
    <3>1. pc' = <<"hw_push", 39>> /\ stack' = BareFrame
      BY <1>1, <2>1, EnterIrq DEF IInv
    <3> QED
      BY <2>1, <3>1 DEF Enter
  <2>3. TypeInv' /\ StackInv' /\ FrameInv'
    BY <2>1, <2>2, Frames DEF IInv, TypeInv, StackInv, FrameInv, devices
  <2>4. PicInv' /\ ServiceInv'
    BY <1>1, <2>1, <2>2 DEF IInv, PicInv, ServiceInv, devices
  <2>5. BootInv' /\ VectorInv'
    BY <1>1, <2>2 DEF IInv, BootInv, VectorInv, tables
  <2> QED
    BY <2>3, <2>4, <2>5 DEF IInv
<1> QED
  BY <1>2, <1>3

\* An exception at any point, in a handler too.
LEMMA FaultStep == ASSUME IInv, NEW v \in Faults, Fault(v) PROVE IInv'
<1> DEFINE frame == Frame(v, v \in HasErrCode)
<1>1. v \in Exceptions
  BY KernelAssumption DEF Exceptions
<1>2. Enter(v, v \in HasErrCode) /\ UNCHANGED <<tables, devices>>
  BY DEF Fault
<1>3. pc' = (IF idtr THEN <<"exc_push", v>> ELSE <<"reset", v>>) /\ ifl' = FALSE
  <2>1. pc' = (IF idtr THEN <<"exc_push", v>> ELSE <<"reset", v>>)
    <3>1. (v \in HasErrCode) \in BOOLEAN
      OBVIOUS
    <3> QED
      BY <1>1, <1>2, <3>1, EnterFault DEF IInv
  <2> QED
    BY <1>2, <2>1 DEF Enter
<1>4. stack' = stack \o frame /\ stack \in Seq(Words)
  BY <1>2 DEF IInv, TypeInv, Enter
<1>5. stack' \in Seq(Words)
  <2>1. frame \in Seq(Words)
    <3>1. CASE v \in HasErrCode
      BY <3>1 DEF Frame, Words
    <3>2. CASE v \notin HasErrCode
      BY <3>2 DEF Frame, Words
    <3> QED
      BY <3>1, <3>2
  <2> QED
    BY <1>4, <2>1
<1>6. v \in 0 .. 255
  BY <1>1 DEF Exceptions
<1>7. pc[1] \in Boot \cup Running \cup {"reset"}
  BY DEF IInv, TypeInv
<1>8. CASE idtr
  <2>1. pc' = <<"exc_push", v>> /\ pc[1] \in Running
    BY <1>3, <1>7, <1>8 DEF IInv, BootInv
  <2>2. FrameInv'
    BY <1>4, <2>1 DEF FrameInv
  <2>3. TypeInv' /\ StackInv' /\ VectorInv'
    BY <1>1, <1>2, <1>5, <1>6, <2>1 DEF IInv, TypeInv, StackInv, VectorInv, devices
  <2>4. BootInv' /\ PicInv' /\ ServiceInv'
    BY <1>2, <1>3, <2>1 DEF IInv, BootInv, PicInv, ServiceInv, devices, tables
  <2> QED
    BY <2>2, <2>3, <2>4 DEF IInv
<1>9. CASE ~idtr
  <2>1. pc' = <<"reset", v>>
    BY <1>3, <1>9
  <2>2. TypeInv' /\ StackInv' /\ VectorInv' /\ FrameInv'
    BY <1>2, <1>5, <1>6, <2>1 DEF IInv, TypeInv, StackInv, VectorInv, FrameInv, devices
  <2>3. BootInv' /\ PicInv' /\ ServiceInv'
    BY <1>2, <1>3, <1>9, <2>1 DEF IInv, BootInv, PicInv, ServiceInv, devices, tables
  <2> QED
    BY <2>2, <2>3 DEF IInv
<1> QED
  BY <1>8, <1>9

-----------------------------------------------------------------------------
\* A step that changes nothing.
LEMMA StutterStep == IInv /\ UNCHANGED vars => IInv'
<1> SUFFICES ASSUME IInv, UNCHANGED vars PROVE IInv'
  OBVIOUS
<1>1. TypeInv' /\ BootInv' /\ PicInv' /\ ServiceInv'
  BY DEF IInv, TypeInv, BootInv, PicInv, ServiceInv, vars
<1>2. VectorInv' /\ StackInv' /\ FrameInv'
  BY DEF IInv, VectorInv, StackInv, FrameInv, vars
<1> QED
  BY <1>1, <1>2 DEF IInv

\* Every step keeps the invariant.
LEMMA StepInv == IInv /\ [Next]_vars => IInv'
<1> SUFFICES ASSUME IInv, [Next]_vars PROVE IInv'
  OBVIOUS
<1>1. CASE Step
  BY <1>1, QuietStep, Init8259AStep, HwintStep, EoiStep, IretdStep, ExcStep DEF Step
<1>2. CASE Interrupt \/ SpuriousInterrupt
  BY <1>2, InterruptStep
<1>3. ASSUME NEW v \in Faults, Fault(v) PROVE IInv'
  BY <1>3, FaultStep
<1>4. CASE KeyPressed
  BY <1>4, QuietStep
<1>5. CASE KeyArrives \/ \E i \in Lines : LineRises(i)
  BY <1>5, RequestStep
<1>6. CASE UNCHANGED vars
  BY <1>6, StutterStep
<1> QED
  BY <1>1, <1>2, <1>3, <1>4, <1>5, <1>6 DEF Next

\* The invariant holds in every reachable state.
LEMMA AlwaysInv == Spec => []IInv
  BY InitInv, StepInv, PTL DEF Spec

\* Whatever devices and faults there are, interrupts are enabled only when both
\* tables are the kernel's, both 8259A are programmed and every interrupt that
\* can come has its own handler.
THEOREM HandlersAlwaysInPlace == Spec => []HandlersInPlace
<1>1. IInv => HandlersInPlace
  <2> SUFFICES ASSUME IInv, ifl PROVE HandlersInPlace
    BY DEF HandlersInPlace
  <2>1. pc[1] = "idle" /\ gdt /\ gdtr = "kernel" /\ idt /\ idtr
    BY DEF IInv, BootInv
  <2>2. /\ pic["m"].icw = "ready" /\ pic["s"].icw = "ready"
        /\ pic["m"].base = 32 /\ ((0 .. 7) \ pic["m"].mask) \cup {7} = {1, 7}
    BY <2>1 DEF IInv, PicInv
  <2>3. \A i \in {1, 7} : Handler(32 + i) = <<"hwint", i>>
    BY <2>1, HandlerKb
  <2> QED
    BY <2>1, <2>2, <2>3 DEF HandlersInPlace
<1> QED
  BY <1>1, AlwaysInv, PTL

\* No line but the keyboard's ever gets through, whichever devices raise theirs.
THEOREM OnlyKeyboardGetsThrough == Spec => []OnlyKeyboard
<1>1. IInv => OnlyKeyboard
  BY DEF IInv, BootInv, VectorInv, OnlyKeyboard
<1> QED
  BY <1>1, AlwaysInv, PTL

\* Every request is acknowledged once, by its own handler.
THEOREM RequestsAcknowledged == Spec => []AcknowledgedOnce
<1>1. IInv => AcknowledgedOnce
  BY DEF IInv, PicInv, ServiceInv, AcknowledgedOnce
<1> QED
  BY <1>1, AlwaysInv, PTL

\* However interrupts and faults nest, iretd finds the frame it pops.
THEOREM StackAlwaysBalanced == Spec => []IretdFindsFrame
<1>1. IInv => IretdFindsFrame
  BY DEF IInv, TypeInv, StackInv, IretdFindsFrame
<1> QED
  BY <1>1, AlwaysInv, PTL

\* However deep faults pile up, exception_handler finds its five words.
THEOREM FramesAlwaysComplete == Spec => []FrameComplete
<1>1. IInv => FrameComplete
  <2> SUFFICES ASSUME IInv, pc[1] = "exc_call" PROVE FrameComplete
    BY DEF FrameComplete
  <2> DEFINE top == <<"eflags", "cs", "eip", IF pc[2] \in HasErrCode THEN "code" ELSE "nocode",
                      "vector">>
  <2>1. PICK below \in Seq(Words) : stack = below \o top
    BY DEF IInv, FrameInv
  <2>2. top \in Seq(Words) /\ Len(top) = 5
    BY DEF Words
  <2> HIDE DEF top
  <2>3. /\ Len(stack) = Len(below) + 5 /\ Len(below) \in Nat
        /\ SubSeq(stack, Len(below) + 1, Len(below) + 5) = top
    <3>1. /\ Len(below \o top) = Len(below) + Len(top)
          /\ SubSeq(below \o top, Len(below) + 1, Len(below) + Len(top)) = top
      BY <2>2, TopOf
    <3> QED
      BY <2>1, <2>2, <3>1
  <2>4. Len(stack) - 5 + 1 = Len(below) + 1 /\ Len(stack) >= 5
    BY <2>3
  <2>5. Top(5) = top
    BY <2>3, <2>4 DEF Top
  <2> QED
    BY <2>4, <2>5 DEF FrameComplete, top
<1> QED
  BY <1>1, AlwaysInv, PTL

-----------------------------------------------------------------------------
\* The positions of the 256 rows on the screen, and all before the 257th.
Rows == {160 * r : r \in {n \in Nat : n <= 255}}
OnRows == {n \in Nat : n <= 40959}

\* The lengths of lines that fit into a row with a character to spare.
LineLens == {n \in Nat : n <= 79}

\* A newline and a line that fits leads from a row to a row.
LEMMA NextLineIs ==
  ASSUME NEW at \in OnRows, NEW len \in LineLens
  PROVE  /\ NextLine(at, len) \in OnRows
         /\ \E row \in Rows : NextLine(at, len) = row + 2 * len
<1> DEFINE r == (at \div 160 + 1) % 256
<1>1. at \in Nat /\ at <= 40959 /\ len \in Nat /\ len <= 79
  BY DEF OnRows, LineLens
<1>2. at \in Int /\ at >= -1 /\ at <= 65535 /\ at # -1
  BY <1>1
<1>3. at \div 160 \in Nat /\ at \div 160 <= 255
  BY <1>1
<1>4. ~(at \div 160 > 255)
  BY <1>3
<1>5. r \in Nat /\ r <= 255
  <2> DEFINE q == at \div 160
  <2>1. q + 1 \in Nat
    BY <1>3
  <2>2. r = (q + 1) % 256
    OBVIOUS
  <2> HIDE DEF q, r
  <2>3. (q + 1) % 256 \in Nat /\ (q + 1) % 256 <= 255
    BY <2>1
  <2> QED
    BY <2>2, <2>3, Zenon
<1>6. NextLine(at, len) = 160 * r + 2 * len
  <2> DEFINE line == [x \in DivideError .. 65535 |->
                        IF x = DivideError \/ x \div 160 > 255 THEN DivideError
                        ELSE 160 * ((x \div 160 + 1) % 256) + 2 * len]
  <2>1. NextLine(at, len) = line[at]
    BY DEF NextLine
  <2>2. at \in DivideError .. 65535 /\ at # DivideError
    BY <1>2 DEF DivideError
  <2> QED
    BY <1>4, <2>1, <2>2
<1> HIDE DEF r
<1>7. 160 * r \in Rows
  BY <1>5 DEF Rows
<1>8. 160 * r + 2 * len \in Nat /\ 160 * r + 2 * len <= 40959
  BY <1>1, <1>5
<1>9. NextLine(at, len) \in OnRows
  BY <1>6, <1>8 DEF OnRows
<1> QED
  BY <1>6, <1>7, <1>9

\* A text of at least two lines that begins on a row ends on one, behind the
\* characters of its last line.
LEMMA DispStrIs ==
  ASSUME NEW at \in Nat, NEW lines \in Seq(LineLens), Len(lines) >= 2,
         at + 2 * lines[1] \in OnRows
  PROVE  \E row \in Rows : disp_str(at, lines) = row + 2 * lines[Len(lines)]
<1> DEFINE N == Len(lines) - 1
           a == at + 2 * lines[1]
           next == [v \in (1 .. N) \X OnRows |-> NextLine(v[2], lines[v[1] + 1])]
           Is(c) == c = [n \in 0 .. N |-> IF n = 0 THEN a
                                          ELSE NextLine(c[n - 1], lines[n + 1])]
<1>1. N \in Nat /\ N >= 1 /\ N + 1 = Len(lines) /\ N \in 1 .. N
  OBVIOUS
<1>2. \A i \in 1 .. N : lines[i + 1] \in LineLens
  <2>1. \A i \in 1 .. N : i + 1 \in 1 .. Len(lines)
    OBVIOUS
  <2>2. \A j \in 1 .. Len(lines) : lines[j] \in LineLens
    OBVIOUS
  <2> HIDE DEF N
  <2> QED
    BY <2>1, <2>2
<1>3. next \in [(1 .. N) \X OnRows -> OnRows]
  BY <1>2, NextLineIs
<1>4. \E c \in [0 .. N -> OnRows] : Is(c)
  <2> HIDE DEF next, a, N
  <2>1. PICK c \in [0 .. N -> OnRows] : UnrollsTo(c, a, next, N)
    BY <1>1, <1>3, RecursionTo DEF a
  <2>2. ASSUME NEW i \in 0 .. N
        PROVE  (IF i = 0 THEN a ELSE next[<<i, c[i - 1]>>])
                 = (IF i = 0 THEN a ELSE NextLine(c[i - 1], lines[i + 1]))
    <3>1. CASE i # 0
      <4>1. i \in 1 .. N /\ c[i - 1] \in OnRows
        BY <1>1, <2>1, <3>1
      <4> QED
        BY <3>1, <4>1 DEF next
    <3> QED
      BY <3>1
  <2> QED
    BY <2>1, <2>2 DEF UnrollsTo
<1>5. disp_str(at, lines) = (CHOOSE c : Is(c))[N]
  BY DEF disp_str
<1>6. Is(CHOOSE c : Is(c))
  <2> HIDE DEF Is
  <2> QED
    BY <1>4
<1> DEFINE e == CHOOSE c : Is(c)
<1> HIDE DEF e, N, a
<1>7. e = [n \in 0 .. N |-> IF n = 0 THEN a ELSE NextLine(e[n - 1], lines[n + 1])]
  BY <1>6 DEF e
<1> HIDE DEF Is
<1>8. \A n \in Nat : n <= N => e[n] \in OnRows
  <2> DEFINE T == {n \in Nat : n <= N => e[n] \in OnRows}
  <2>1. 0 \in T
    BY <1>1, <1>7 DEF a
  <2>2. ASSUME NEW n \in T PROVE n + 1 \in T
    <3> SUFFICES ASSUME n + 1 <= N PROVE e[n + 1] \in OnRows
      OBVIOUS
    <3>1. n + 1 \in 0 .. N /\ n + 1 # 0 /\ (n + 1) - 1 = n /\ n + 1 \in 1 .. N
          /\ e[n] \in OnRows
      BY <1>1
    <3>2. e[n + 1] = NextLine(e[n], lines[(n + 1) + 1])
      BY <1>7, <3>1
    <3> QED
      BY <1>2, <3>1, <3>2, NextLineIs
  <2> HIDE DEF T
  <2>3. T \in SUBSET Nat
    BY DEF T
  <2>4. T = Nat
    BY <2>1, <2>2, <2>3, Induct
  <2> QED
    BY <2>4 DEF T
<1>9. e[N] = NextLine(e[N - 1], lines[Len(lines)]) /\ e[N - 1] \in OnRows
  <2>1. N - 1 \in Nat /\ N - 1 <= N /\ N \in 0 .. N /\ N # 0
    BY <1>1
  <2> QED
    BY <1>1, <1>7, <1>8, <2>1
<1>10. \E row \in Rows : e[N] = row + 2 * lines[Len(lines)]
  BY <1>1, <1>2, <1>9, NextLineIs
<1> QED
  BY <1>5, <1>10 DEF e

\* The types the code's progress does not need.
RestInv ==
  /\ ifl \in BOOLEAN /\ inNmi \in BOOLEAN
  /\ gdt \in BOOLEAN /\ gdtr \in {"loader", "kernel"}
  /\ idt \in BOOLEAN /\ idtr \in BOOLEAN
  /\ keys \in 0 .. KeyCap /\ obf \in BOOLEAN

\* Whatever was printed, disp_pos stands in the first 256 rows, and at the
\* beginning of one until an exception is reported.
DispInv ==
  /\ disp \in OnRows
  /\ pc[1] \in (Boot \cup Running) \ {"exc_push", "exc_call", "exc_pop", "hlt"} =>
       disp \in Rows

\* Whatever begins on a row with a line of at most 79 characters and ends with a
\* newline leads to a row.
LEMMA PrintedLines ==
  ASSUME NEW at \in Rows,
         NEW lines \in Seq(LineLens), Len(lines) >= 2, lines[Len(lines)] = 0
  PROVE  disp_str(at, lines) \in Rows
<1>1. PICK n \in Nat : n <= 255 /\ at = 160 * n
  BY DEF Rows
<1>2. lines[1] \in LineLens
  OBVIOUS
<1>3. at \in Nat /\ at + 2 * lines[1] \in OnRows
  BY <1>1, <1>2 DEF LineLens, OnRows
<1>4. PICK row \in Rows : disp_str(at, lines) = row + 2 * lines[Len(lines)]
  BY <1>3, DispStrIs
<1>5. row \in Nat
  BY DEF Rows
<1> QED
  BY <1>4, <1>5

\* A row is on the screen's rows.
LEMMA RowOnRows == Rows \subseteq OnRows
  BY DEF Rows, OnRows

\* The four texts of the running kernel do so.
LEMMA KernelTexts ==
  ASSUME NEW at \in Rows,
         NEW lines \in {CStartBegins, CStartFinished, TestStr, SpuriousIrq}
  PROVE  disp_str(at, lines) \in Rows
<1> DEFINE Text(t) == t \in Seq(LineLens) /\ Len(t) >= 2 /\ t[Len(t)] = 0
<1>1. Text(CStartBegins)
  <2>1. Len(CStartBegins) = 17 /\ CStartBegins[17] = 0 /\ CStartBegins \in Seq(LineLens)
    BY DEF CStartBegins, LineLens
  <2> QED
    BY <2>1
<1>2. Text(CStartFinished) /\ Text(TestStr) /\ Text(SpuriousIrq)
  BY DEF CStartFinished, TestStr, SpuriousIrq, LineLens
<1> HIDE DEF Text
<1>3. Text(lines)
  BY <1>1, <1>2
<1> QED
  BY <1>3, PrintedLines DEF Text

\* A report of an exception ends on the screen's rows.
LEMMA ReportOnRows == \A hasCode \in BOOLEAN : ReportEnds(hasCode) \subseteq OnRows
<1> SUFFICES ASSUME NEW hasCode \in BOOLEAN, NEW e \in ReportEnds(hasCode)
             PROVE  e \in OnRows
  OBVIOUS
<1>1. PICK a \in IntLen, b \in IntLen, c \in IntLen, d \in Description :
        e = disp_str(0, <<15 + d, 0, 7 + a + 3 + b + 4 + c
                                       + (IF hasCode THEN 11 + c ELSE 0)>>)
  BY DEF ReportEnds
<1> DEFINE last == 7 + a + 3 + b + 4 + c + (IF hasCode THEN 11 + c ELSE 0)
           lines == <<15 + d, 0, last>>
<1>2. /\ last \in LineLens /\ 15 + d \in LineLens /\ 0 \in LineLens
  BY DEF IntLen, Description, LineLens
<1> HIDE DEF last
<1>3. lines \in Seq(LineLens) /\ Len(lines) = 3 /\ lines[1] = 15 + d /\ lines[3] = last
  BY <1>2
<1>4. 0 + 2 * lines[1] \in OnRows
  BY <1>2, <1>3 DEF LineLens, OnRows
<1>5. e = disp_str(0, lines)
  BY <1>1 DEF last
<1> HIDE DEF lines
<1>6. PICK row \in Rows : e = row + 2 * last
  <2>1. Len(lines) >= 2 /\ lines[Len(lines)] = last
    BY <1>3
  <2> QED
    BY <1>3, <1>4, <1>5, <2>1, DispStrIs
<1> QED
  BY <1>2, <1>6 DEF Rows, LineLens, OnRows

\* The initial state is in the types.
LEMMA InitRest == Init => RestInv /\ DispInv
<1>1. 0 \in OnRows /\ 0 \in Rows
  BY DEF OnRows, Rows
<1>2. ASSUME Init PROVE RestInv
  <2>1. 0 \in 0 .. KeyCap
    <3>1. KeyCap \in Nat
      BY KernelAssumption
    <3> QED
      BY <3>1
  <2> QED
    BY <1>2, <2>1 DEF Init, RestInv
<1>3. ASSUME Init PROVE DispInv
  BY <1>1, <1>3 DEF Init, DispInv
<1> QED
  BY <1>2, <1>3

\* Every step keeps them.
LEMMA RestStep == RestInv /\ [Next]_vars => RestInv'
<1> SUFFICES ASSUME RestInv, [Next]_vars PROVE RestInv'
  OBVIOUS
<1> USE KernelAssumption DEF RestInv, cpu, tables, devices, Enter
<1>1. CASE Start \/ CStart \/ init_8259A \/ InitIdt \/ CStartEnds \/ LoadTables \/ Sti
  BY <1>1 DEF Start, CStart, init_8259A, InitIdt, CStartEnds, LoadTables, Sti
<1>2. CASE HwPush \/ spurious_irq \/ HwPop \/ test_str \/ Eoi \/ ReadKey \/ Iretd
  BY <1>2 DEF HwPush, spurious_irq, HwPop, test_str, Eoi, ReadKey, Iretd
<1>3. CASE ExcPush \/ exception_handler \/ ExcPop
  BY <1>3 DEF ExcPush, exception_handler, ExcPop
<1>4. CASE Interrupt
  BY <1>4 DEF Interrupt
<1>5. CASE SpuriousInterrupt
  BY <1>5 DEF SpuriousInterrupt
<1>6. ASSUME NEW v \in Faults, Fault(v) PROVE RestInv'
  BY <1>6 DEF Fault
<1>7. CASE KeyPressed
  BY <1>7 DEF KeyPressed
<1>8. CASE KeyArrives
  BY <1>8 DEF KeyArrives
<1>9. ASSUME NEW i \in Lines, LineRises(i) PROVE RestInv'
  BY <1>9 DEF LineRises
<1>10. CASE UNCHANGED vars
  BY <1>10 DEF vars
<1> QED
  BY <1>1, <1>2, <1>3, <1>4, <1>5, <1>6, <1>7, <1>8, <1>9, <1>10 DEF Next, Step

\* What a fault leads to, for disp_pos: a report, or a reset.
LEMMA FaultLeads ==
  ASSUME IInv, NEW v \in Faults, Fault(v)
  PROVE  pc'[1] \in {"exc_push", "reset"} /\ disp' = disp
<1>1. v \in Exceptions /\ (v \in HasErrCode) \in BOOLEAN
  BY KernelAssumption DEF Exceptions
<1>2. Enter(v, v \in HasErrCode) /\ disp' = disp
  BY DEF Fault
<1>3. pc' = (IF idtr THEN <<"exc_push", v>> ELSE <<"reset", v>>)
  BY <1>1, <1>2, EnterFault DEF IInv
<1> QED
  BY <1>2, <1>3

\* The steps that print keep disp_pos where it may be.
LEMMA PrintingStep ==
  ASSUME IInv, DispInv, CStart \/ CStartEnds \/ spurious_irq \/ test_str \/ exception_handler
  PROVE  DispInv'
<1>1. CASE exception_handler
  <2>1. (stack[Len(stack) - 1] = "code") \in BOOLEAN
    OBVIOUS
  <2>2. disp' \in OnRows
    BY <1>1, <2>1, ReportOnRows DEF exception_handler
  <2>3. pc' = <<"exc_pop", pc[2]>>
    BY <1>1 DEF exception_handler
  <2> QED
    BY <2>2, <2>3 DEF DispInv
<1>2. CASE CStart \/ CStartEnds \/ spurious_irq \/ test_str
  <2>1. disp \in Rows
    BY <1>2 DEF DispInv, CStart, CStartEnds, spurious_irq, test_str
  <2>2. disp' \in Rows
    BY <1>2, <2>1, KernelTexts DEF CStart, CStartEnds, spurious_irq, test_str
  <2> QED
    BY <2>2, RowOnRows DEF DispInv
<1> QED
  BY <1>1, <1>2

\* So does every step.
LEMMA DispStep == IInv /\ DispInv /\ [Next]_vars => DispInv'
<1> SUFFICES ASSUME IInv, DispInv, [Next]_vars PROVE DispInv'
  OBVIOUS
<1>0. pc = <<pc[1], pc[2]>> /\ pc[1] \in Boot \cup Running \cup {"reset"}
  BY DEF IInv, TypeInv
<1> USE DEF DispInv, cpu, tables, devices
<1>1. CASE Start
  <2>1. 0 \in OnRows /\ 0 \in Rows
    BY DEF OnRows, Rows
  <2> QED
    BY <1>1, <2>1 DEF Start
<1>2. CASE CStart \/ CStartEnds \/ spurious_irq \/ test_str \/ exception_handler
  BY <1>2, PrintingStep
<1>3. CASE init_8259A \/ InitIdt \/ LoadTables \/ Sti
  BY <1>3 DEF init_8259A, InitIdt, LoadTables, Sti
<1>4. CASE HwPush \/ HwPop \/ Eoi \/ ReadKey
  BY <1>4 DEF HwPush, HwPop, Eoi, ReadKey
<1>5. CASE Iretd
  BY <1>5 DEF Iretd
<1>6. CASE ExcPush \/ ExcPop
  BY <1>6 DEF ExcPush, ExcPop
<1>7. CASE Interrupt \/ SpuriousInterrupt
  <2>1. disp' = disp /\ disp \in Rows
    BY <1>7 DEF IInv, BootInv, Interrupt, SpuriousInterrupt
  <2> QED
    BY <2>1, RowOnRows
<1>8. ASSUME NEW v \in Faults, Fault(v) PROVE DispInv'
  BY <1>8, FaultLeads
<1>9. CASE KeyPressed \/ KeyArrives \/ \E i \in Lines : LineRises(i)
  BY <1>9 DEF KeyPressed, KeyArrives, LineRises
<1>10. CASE UNCHANGED vars
  BY <1>10 DEF vars
<1> QED
  BY <1>1, <1>2, <1>3, <1>4, <1>5, <1>6, <1>7, <1>8, <1>9, <1>10 DEF Next, Step

\* Together with the invariant of the kernel's progress they always hold.
LEMMA AlwaysDisp == Spec => [](IInv /\ RestInv /\ DispInv)
<1>1. Init => IInv /\ RestInv /\ DispInv
  BY InitInv, InitRest
<1>2. IInv /\ RestInv /\ DispInv /\ [Next]_vars => (IInv /\ RestInv /\ DispInv)'
  BY StepInv, RestStep, DispStep
<1> QED
  BY <1>1, <1>2, PTL DEF Spec

\* Every variable keeps its type, disp_pos included.
THEOREM TypeCorrect == Spec => []TypeOK
<1>1. IInv /\ RestInv /\ DispInv => TypeOK
  <2> SUFFICES ASSUME IInv, RestInv, DispInv PROVE TypeOK
    OBVIOUS
  <2>1. disp \in DivideError .. 65535
    <3>1. DivideError \in Int /\ DivideError <= 0
      BY DEF DivideError
    <3> QED
      BY <3>1 DEF DispInv, OnRows
  <2>2. pc \in Points \X (0 .. 255)
    BY DEF IInv, TypeInv, Points
  <2> QED
    BY <2>1, <2>2 DEF IInv, TypeInv, RestInv, TypeOK, Words
<1> QED
  BY <1>1, AlwaysDisp, PTL

\* However many keys, spurious interrupts and exceptions print, the division of
\* disp_str never overflows: mul bl wraps the row to the first 256.
THEOREM DisplayNeverFaults == Spec => []NoDisplayFault
<1>1. DispInv => NoDisplayFault
  BY DEF DispInv, OnRows, NoDisplayFault, DivideError
<1> QED
  BY <1>1, AlwaysDisp, PTL
=============================================================================

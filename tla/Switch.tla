-------------------------------- MODULE Switch --------------------------------
(***************************************************************************)
(* The access to the switch chip of the cache benchmark (bench/vtss):      *)
(* vtss_regop.c over the driver /dev/vitgenio, vtss.h, and the field       *)
(* macros of vtss_sparx_reg.h.  The ARM build; the stubs of the other      *)
(* builds read nothing.  The chip is looked at from the other side: an     *)
(* address the driver gets is decoded, and the register tables say which   *)
(* registers live there.                                                   *)
(***************************************************************************)
EXTENDS Integers, RegisterMap, FiniteSets

CONSTANTS
  Chips,      \* the builds: sets of preprocessor symbols
  Ports,      \* the ports looked at, besides the CPU's
  Kinds,      \* the headers built: "IFH", "VSH"
  Values,     \* by width, the values fields are given, as sets of their bits that are 1
  MaxPuts     \* bound: fields put into one header

ASSUME SwitchAssumption ==
  /\ Chips \subseteq Builds
  /\ Ports \subseteq Nat
  /\ \A w \in 1 .. 32 : Values[w] \subseteq SUBSET (0 .. w - 1)

VARIABLES
  chip,    \* the build
  vitfd,   \* the descriptor of the driver
  opened,  \* that descriptor is open
  last,    \* the last access: what was asked for, rc, the offset, *value
  kind,    \* the header being built
  word,    \* ifh1 and ifh0 (vsh2, vsh1): sets of the bits that are 1
  put      \* history: the value each field was given, as a set of bits

switchVars == <<chip, vitfd, opened, last, kind, word, put>>

VTSS_CHIP_PORTS == 7
VTSS_CHIP_PORTMASK == 0 .. VTSS_CHIP_PORTS - 1     \* its bits
VTSS_CHIP_PORT_CPU == VTSS_CHIP_PORTS
VTSS_CPU_RX_QUEUE_START == 1

(* the sub blocks frames are read from: words, or one FIFO a queue *)
DataSubs(c) == IF "SPARX_28" \in c THEN {0, 2, 4, 6} ELSE 0 .. 3

(* a register file of the chip: block, sub blocks, table *)
Files(c) ==
  { [blk |-> B_PORT, subs |-> Ports \cup {VTSS_CHIP_PORT_CPU},
     regs |-> PortMac(c) \cup PortFifo(c) \cup PortCategorizer(c) \cup PortCounters(c)
              \cup PortOldCounters(c)],
    [blk |-> B_ANALYZER, subs |-> {0}, regs |-> Analyzer(c)],
    [blk |-> B_MIIM, subs |-> {0}, regs |-> Miim],
    [blk |-> B_MIIM, subs |-> {S_MEMINIT(c)}, regs |-> Meminit],
    [blk |-> B_MIIM, subs |-> {S_ACL}, regs |-> When("SPARX_28" \in c, Acl(c))],
    [blk |-> B_MIIM, subs |-> {S_VAUI}, regs |-> When({"SPARX_28", "VAUI"} \subseteq c, Vaui)],
    [blk |-> B_CAPTURE, subs |-> DataSubs(c), regs |-> {<<"FRAME_DATA", S_CAPTURE_DATA>>}],
    [blk |-> B_CAPTURE, subs |-> S_CAPTURE_STATUS(c), regs |-> Capture(c)],
    [blk |-> B_CAPTURE, subs |-> {S_CAPTURE_RESET}, regs |-> CaptureReset(c)],
    [blk |-> B_ARBITER, subs |-> {0}, regs |-> Arbiter(c)],
    [blk |-> B_SYSTEM, subs |-> {0}, regs |-> System(c)] }

(* words, as sets of their bits that are 1: a block, sub block or register   *)
(* number (16 bits hold any), and val << n in a word of 32 bits              *)
Bits(n) == {i \in 0 .. 15 : (n \div (2 ^ i)) % 2 = 1}
Shifted(val, n) == {b + n : b \in val} \cap (0 .. 31)

(* the address the driver makes of an offset *)
Decoded(offset) ==
  <<{b - 12 : b \in offset \ (0 .. 11)}, {b - 8 : b \in offset \cap (8 .. 11)},
    offset \cap (0 .. 7)>>

(* the registers at an address of the chip *)
Owners(c, blk, sub, reg) ==
  UNION { { r[1] : r \in { s \in f.regs : reg \in s[2] .. s[2] + Length(c, s[1]) - 1 } } :
          f \in { g \in Files(c) : g.blk = blk /\ sub \in g.subs } }

NoAccess == [blk |-> 0, sub |-> 0, name |-> "none", reg |-> 0,
             rc |-> 0, asked |-> FALSE, offset |-> {}, value |-> "old"]

SwitchInit ==
  /\ chip \in Chips
  /\ vitfd = -1 /\ opened = FALSE
  /\ last = NoAccess
  /\ kind \in { k \in Kinds : k = "VSH" => "VSTAX" \in chip }
  /\ word = <<{}, {}>> /\ put = <<>>

(* open of /dev/vitgenio: 0 when the program was started without a stdin *)
vtss_vit_init ==
  /\ vitfd < 0 /\ last = NoAccess /\ put = <<>>
  /\ \/ \E fd \in {0, 3} : vitfd' = fd /\ opened' = TRUE
     \/ vitfd' = -1 /\ opened' = FALSE
  /\ UNCHANGED <<chip, last, kind, word, put>>

vtss_vit_exit ==
  /\ opened' = (opened /\ ~(vitfd > 0))
  /\ UNCHANGED <<chip, vitfd, last, kind, word, put>>

(* Mutant: the block shifted by four bits too many. *)
OffsetWide(blk, sub, reg) == Shifted(Bits(blk), 16) \cup Shifted(Bits(sub), 8) \cup Bits(reg)

Offset(blk, sub, reg) == Shifted(Bits(blk), 12) \cup Shifted(Bits(sub), 8) \cup Bits(reg)

(* vtss_io_pi_rd_fast: the ioctl fails on a closed descriptor, and may fail; *)
(* the value read is what the chip keeps at that address                     *)
vtss_io_pi_rd_fast(blk, sub, reg) ==
  LET offset == Offset(blk, sub, reg) IN
  (IF opened THEN {[rc |-> 0, asked |-> TRUE, offset |-> offset, value |-> "new"]} ELSE {})
    \cup {[rc |-> -1, asked |-> TRUE, offset |-> offset, value |-> "zero"]}

(* vtss_io_pi_rd: the path of the slow blocks is under #if 0, so rc is      *)
(* returned as the stack left it and *value is not written                  *)
vtss_io_pi_rd(blk, sub, reg) ==
  IF blk \in {B_CAPTURE, B_SYSTEM} THEN vtss_io_pi_rd_fast(blk, sub, reg)
  ELSE {[rc |-> rc, asked |-> FALSE, offset |-> {}, value |-> "old"] : rc \in {-1, 0, 1}}

(* Mutant: the sub block not looked at. *)
IllegalBlock(blk, sub) == blk \notin 1 .. 7

(* the switch of ht_rd_wr; block and port numbers are unsigned *)
Illegal(blk, sub) ==
  CASE blk = B_PORT -> /\ sub > VTSS_CHIP_PORTS \/ sub \notin VTSS_CHIP_PORTMASK
                       /\ sub # VTSS_CHIP_PORT_CPU
    [] blk = B_MIIM -> sub > S_MEMINIT(chip)
    [] blk \in {B_CAPTURE, B_PORT_HI} -> FALSE
    [] blk \in {B_ANALYZER, B_ARBITER, B_SYSTEM} -> sub # 0
    [] OTHER -> TRUE

(* ports from 16 on, none of which passes the check, are in B_PORT_HI *)
ht_rd_wr(blk, sub, reg) ==
  IF Illegal(blk, sub) THEN {[rc |-> -1, asked |-> FALSE, offset |-> {}, value |-> "old"]}
  ELSE IF blk = B_PORT /\ sub >= 16 THEN vtss_io_pi_rd(B_PORT_HI, sub - 16, reg)
  ELSE vtss_io_pi_rd(blk, sub, reg)

Access(blk, sub, name, reg) ==
  \E r \in ht_rd_wr(blk, sub, reg) :
    last' = [blk |-> blk, sub |-> sub, name |-> name, reg |-> reg,
             rc |-> r.rc, asked |-> r.asked, offset |-> r.offset, value |-> r.value]

(* any register of the chip, the cells of an array included, in its own sub *)
(* blocks and in Elsewhere, where only the unchecked capture block reaches   *)
(* the driver                                                                *)
Elsewhere == 15
ht_rd ==
  /\ \E f \in Files(chip) : \E r \in f.regs : \E sub \in f.subs \cup {Elsewhere},
        k \in 0 .. Length(chip, r[1]) - 1 :
       Access(f.blk, sub, r[1], r[2] + k)
  /\ UNCHANGED <<chip, vitfd, opened, kind, word, put>>

(* a sub block from the queue number, two apart as the FIFOs of SparX-28 lie; *)
(* what the oldest chips make of addr (143-146) is overwritten               *)
ht_cpurx_readbuffer ==
  /\ \E queue_no \in 1 .. 4 :
       Access(B_CAPTURE, S_CAPTURE_DATA + (queue_no - VTSS_CPU_RX_QUEUE_START) * 2,
              "FRAME_DATA", 0)
  /\ UNCHANGED <<chip, vitfd, opened, kind, word, put>>
-------------------------------------------------------------------------------
Fields == IF kind = "IFH" THEN IfhFields(chip) ELSE VshFields
O(f) == f[2]
Width(f) == f[3]

(* Mutant: bit 32 taken for the low word's. *)
IFH_PUT_Off(f, val) ==
  [word EXCEPT ![2] = @ \cup (IF O(f) > 32 THEN Shifted(val, O(f) - 32) ELSE {}),
               ![1] = @ \cup (IF O(f) > 32 THEN {} ELSE Shifted(val, O(f)))]

(* IFH_PUT and VSH_PUT *)
IFH_PUT(f, val) ==
  [word EXCEPT ![2] = @ \cup (IF O(f) > 31 THEN Shifted(val, O(f) - 32) ELSE {}),
               ![1] = @ \cup (IF O(f) > 31 THEN {} ELSE Shifted(val, O(f)))]

(* IFH_GET and VSH_GET: shift down, then the mask *)
IFH_GET(f) ==
  (IF O(f) > 31 THEN {b - (O(f) - 32) : b \in word[2]} ELSE {b - O(f) : b \in word[1]})
    \cap (0 .. Width(f) - 1)

(* a chip of revision A or B has one of the two cookies *)
Cookies == {"COOKIE_A", "COOKIE_B"}
Put ==
  /\ Cardinality(DOMAIN put) < MaxPuts
  /\ \E f \in Fields \ DOMAIN put :
       /\ f[1] \in Cookies => \A g \in DOMAIN put : g[1] \notin Cookies
       /\ \E val \in Values[Width(f)] :
            /\ word' = IFH_PUT(f, val)
            /\ put' = [g \in DOMAIN put \cup {f} |-> IF g = f THEN val ELSE put[g]]
  /\ UNCHANGED <<chip, vitfd, opened, last, kind>>

(* An access is judged by itself, none depends on another, and headers have *)
(* nothing to do with accesses: a behaviour makes one access or one header.  *)
SwitchNext ==
  \/ vtss_vit_init \/ vtss_vit_exit
  \/ last = NoAccess /\ put = <<>> /\ (ht_rd \/ ht_cpurx_readbuffer)
  \/ last = NoAccess /\ vitfd = -1 /\ Put

SwitchSpec == SwitchInit /\ [][SwitchNext]_switchVars
-------------------------------------------------------------------------------
(* Types; an offset has the 16 bits the driver decodes. *)
SwitchTypeOK ==
  /\ chip \in Chips /\ kind \in Kinds
  /\ vitfd \in {-1, 0, 3} /\ opened \in BOOLEAN
  /\ last.rc \in {-1, 0, 1} /\ last.asked \in BOOLEAN /\ last.offset \in SUBSET (0 .. 15)
  /\ last.value \in {"old", "new", "zero"}
  /\ word \in [1 .. 2 -> SUBSET (0 .. 31)]

(* The two registers of the SparX-28 the header itself puts at one address *)
(* (1009, 1035).                                                           *)
KnownAlias == {"MACRO_CTRL", "SGMII_TR_DBG"}

(* The frame data of queues 3 and 4 is asked of sub blocks 4 and 6 on every *)
(* chip (148), and only SparX-28 keeps frame data there: the others have a  *)
(* status register in the one and nothing in the other (52, 803-806).       *)
Misread(own) ==
  /\ "SPARX_28" \notin chip /\ last.name = "FRAME_DATA"
  /\ \/ last.sub = 4 /\ own = {"CAPREADP"}
     \/ last.sub = 6 /\ own = {}

(* On every chip, an access names the register it asks for and no other,    *)
(* but for the reads of Misread: what vtss_regop.c 17 makes of block, sub   *)
(* block and register is decoded to them by the driver, and no register or  *)
(* array of the map lies on another.  A register asked for where it does    *)
(* not live is refused before the driver sees it, with the exception of     *)
(* those of the unchecked capture block, and a read of the two blocks that  *)
(* are read at all succeeds only with the chip's value.                     *)
RightRegister ==
  last # NoAccess =>
    /\ last.asked => Decoded(last.offset) = <<Bits(last.blk), Bits(last.sub), Bits(last.reg)>>
    /\ last.sub # Elsewhere =>
         LET own == Owners(chip, last.blk, last.sub, last.reg) IN
         \/ own = {last.name}
         \/ last.name \in KnownAlias /\ own = KnownAlias
         \/ Misread(own)
    /\ last.sub = Elsewhere /\ last.blk # B_CAPTURE => last.rc = -1 /\ ~last.asked
    /\ last.blk \in {B_SYSTEM, B_CAPTURE} /\ last.rc = 0 => last.value = "new"

(* A field put into an empty header is read back as it was put, whatever    *)
(* else was put before or after: the fields of a chip do not overlap, and   *)
(* neither macro loses a bit at the border of the two words (893, 890, 962, *)
(* 965).                                                                    *)
FieldsReadBack == \A f \in DOMAIN put : IFH_GET(f) = put[f]
===============================================================================

------------------------------ MODULE RegisterMap ------------------------------
(***************************************************************************)
(* The register map of the switch chips (bench/vtss/vtss_sparx_reg.h and   *)
(* the chip sizes of vtss_state.h).  A chip c is the set of preprocessor   *)
(* symbols its build defines, without VTSS_ARCH_ and VTSS_FEATURE_; the    *)
(* Makefile defines none of them.  A table is a set of rows: the name of a *)
(* register, without R_<blk>_, and its address.                            *)
(***************************************************************************)
LOCAL INSTANCE Integers

(* the builds: the chips the headers tell apart *)
Builds ==
  {{}, {"STANSTED"}, {"STAPLEFORD"}, {"HAWX"}, {"SPARX", "SPARX_G8"},
   {"SPARX", "SPARX_G8", "SPARX_G5"}, {"SPARX", "SPARX_G24"},
   {"SPARX", "SPARX_28", "VAUI", "VSTAX"}, {"SPARX", "SPARX_28", "G_ROCX"}}

When(condition, rows) == IF condition THEN rows ELSE {}
Old(c) == c \cap {"STANSTED", "STAPLEFORD"} # {}

(* block and sub block numbers *)
B_PORT == 1
B_ANALYZER == 2
B_MIIM == 3
B_CAPTURE == 4
B_ARBITER == 5
B_PORT_HI == 6
B_SYSTEM == 7
S_MEMINIT(c) == IF "STANSTED" \in c THEN 1 ELSE 2
S_ACL == 3
S_VAUI == 4
S_CAPTURE_DATA == 0
S_CAPTURE_STATUS(c) == IF "HAWX" \in c THEN {4, 8} ELSE {4}
S_CAPTURE_RESET == 7

(* ports of a chip (vtss_state.h); vtss.h then says 7 for all of them *)
ChipPorts(c) ==
  CASE "HAWX" \in c -> 26 [] "SPARX_28" \in c /\ "G_ROCX" \notin c -> 28 [] OTHER -> 7
VTSS_CHIP_PGIDS == 64

PortMac(c) ==
  {<<"REGMODE", \h01>>, <<"MAC_CFG", \h00>>, <<"MACHDXGAP", \h02>>, <<"FCCONF", \h04>>,
   <<"FCMACHI", \h08>>, <<"FCMACLO", \h0C>>, <<"MAXLEN", \h10>>, <<"ADVPORTM", \h19>>,
   <<"TXUPDCFG", \h24>>}
  \cup When(Old(c), {<<"SHAPECONF", \h11>>, <<"POLICECONF", \h12>>, <<"MCSTORMCONF", \h13>>})
  \cup When("STAPLEFORD" \in c, {<<"TBISTAT", \h14>>, <<"TBICTRL", \h18>>})
  \cup When("HAWX" \in c, {<<"POL_CONF", \h12>>, <<"POL_LINE", \h13>>, <<"POL_MCAST", \h14>>,
                           <<"POL_BCAST", \h15>>, <<"POL_LINECIR", \h16>>})
  \cup When(c \cap {"HAWX", "SPARX_G24"} # {} \/ ("SPARX_28" \in c /\ "G_ROCX" \notin c),
            {<<"PCSCTRL", \h18>>, <<"SGMII_CFG", \h1A>>, <<"PCSSTAT", \h1C>>})
  \cup When("HAWX" \in c, {<<"SGMII_CMSEL", \h1B>>})
  \cup When("HAWX" \in c \/ ("SPARX_28" \in c /\ "G_ROCX" \notin c), {<<"SGMIIOBS", \h1D>>})
  \cup When("SPARX" \notin c, {<<"CFIDROP", \h25>>})
  \cup When("HAWX" \in c, {<<"WS_CONF", \h28>>, <<"WS_BUCK0", \h29>>, <<"WS_BUCK1", \h2A>>,
                           <<"WS_BUCK2", \h2B>>, <<"WS_BUCK3", \h2C>>, <<"WS_LINE", \h2D>>,
                           <<"POL_Q0PIR", \h2F>>, <<"POL_Q1PIR", \h30>>, <<"POL_Q2PIR", \h31>>,
                           <<"POL_Q3PIR", \h32>>, <<"POL_Q0CIR", \h33>>, <<"POL_Q1CIR", \h34>>,
                           <<"POL_Q2CIR", \h35>>, <<"POL_Q3CIR", \h36>>})
  \cup When("SPARX_G24" \in c, {<<"RATECONF", \h28>>})
  \cup When("SPARX_28" \in c, {<<"STACKCFG", \h25>>, <<"SHAPER_CFG", \h28>>,
                               <<"POLICER_CFG", \h29>>})

PortFifo(c) ==
  {<<"CPUTXDAT", \hC0>>, <<"MISCFIFO", \hC4>>, <<"MISCSTAT", \hC8>>, <<"FREEPOOL", \hD8>>}
  \cup When("SPARX" \notin c, {<<"POOLCFG", \hCC>>})
  \cup When("SPARX_28" \in c, {<<"MISCCFG", \hC5>>, <<"CPUTXHDR", \hCC>>})
  \cup When(Old(c), {<<"DROPCNT", \hD4>>, <<"DROPCFG", \hDC>>, <<"DBQHPRX", \hE8>>,
                     <<"DBQLPRX", \hEC>>, <<"DBQHPTX", \hF0>>, <<"DBQLPTX", \hF4>>})
  \cup When(c \cap {"HAWX", "SPARX"} # {}, {<<"Q_MISC_CONF", \hDF>>})
  \cup When(c \cap {"HAWX", "SPARX"} # {} /\ "SPARX_28" \notin c, {<<"Q_FLOWC_WM", \hDE>>})
  \cup When("HAWX" \in c, {<<"Q_DROP_WM", \hE0>>})
  \cup When("SPARX_G8" \in c, {<<"Q_DROP_WM_0", \hE0>>, <<"Q_DROP_WM_1", \hE1>>,
                               <<"Q_DROP_WM_2", \hE2>>, <<"Q_DROP_WM_3", \hE3>>})
  \cup When(c \cap {"SPARX_G24", "SPARX_28"} # {}, {<<"Q_EGRESS_WM", \hE0>>})
  \cup When("SPARX_28" \in c, {<<"Q_INGRESS_WM", \hE8>>})

PortCategorizer(c) ==
  When(Old(c), {<<"CATCONF", \h60>>, <<"CATTAG", \h64>>, <<"CATETHT", \h68>>, <<"CATDSAP", \h6C>>,
                <<"CATIPPRT", \h70>>, <<"CATPRIO", \h74>>, <<"CATDSMAPH", \h78>>,
                <<"CATDSMAPL", \h79>>, <<"CATPVID", \h7C>>, <<"CATPORT1", \h80>>,
                <<"CATPORT2", \h84>>, <<"CATPORT3", \h88>>, <<"CATPORT4", \h8C>>,
                <<"CATPORT5", \h90>>})
  \cup When("STANSTED" \in c, {<<"CATSUBTAG", \h65>>, <<"CATSUBPRIO", \h75>>,
                               <<"CATDSSUBMAPH", \h7A>>, <<"CATDSSUBMAPL", \h7B>>})
  \cup When(c \cap {"HAWX", "SPARX"} # {}, {<<"CAT_DROP", \h6E>>, <<"CAT_PR_MISC_L2", \h6F>>,
                                            <<"CAT_VLAN_MISC", \h79>>, <<"CAT_OTHER_CFG", \h7B>>,
                                            <<"CAT_GEN_PRIO_REMAP", \h7D>>})
  \cup When(c \cap {"HAWX", "SPARX"} # {} /\ "SPARX_28" \notin c,
            {<<"CAT_PR_DSCP_QOS", \h60>>, <<"CAT_PR_USR_PRIO", \h75>>,
             <<"CAT_PR_MISC_L3", \h77>>})
  \cup When("SPARX" \in c, {<<"CAT_PR_DSCP_VAL_0_3", \h61>>, <<"CAT_PORT_VLAN", \h7A>>})
  \cup When(c \cap {"SPARX_G8", "SPARX_G24"} # {}, {<<"CAT_PR_DSCP_VAL_4_6", \h62>>})
  \cup When("SPARX_G24" \in c, {<<"SIPCONF", \h63>>, <<"SIPADDR", \h64>>})
  \cup When("HAWX" \in c, {<<"CAT_FA_TAG_ANALYSIS", \h68>>, <<"CAT_CPU_8021D_DMAC", \h69>>,
                           <<"CAT_CPU_MISC", \h6D>>, <<"CAT_PR_TCPUDP_PORTS", \h70>>,
                           <<"CAT_PR_ETYPE", \h76>>, <<"CAT_PR_TCPUDP_QOS", \h78>>,
                           <<"CAT_VLAN_AB", \h7A>>, <<"CAT_CPU_QUEUE", \h7E>>})
  \cup When("SPARX_28" \in c, {<<"CAT_QCE0", \h80>>, <<"CAT_QCL_RANGE_CFG", \h8C>>,
                               <<"CAT_QCL_DEFAULT_CFG", \h8D>>})

PortCounters(c) ==
  When("SPARX_28" \in c, {<<"C_CNTDATA", \hDC>>, <<"C_CNTADDR", \hDD>>, <<"C_CLEAR", \h52>>})
  \cup When("SPARX_28" \notin c, {<<"C_RXOCT", \h50>>, <<"C_TXOCT", \h51>>})
  \cup When(Old(c), {<<"RXBADPKT", \h37>>, <<"RXCTRL", \h39>>, <<"TXERR", \h44>>})
  \cup When("STANSTED" \in c, {<<"C_RXPAUSE", \h3D>>, <<"C_TXPAUSE", \h3E>>,
                               <<"C_RXCATDROP", \h3F>>})
  \cup When("HAWX" \in c, {<<"RXCTRL", \h3F>>, <<"TXERR", \h40>>, <<"C_RXJUMBO", \h41>>,
                           <<"C_TXJUMBO", \h42>>})
  \cup When("SPARX_G8" \in c, {<<"C_RX0", \h52>>, <<"C_RX1", \h53>>, <<"C_RX2", \h54>>,
                               <<"C_TX0", \h55>>, <<"C_TX1", \h56>>, <<"C_TX2", \h57>>,
                               <<"CNT_CTRL_CFG", \h58>>})
  \cup When("SPARX_G24" \in c, {<<"C_RX0", \h52>>, <<"C_RX1", \h53>>, <<"C_RX2", \h54>>,
                                <<"C_RX3", \h55>>, <<"C_RX4", \h56>>, <<"C_TX0", \h57>>,
                                <<"C_TX1", \h58>>, <<"C_TX2", \h59>>, <<"C_TX3", \h5A>>,
                                <<"C_TX4", \h5B>>, <<"CNT_CTRL_CFG", \h5C>>,
                                <<"CNT_CTRL_CFG2", \h5D>>})

(* the counters of the chips before SPARX *)
PortOldCounters(c) ==
  When(Old(c) \/ "HAWX" \in c, {<<"C_RXDROP", \hA0>>, <<"C_RXPKT", \hA1>>, <<"C_RXBC", \hA2>>,
                                <<"C_RXMC", \hA3>>, <<"C_RXCRC", \hA4>>, <<"C_RXSHT", \hA5>>,
                                <<"C_RXLONG", \hA6>>, <<"C_RXFRAG", \hA7>>, <<"C_RXJAB", \hA8>>,
                                <<"C_RX64", \hA9>>, <<"C_RX65", \hAA>>, <<"C_RX128", \hAB>>,
                                <<"C_RX256", \hAC>>, <<"C_RX512", \hAD>>, <<"C_RX1024", \hAE>>,
                                <<"C_TXDROP", \hAF>>, <<"C_TXPKT", \hB0>>, <<"C_TXBC", \hB1>>,
                                <<"C_TXMC", \hB2>>, <<"C_TXCOL", \hB3>>, <<"C_TX64", \hB4>>,
                                <<"C_TX65", \hB5>>, <<"C_TX128", \hB6>>, <<"C_TX256", \hB7>>,
                                <<"C_TX512", \hB8>>, <<"C_TX1024", \hB9>>, <<"C_TXOVFL", \hBA>>})
  \cup When(Old(c), {<<"C_RXHP", \hBB>>, <<"C_RXLP", \hBC>>, <<"C_TXHP", \hBD>>,
                     <<"C_TXLP", \hBE>>})
  \cup When("HAWX" \in c, {<<"C_RXPAUSE", \hBB>>, <<"C_TXPAUSE", \hBC>>, <<"C_RXCATDROP", \hBD>>,
                           <<"C_RXBWDROP", \hBE>>, <<"RXBADPKT", \hBF>>, <<"C_RXCLASS0", \hE8>>,
                           <<"C_RXCLASS1", \hE9>>, <<"C_RXCLASS2", \hEA>>, <<"C_RXCLASS3", \hEB>>,
                           <<"C_RXCLASS4", \hEC>>, <<"C_RXCLASS5", \hED>>, <<"C_RXCLASS6", \hEE>>,
                           <<"C_RXCLASS7", \hEF>>, <<"C_TXCLASS0", \hF0>>, <<"C_TXCLASS1", \hF1>>,
                           <<"C_TXCLASS2", \hF2>>, <<"C_TXCLASS3", \hF3>>, <<"C_TXCLASS4", \hF4>>,
                           <<"C_TXCLASS5", \hF5>>, <<"C_TXCLASS6", \hF6>>, <<"C_TXCLASS7", \hF7>>,
                           <<"C_RXPOLDROP0", \hF8>>, <<"C_RXPOLDROP1", \hF9>>,
                           <<"C_RXPOLDROP2", \hFA>>, <<"C_RXPOLDROP3", \hFB>>})

Analyzer(c) ==
  {<<"ADVLEARN", \h03>>, <<"IFLODMSK", \h04>>, <<"VLANMASK", \h05>>, <<"MACHDATA", \h06>>,
   <<"MACLDATA", \h07>>, <<"ANMOVED", \h08>>, <<"ANAGEFIL", \h09>>, <<"ANEVENTS", \h0A>>,
   <<"ANCNTMSK", \h0B>>, <<"ANCNTVAL", \h0C>>, <<"LERNMASK", \h0D>>, <<"UFLODMSK", \h0E>>,
   <<"MFLODMSK", \h0F>>, <<"RECVMASK", \h10>>, <<"AGGRCNTL", \h20>>, <<"AGGRMSKS", \h30>>,
   <<"DSTMASKS", \h40>>, <<"SRCMASKS", \h80>>, <<"MACACCES", \hB0>>, <<"MACTINDX", \hC0>>,
   <<"VLANACES", \hD0>>, <<"VLANTINDX", \hE0>>, <<"AGENCNTL", \hF0>>}
  \cup When("SPARX_G8" \in c, {<<"STORMLIMIT", \h02>>})
  \cup When("SPARX" \in c, {<<"CAPENAB", \hA0>>})
  \cup When("SPARX_G5" \in c, {<<"I6FLODMSK", \h11>>})
  \cup When(c \cap {"SPARX_G24", "SPARX_28"} # {}, {<<"CAPQUEUE", \hA1>>, <<"LEARNDROP", \hA2>>,
                                                    <<"LEARNAUTO", \hA3>>, <<"LEARNCPU", \hA4>>,
                                                    <<"STORMLIMIT", \hAA>>,
                                                    <<"STORMLIMIT_ENA", \hAB>>})
  \cup When("SPARX_G24" \in c, {<<"ARP_IP0", \hA5>>, <<"ARP_IP1", \hA6>>,
                                <<"TCPUDP_PORTS", \hA7>>})
  \cup When("SPARX_28" \in c, {<<"CAPQUEUEGARP", \hA8>>, <<"ACLPOLIDX", \hA9>>,
                               <<"PVLAN_MASK", \hAC>>, <<"I6FLODMSK", \hAD>>,
                               <<"STORMPOLUNIT", \hAE>>, <<"AUTOAGE", \hB1>>,
                               <<"STACKPORTSA", \hF1>>, <<"STACKPORTSB", \hF2>>,
                               <<"STACKCFG", \hF3>>, <<"MIRRORPORTS", \hF4>>,
                               <<"DSCPMODELOW", \hF8>>, <<"DSCPMODEHIGH", \hF9>>,
                               <<"DSCPSELLOW", \hFA>>, <<"DSCPSELHIGH", \hFB>>,
                               <<"EMIRRORMASK", \hFC>>})
  \cup When("HAWX" \in c, {<<"LEARNDROP", \hA0>>, <<"LEARNAUTO", \hA1>>, <<"LEARNCPU", \hA2>>})
  \cup When(c \cap {"HAWX", "SPARX_G8"} # {}, {<<"IPMCACCESS", \hB1>>})

(* the three to five small blocks that share number 3 *)
Miim ==
  {<<"MIIMSTAT", 0>>, <<"MIIMCMD", 1>>, <<"MIIMDATA", 2>>, <<"MIIMPRES", 3>>, <<"MIIMSCAN", 4>>,
   <<"MIIMSRES", 5>>}
Meminit == {<<"MEMINIT", 0>>, <<"MEMRES", 1>>}

(* an entry of the access control list: seven kinds, in a data image and in *)
(* a mask image                                                             *)
AceData(o) ==
  {<<"DATA_ETYPE", o>>, <<"DATA_LLC", o + 8>>, <<"DATA_SNAP", o + 16>>, <<"DATA_ARP", o + 24>>,
   <<"DATA_UDP_TCP", o + 32>>, <<"DATA_IPV4", o + 40>>, <<"DATA_IPV6", o + 48>>}
AceMask(o) ==
  {<<"MASK_ETYPE", o>>, <<"MASK_LLC", o + 8>>, <<"MASK_SNAP", o + 16>>, <<"MASK_ARP", o + 24>>,
   <<"MASK_UDP_TCP", o + 32>>, <<"MASK_IPV4", o + 40>>, <<"MASK_IPV6", o + 48>>}

(* the access control list; TCP_RNG: pairs of enable and value *)
AclRocx ==
  {<<"TCP_RNG", \h09>>, <<"IN_VLD", \h89>>, <<"IN_MISC_CFG", \h8A>>, <<"IN_REDIR_CFG", \h8B>>,
   <<"IN_CNT", \h8C>>, <<"EG_VLD", \h8D>>, <<"EG_MISC", \h8E>>, <<"EG_PORT_MASK", \h8F>>,
   <<"EG_CNT", \h90>>, <<"UPDATE_CTRL", \h91>>, <<"MV_CFG", \h92>>, <<"STATUS", \h93>>,
   <<"STICKY", \h94>>}
  \cup AceData(\h19) \cup AceMask(\h51)
AclSparx28 ==
  {<<"TCP_RNG", \h1D>>, <<"IN_VLD", \h9D>>, <<"IN_MISC_CFG", \h9E>>, <<"IN_REDIR_CFG", \h9F>>,
   <<"IN_CNT", \hA0>>, <<"EG_VLD", \hA1>>, <<"EG_PORT_MASK", \hA2>>, <<"EG_CNT", \hA3>>,
   <<"UPDATE_CTRL", \hA5>>, <<"MV_CFG", \hA6>>, <<"STATUS", \hA7>>, <<"STICKY", \hA8>>}
  \cup AceData(\h2D) \cup AceMask(\h65)
Acl(c) ==
  {<<"ACL_CFG", \h00>>, <<"PAG_CFG", \h01>>} \cup (IF "G_ROCX" \in c THEN AclRocx ELSE AclSparx28)

Vaui ==
  {<<"LCPLL_CFG", \h00>>, <<"LCPLL_TEST_CFG", \h01>>, <<"LCPLL_STATUS", \h02>>,
   <<"RCOMP_CFG", \h03>>, <<"LANE_CFG", \h04>>, <<"LANE_TEST_CFG", \h05>>, <<"IB_CFG", \h06>>,
   <<"OB_CFG", \h07>>, <<"LANE_STATUS", \h14>>, <<"IB_STATUS", \h15>>,
   <<"LANE_TESTPATTERN_CFG", \h1C>>, <<"SIGDET_CFG", \h1D>>, <<"SIGDET_TEST", \h1E>>,
   <<"ANEG_CFG", \h1F>>, <<"ANEG_TEST", \h20>>, <<"ANEG_ADV_ABILITY_0", \h21>>,
   <<"ANEG_ADV_ABILITY_1", \h22>>, <<"ANEG_NEXT_PAGE_0", \h23>>, <<"ANEG_NEXT_PAGE_1", \h24>>,
   <<"ANEG_LP_ADV_ABILITY_0", \h37>>, <<"ANEG_LP_ADV_ABILITY_1", \h38>>, <<"ANEG_STATUS", \h39>>,
   <<"ANEG_DEBUG", \h3A>>}

Arbiter(c) ==
  {<<"ARBEMPTY", \h0C>>, <<"ARBDISC", \h0E>>}
  \cup When(c \cap {"HAWX", "SPARX_G8"} # {}, {<<"SBACKWDROP", \h12>>, <<"DBACKWDROP", \h13>>})
  \cup When(c \cap {"HAWX", "SPARX"} # {}, {<<"ARBBURSTPROB", \h15>>})
  \cup When(c \cap {"HAWX", "SPARX_G24"} # {}, {<<"ARBDDPROB", \h16>>, <<"ARBDDENAB", \h17>>})
  \cup When("SPARX_28" \in c, {<<"ARBHOLBPENAB", \h17>>})
  \cup When("SPARX_G24" \in c, {<<"RATEUNIT", \h18>>})

System(c) ==
  {<<"CPUMODE", \h00>>, <<"SIPAD", \h01>>, <<"PICONF", \h02>>, <<"HWSEM", \h13>>,
   <<"GLORESET", \h14>>, <<"CHIPID", \h18>>, <<"TIMECMP", \h24>>, <<"SLOWDATA", \h2C>>,
   <<"CPUCTRL", \h30>>, <<"GPIO", \h34>>}
  \cup When("SPARX_G8" \in c, {<<"GMIIDELAY", \h05>>})
  \cup When(c \cap {"HAWX", "SPARX"} # {}, {<<"CAPCTRL", \h31>>})
  \cup When("SPARX" \in c, {<<"SIMASTER", \h35>>, <<"SGMII_TR_DBG", \h08>>, <<"ICPU_CTRL", \h10>>,
                            <<"ICPU_ADDR", \h11>>, <<"ICPU_DATA", \h12>>})
  \cup When("SPARX_28" \in c, {<<"MACRO_CTRL", \h08>>, <<"GPIOCTRL", \h33>>, <<"RATEUNIT", \h36>>,
                               <<"LEDTIMER", \h3C>>, <<"LEDMODES", \h3D>>})

(* the capture buffer's status and reset sub blocks *)
Capture(c) ==
  When("SPARX_28" \notin c, {<<"CAPREADP", 0>>, <<"CAPWRP", 3>>})
  \cup When("SPARX_G24" \in c, {<<"CAPDROPCNT", 4>>})
CaptureReset(c) == When("SPARX_28" \notin c, {<<"CAPRST", \hFF>>})

(* the registers of an array that starts with r *)
Length(c, r) ==
  CASE r = "AGGRMSKS" -> 16
    [] r = "DSTMASKS" -> VTSS_CHIP_PGIDS
    [] r = "SRCMASKS" -> ChipPorts(c)
    [] r = "CAT_PR_TCPUDP_PORTS" -> 5
    [] r = "CAT_QCE0" -> 12
    [] r = "Q_INGRESS_WM" -> 6
    [] r = "TCP_RNG" -> IF "G_ROCX" \in c THEN 16 ELSE 15
    [] r \in {"DATA_LLC", "DATA_SNAP", "MASK_LLC", "MASK_SNAP"} -> 7
    [] r \in {"DATA_ETYPE", "DATA_ARP", "DATA_UDP_TCP", "DATA_IPV4", "DATA_IPV6",
              "MASK_ETYPE", "MASK_ARP", "MASK_UDP_TCP", "MASK_IPV4", "MASK_IPV6"} -> 6
    [] OTHER -> 1

(* the internal frame header: the name, lowest bit and width of each field *)
IfhFields(c) ==
  {<<"LENGTH", 48, 14>>}
  \cup When(Old(c) \/ "HAWX" \in c, {<<"PORT", 32, 5>>})
  \cup When(c \cap {"SPARX_G24", "SPARX_28"} # {}, {<<"PORT", 42, 5>>})
  \cup When("SPARX_G8" \in c, {<<"PORT", 32, 3>>})
  \cup When(Old(c), {<<"TAGGED", 12, 1>>, <<"COOKIE", 0, 11>>})
  \cup When(c \cap {"HAWX", "SPARX_G8", "SPARX_G24"} # {}, {<<"TAGGED", 63, 1>>})
  \cup When("SPARX_28" \in c, {<<"TAGGED", 5, 1>>, <<"LEARN", 4, 1>>})
  \cup When("SPARX" \in c, {<<"UPRIO", 29, 3>>, <<"CFI", 28, 1>>, <<"VID", 16, 12>>})
  \cup When("SPARX" \notin c, {<<"UPRIO", 28, 3>>, <<"CFI", 27, 1>>, <<"VID", 15, 12>>})
  \cup When("HAWX" \in c, {<<"LEARN", 31, 1>>, <<"COOKIE_A", 4, 9>>, <<"COOKIE_B", 5, 8>>})
  \cup When(Old(c) \/ c \cap {"SPARX_G8", "SPARX_G24"} # {}, {<<"LEARN", 13, 1>>})
  \cup When(c \cap {"SPARX_G8", "SPARX_G24"} # {}, {<<"COOKIE", 4, 9>>})
  \cup When("VSTAX" \in c, {<<"VSTAX", 63, 1>>, <<"STACK_B", 14, 1>>, <<"STACK_A", 13, 1>>})

(* the stacking header below its two constant words ETYPE and EPID *)
VshFields ==
  {<<"FORMAT", 63, 1>>, <<"DP", 61, 2>>, <<"SPRIO", 59, 1>>, <<"IPRIO", 56, 3>>, <<"IDM", 55, 1>>,
   <<"DMAC_UNKN", 53, 1>>, <<"TTL", 48, 5>>, <<"LRN_SKIP", 47, 1>>, <<"FWD_MODE", 44, 3>>,
   <<"DST_UID", 37, 5>>, <<"DST_PORT", 32, 5>>, <<"UPRIO", 29, 3>>, <<"CFI", 28, 1>>,
   <<"VID", 16, 12>>, <<"TAGGED", 15, 1>>, <<"STAG", 14, 1>>, <<"ISOLATED", 13, 1>>,
   <<"SRC_MODE", 10, 1>>, <<"SRC_UID", 5, 5>>, <<"SRC_PORT", 0, 5>>}
===============================================================================

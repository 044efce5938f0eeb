---------------------------- MODULE FramerSetup ----------------------------
(***************************************************************************)
(* The firmware's start-up: what main of tedium-soc/src/main.rs makes of   *)
(* the framer chip before its loop, as a program for RegisterProgram, over *)
(* the registers of FramerDevice.  Delays and messages to the UART are     *)
(* left out; no access fails (its error type has no values).               *)
(***************************************************************************)
EXTENDS FramerDevice, SequencesExt

CONSTANTS
  ChannelsCount,   \* bound: 8 in the chip
  TimeslotsCount,  \* bound: 24 in a T1 frame
  DumpReads,       \* bound: registers that a dump reads, 256
  BufferReads      \* bound: bytes read of each HDLC buffer, 96

Channels == 0..(ChannelsCount - 1)
Timeslots == 0..(TimeslotsCount - 1)

step(op, address, bits) == [op |-> op, at |-> address, bits |-> bits]
write(register, values) == step("write", register.address, with(register.layout, values))
modify(register, values) == step("modify", register.address, with(register.layout, values))
read(register) == step("read", register.address, <<>>)
control(op) == step(op, 0, <<>>)

(* Every field of these names, set to one value. *)
all(names, value) == [n \in names |-> value]

-----------------------------------------------------------------------------
configure_timeslot(s) ==
  <<write(s.tccr, [LAPDcntl |-> TransmitLAPDSource.TSDLSR_TxDE,
                   TxZERO |-> ZeroCodeSuppression.None,
                   TxCOND |-> ChannelConditioning.Unchanged]),
    write(s.tucr, [TUCR |-> 23]),
    write(s.tscr, [A_x |-> 0, B_y |-> 1, C_x |-> 0, D_x |-> 1, Rob_Enb |-> 1,
                   TxSIGSRC |-> ChannelSignalingSource.TSCR]),
    write(s.rccr, [LAPDcntl |-> ReceiveLAPDSource.RSDLSR_RxDE,
                   RxZERO |-> ZeroCodeSuppression.None,
                   RxCOND |-> ChannelConditioning.Unchanged]),
    write(s.rucr, [RxUSER |-> 255]),
    write(s.rscr, [SIGC_ENB |-> 0, OH_ENB |-> 0, DEB_ENB |-> 1,
                   RxSIGC |-> ReceiveSignalingConditioning.SixteenCode_ABCD,
                   RxSIGE |-> ReceiveSignalingExtraction.SixteenCode_ABCD]),
    write(s.rssr, all({"SIG_16A_4A_2A", "SIG_16B_4B_2A", "SIG_16C_4A_2A", "SIG_16D_4B_2A"}, 0))>>

configure_channel(c) ==
  LET r == Channel(c)
  IN  <<write(r.csr, [LCV_Insert |-> 0, Set_T1_Mode |-> 1,
                      Sync_All_Transmitters_to_8kHz |-> 0, Clock_Loss_Detect |-> 1,
                      CSS |-> ClockSource.External]),
        write(r.licr, [FORCE_LOS |-> 0, Single_Rail_Mode |-> 0, LB |-> FramerLoopback.No,
                       Encode_B8ZS |-> 0, Decode_AMI_B8ZS |-> 0]),
        write(r.fsr, [Signaling_update_on_Superframe_Boundaries |-> 1,
                      Force_CRC_Errors |-> 0, J1_MODE |-> 0, ONEONLY |-> 1, FASTSYNC |-> 0,
                      FSI |-> T1Framing.ExtendedSuperFrame]),
        write(r.smr, all({"MFRAMEALIGN", "MSYNC", "Transmit_Frame_Sync_Select",
                          "CRC6_Bits_Source_Select", "Framing_Bits_Source_Select"}, 0)),
        write(r.fcr, [Reframe |-> 0, Framing_with_CRC_Checking |-> 1,
                      LOF_Tolerance |-> 2, LOF_Range |-> 5]),
        modify(r.dlcr1, all({"SLC96_Data_Link_Enable", "MOS_ABORT_Disable", "Rx_FCS_DIS",
                             "AutoRx", "Tx_ABORT", "Tx_IDLE", "Tx_FCS_EN"}, 0)
                        @@ [MOS_BOSn |-> 1]),
        modify(r.tsprmcr, all({"FC_Bit", "PA_Bit", "U1_Bit", "U2_Bit", "R_Bit"}, 0)),
        modify(r.prcr, [LBO_ADJ_ENB |-> 0, FAR_END |-> 0, NPRM |-> 0, C_R_Bit |-> 0,
                        APCR |-> AutomaticPerformanceReport.EverySecond]),
        write(r.sbcr, [TxSB_ISFIFO |-> 0, SB_FORCESF |-> 0, SB_SFENB |-> 0, SB_SDIR |-> 1,
                       SB_ENB |-> ReceiveSlipBuffer.SlipBuffer]),
        write(r.ticr, all({"TxSyncFrD", "TxPLClkEnb_TxSync_Is_Low", "TxFr1544", "TxICLKINV",
                           "TxIMODE"}, 0)),
        write(r.ricr, all({"RxSyncFrD", "RxPLClkEnb_RxSync_Is_Low", "RxICLKINV", "RxMUXEN",
                           "RxIMODE"}, 0) @@ [RxFr1544 |-> 1]),
        write(r.liuccr0, [QRSS_n_PRBS_n |-> PRBSPattern.PRBS,
                          PRBS_Rx_n_PRBS_Tx_n |-> PRBSDestination.TTIP_TRING,
                          RXON_n |-> 1, EQC |-> 8]),
        write(r.liuccr1, [RXTSEL_n |-> Termination.Internal, TXTSEL_n |-> Termination.Internal,
                          TERSEL |-> TerminationImpedance.Ohms100,
                          RxJASEL_n |-> 1, TxJASEL_n |-> 1, JABW_n |-> 0, FIFOS_n |-> 0]),
        write(r.liuccr2, [INVQRSS_n |-> 0, TXTEST |-> TransmitTestPattern.None, TXON_n |-> 1,
                          LOOP2_n |-> LIULoopback.None])>>
      \o FlattenSeq([t \in 1..TimeslotsCount |-> configure_timeslot(Timeslot(c, t - 1))])

configure ==
  <<write(Device.liugcr4, [CLKSEL |-> ClockSelect.M16_384])>>
  \o FlattenSeq([c \in 1..ChannelsCount |-> configure_channel(c - 1)])

-----------------------------------------------------------------------------
(* Which causes interrupt. *)
enable_causes(r) ==
  <<write(r.bier, all({"LBCODE_ENB", "RXCLKLOSS", "ONESEC_ENB", "HDLC_ENB", "SLIP_ENB",
                       "ALARM_ENB", "T1FRAME_ENB"}, 0)),
    modify(r.agr, [Transmit_AIS_Pattern_Select |-> TransmitAISPattern.Disable,
                   AIS_Defect_Declaration_Criteria |-> AISDetection.UnframedAndFramed]),
    modify(r.agr, [Yellow_Alarm_One_Second_Rule |-> 1, ALARM_ENB |-> 0, YEL |-> 1]),
    modify(r.ciagr, [CIAD |-> 2]),
    modify(r.icr, [INT_WC_RUR |-> 0, ENBCLR |-> 0, INTRUP_ENB |-> 1]),
    modify(r.bier, all({"LBCODE_ENB", "RXCLKLOSS", "ONESEC_ENB"}, 0)
                   @@ all({"HDLC_ENB", "SLIP_ENB", "ALARM_ENB", "T1FRAME_ENB"}, 1)),
    modify(r.aeier, all({"LCV_ENB", "RxOOF_ENB", "RxAIS_ENB", "RxYEL_ENB"}, 1)),
    modify(r.fier, all({"DS0_ENB", "SIG_ENB", "COFA_ENB", "OOF_ENB", "FMD_ENB", "SE_ENB",
                        "FE_ENB"}, 1)),
    modify(r.dlier1, all({"TxSOT_ENB", "RxSOT_ENB", "TxEOT_ENB", "FCS_ERR_ENB",
                          "RxIDLE_ENB"}, 0) @@ [RxEOT_ENB |-> 1]),
    modify(r.sbier, all({"TxFULL_ENB", "TxEMPT_ENB", "TxSLIP_ENB", "RxFULL_ENB",
                         "RxEMPT_ENB", "RxSLIP_ENB"}, 1)),
    modify(r.exzer, [EXZ_ENB |-> 1]),
    modify(r.ss7er1, [SS7_ENB |-> 0]),
    modify(r.rlcier, [RxLOS_ENB |-> 0]),
    modify(r.ciaier, [RxAIS_CI_ENB |-> 0, RxRAI_CI_ENB |-> 0]),
    modify(r.bocier, all({"RMTCH3", "RMTCH2", "BOCC", "RFDLAD", "RFDLF", "TFDLE", "RMTCH1",
                          "RBOC"}, 0)),
    modify(r.bocuier, [Unstable |-> 0]),
    modify(r.liuccier, all({"DMOIE_n", "FLSIE_n", "LCVIE_n", "NLCDIE_n", "AISDIE_n",
                            "RLOSIE_n", "QRPDIE_n"}, 0))>>

(* What was pending is cleared. *)
clear_interrupts(c) ==
  LET r == Channel(c)
  IN  <<read(r.dlsr1), read(r.dlsr2), read(r.dlsr3),
        read(r.rdlbcr1), read(r.rdlbcr2), read(r.rdlbcr3)>>
      \o FlattenSeq([n \in 1..BufferReads |-> <<read(lapdbcr0(c, 0)), read(lapdbcr1(c, 0))>>])
      \o <<read(r.ss7sr1), read(r.ss7sr2), read(r.ss7sr3), read(r.sbisr),
           read(r.aeisr), read(r.exzsr), read(r.ciasr), read(r.fisr)>>

enable_interrupts(c) == enable_causes(Channel(c)) \o clear_interrupts(c)

dump_registers == [n \in 1..DumpReads |-> read(Register(channel_nxxx(0, \h0ff + n), u8))]

main ==
  <<control("outputs_off"), control("reset_on"), control("reset_off")>>
  \o dump_registers
  \o configure
  \o <<control("outputs_on")>>
  \o dump_registers
  \o FlattenSeq([c \in 1..ChannelsCount |-> enable_interrupts(c - 1)])

-----------------------------------------------------------------------------
(* The chip after a reset: the defaults of xrt86vx38-pac/src/default.rs.    *)

byte(value) == [b \in 1..8 |-> (value \div 2^(8 - b)) % 2]

ControlDefaults ==
  [csr |-> \h11, licr |-> 0, fsr |-> 0, agr |-> 0, smr |-> 0, fcr |-> \h43, dlcr1 |-> 0,
   sbcr |-> \h05, icr |-> 0, ciagr |-> 0, prcr |-> \h40, tsprmcr |-> 0, ticr |-> 0, ricr |-> 0,
   bier |-> 0, aeier |-> 0, fier |-> 0, dlier1 |-> 0, sbier |-> 0, exzer |-> 0, ss7er1 |-> 0,
   rlcier |-> 0, ciaier |-> 0, bocier |-> 0, bocuier |-> 0]
LineDefaults == all({"liuccr0", "liuccr1", "liuccr2", "liuccier"}, 0)
TimeslotDefaults(t) ==
  [tccr |-> \h80, tucr |-> \h17, rccr |-> \h80, rucr |-> \hff, rscr |-> 0, rssr |-> 0,
   tscr |-> IF t = 0 THEN \h01 ELSE IF t = 16 THEN \hb3 ELSE \hd0]

(* The registers of the model, and what each of them holds after a reset.   *)
AfterReset ==
  {<<Device.liugcr4.address, byte(1)>>}
  \cup {<<Channel(c)[r].address, byte(ControlDefaults[r])>> :
          c \in Channels, r \in DOMAIN ControlDefaults}
  \cup {<<Channel(c)[r].address, byte(LineDefaults[r])>> :
          c \in Channels, r \in DOMAIN LineDefaults}
  \cup UNION {{<<Timeslot(c, t)[r].address, byte(TimeslotDefaults(t)[r])>> :
                 r \in DOMAIN TimeslotDefaults(t)} : c \in Channels, t \in Timeslots}
SetupAddresses == {p[1] : p \in AfterReset}
framer_defaults == [a \in SetupAddresses |-> (CHOOSE p \in AfterReset : p[1] = a)[2]]

-----------------------------------------------------------------------------
(* The loop of main reads the status registers of the blocks that BISR      *)
(* shows, and looks at BISR through a mask.                                 *)
BlocksMask == byte(\h6f)
BlockStatus ==
  [LBCODE_ENB |-> {rlcisr_x_MAP[i] : i \in 1..8},
   HDLC_ENB |-> {dlsr_MAP[i] : i \in 1..3} \cup {ss7sr_MAP[i] : i \in 1..3},
   SLIP_ENB |-> {Status.sbisr[1]},
   ALARM_ENB |-> {Status.aeisr[1], Status.exzsr[1], Status.ciasr[1]},
   T1FRAME_ENB |-> {Status.fisr[1]}]
SetupStatus ==
  {channel_nxxx(c, o) : c \in Channels, o \in UNION {BlockStatus[k] : k \in DOMAIN BlockStatus}}

(* The registers that enable causes; each but that of the line interface    *)
(* follows its status register.                                             *)
Enables == {"aeier", "fier", "dlier1", "sbier", "exzer", "ss7er1", "rlcier", "ciaier",
            "bocier", "bocuier"}
=============================================================================

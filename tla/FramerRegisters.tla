--------------------------- MODULE FramerRegisters ---------------------------
(***************************************************************************)
(* The registers of the XRT86VX38 framer chip, as the firmware and the     *)
(* host tool know them (xrt86vx38-pac/src/register.rs): for each register  *)
(* the names of its eight bits, the most significant first, and for each   *)
(* field with named values those values.                                   *)
(*                                                                         *)
(* A byte is a function on 1..8, its most significant bit at 1.            *)
(***************************************************************************)
EXTENDS Naturals, Sequences, FiniteSets

Byte == [1..8 -> {0, 1}]

(* A field of width bits, and bits that have no name. *)
B(name, width) == [i \in 1..width |-> name]
skip(width) == B("__", width)

(* The bits that setting the fields in DOMAIN values sets: the with_ calls  *)
(* of a bitfield, its first field in the most significant bits.             *)
rank(layout, i) == Cardinality({j \in (i + 1)..8 : layout[j] = layout[i]})
with(layout, values) ==
  [i \in {i \in 1..8 : layout[i] \in DOMAIN values} |->
     (values[layout[i]] \div 2^rank(layout, i)) % 2]

(* Whether a byte has these values in these fields. *)
has(layout, byte, values) ==
  \A i \in DOMAIN with(layout, values) : byte[i] = with(layout, values)[i]

-----------------------------------------------------------------------------
(* Control, 0xN100 - 0xN17f *)
ClockSource == [Loop |-> 0, External |-> 1, Internal |-> 2]
CSR ==
  <<"LCV_Insert", "Set_T1_Mode", "Sync_All_Transmitters_to_8kHz",
  "Clock_Loss_Detect">> \o skip(2) \o B("CSS", 2)
FramerLoopback == [No |-> 0, Local |-> 1, FarEndRemoteLine |-> 2, Payload |-> 3]
LICR ==
  <<"FORCE_LOS", "Single_Rail_Mode">> \o B("LB", 2) \o skip(2) \o <<"Encode_B8ZS",
  "Decode_AMI_B8ZS">>
T1Framing == [ExtendedSuperFrame |-> 0, SuperFrame |-> 5, N |-> 6, T1DM |-> 7, SLC96 |-> 4]
FSR ==
  <<"Signaling_update_on_Superframe_Boundaries", "Force_CRC_Errors", "J1_MODE", "ONEONLY",
  "FASTSYNC">> \o B("FSI", 3)
TransmitAISPattern == [Disable |-> 0, Unframed |-> 1, Framed |-> 3]
AISDetection == [Disabled |-> 0, UnframedAndFramed |-> 1, Framed |-> 3]
AGR ==
  <<"Yellow_Alarm_One_Second_Rule", "ALARM_ENB">> \o B("YEL",
  2) \o B("Transmit_AIS_Pattern_Select", 2) \o B("AIS_Defect_Declaration_Criteria", 2)
SMR ==
  skip(1) \o <<"MFRAMEALIGN", "MSYNC",
  "Transmit_Frame_Sync_Select">> \o skip(2) \o <<"CRC6_Bits_Source_Select",
  "Framing_Bits_Source_Select">>
TSDLSR == skip(2) \o B("TxDLBW", 2) \o B("TxDE", 2) \o B("TxDL", 2)
FCR == <<"Reframe", "Framing_with_CRC_Checking">> \o B("LOF_Tolerance", 3) \o B("LOF_Range", 3)
RSDLSR == skip(2) \o B("RxDLBW", 2) \o B("RxDE", 2) \o B("RxDL", 2)
RSChR == B("Ch", 8)
RIFR ==
  <<"In_Frame">> \o skip(1) \o <<"AIS_Ingress", "FRAlarmMask", "DS0Yel",
  "DS0Yel_Switch">> \o skip(2)
DLCR ==
  <<"SLC96_Data_Link_Enable", "MOS_ABORT_Disable", "Rx_FCS_DIS", "AutoRx", "Tx_ABORT", "Tx_IDLE",
  "Tx_FCS_EN", "MOS_BOSn">>
TDLBCR == <<"TxHDLC_BUFAvail_BUFSel">> \o B("TDLBC", 7)
RDLBCR == <<"RBUFPTR">> \o B("RDLBC", 7)
ReceiveSlipBuffer == [Bypass |-> 0, SlipBuffer |-> 1, FIFO |-> 2]
SBCR == <<"TxSB_ISFIFO">> \o skip(2) \o <<"SB_FORCESF", "SB_SFENB", "SB_SDIR">> \o B("SB_ENB", 2)
FIFOLR == skip(3) \o B("Rx_Slip_Buffer_FIFO_Latency", 5)
ICR == skip(5) \o <<"INT_WC_RUR", "ENBCLR", "INTRUP_ENB">>
LAPDSR == skip(3) \o <<"HDLC3en", "HDLC2en", "HDLC1en">> \o B("HDLC_Controller_Select", 2)
CIAGR == skip(4) \o B("CIAG", 2) \o B("CIAD", 2)
AutomaticPerformanceReport == [No |-> 0, Once |-> 1, EverySecond |-> 2]
PRCR ==
  <<"LBO_ADJ_ENB", "RLOS_OUT_ENB", "FAR_END">> \o B("NPRM", 2) \o <<"C_R_Bit">> \o B("APCR", 2)
GCCR == <<"FrOutclk">> \o skip(5) \o <<"TxGCCR", "RxGCCR">>
TICR ==
  <<"TxSyncFrD">> \o skip(1) \o <<"TxPLClkEnb_TxSync_Is_Low", "TxFr1544", "TxICLKINV",
  "TxMUXEN">> \o B("TxIMODE", 2)
BitErrorInsertionRate == [Disable |-> 0, OneOfOneThousand |-> 1, OneOfOneMillion |-> 2]
BERTCSR0 == skip(4) \o <<"BERT_Switch">> \o B("BER", 2) \o <<"UnFramedBERT">>
RICR ==
  <<"RxSyncFrD">> \o skip(1) \o <<"RxPLClkEnb_RxSync_Is_Low", "RxFr1544", "RxICLKINV",
  "RxMUXEN">> \o B("RxIMODE", 2)
BERTCSR1 ==
  <<"PRBSTyp", "ERRORIns", "DATAInv", "RxBERTLock", "RxBERTEnb", "TxBERTEnb", "RxBypass",
  "TxBypass">>
LCCR0 == B("RXLBCALEN", 2) \o B("RXLBCDLEN", 2) \o B("TXLBCLEN", 2) \o <<"FRAMED", "AUTOENB">>
LCCR == B("RXLBCALEN", 2) \o B("RXLBCDLEN", 2) \o skip(2) \o <<"FRAMED">> \o skip(1)
TLCR == B("TXLBC", 7) \o <<"TXLBCENB">>
RLACR == B("RXLBAC", 7) \o <<"RXLBACENB">>
RLDCR == B("RXLBDC", 7) \o <<"RXLBDCENB">>
RLCDS == B("RxLCDetSwitch", 8)
DDER == <<"DEFDET">> \o skip(7)
TLCGS == skip(7) \o <<"TxLCGenSwitch">>
LCTS == skip(5) \o B("LCTimer", 3)
TSPRMCR == <<"FC_Bit", "PA_Bit", "U1_Bit", "U2_Bit">> \o B("R_Bit", 4)
BERTPattern ==
  [PRBS_X20_X3_1 |-> 2, QRSS_X20_X17_1 |-> 3, AllOnes |-> 4, AllZeros |-> 5, ThreeIn24 |-> 6,
  OneIn8 |-> 7, Fifty5Octet |-> 8, Daly |-> 9, PRBS_X20_X17_1 |-> 10]
BCR == skip(4) \o B("BERT", 4)
BOCCR == <<"TxABORT">> \o B("RMF", 2) \o <<"RBOCE", "BOCR">> \o B("RBF", 2) \o <<"SBOC">>
RFDLR == skip(2) \o B("RBOC", 6)
RFDLMR == skip(2) \o B("RFDLM", 6)
TFDLR == skip(2) \o B("TBOC", 6)
TBCR == B("TBCR", 8)

(* Timeslots *)
RDS0MR == B("RxDS_0", 8)
TDS0MR == B("TxDS_0", 8)
TransmitLAPDSource ==
  [LAPDController1 |-> 0, LAPDController2 |-> 1, TSDLSR_TxDE |-> 2, LAPDController3 |-> 3]
ZeroCodeSuppression == [None |-> 0, ATTBit7Stuffing |-> 1, GTE |-> 2, DDS |-> 3]
ChannelConditioning ==
  [Unchanged |-> 0, InvertAll |-> 1, InvertEven |-> 2, InvertOdd |-> 3, PUCR |-> 4, BUSY |-> 5,
  VACANT |-> 6, BUSYWithSlotNumber |-> 7, MOOF |-> 8, ALawMilliwatt |-> 9, ULawMilliwatt |-> 10,
  InvertMSB |-> 11, InvertAllButMSB |-> 12, PRBSOrQRTS |-> 13, DETimeSlot |-> 15]
TCCR == B("LAPDcntl", 2) \o B("TxZERO", 2) \o B("TxCOND", 4)
TUCR == B("TUCR", 8)
ChannelSignalingSource == [PCMData |-> 0, TSCR |-> 1, TxSIG |-> 2]
TSCR == <<"A_x", "B_y", "C_x", "D_x">> \o skip(1) \o <<"Rob_Enb">> \o B("TxSIGSRC", 2)
ReceiveLAPDSource ==
  [LAPDController1 |-> 0, LAPDController2 |-> 1, RSDLSR_RxDE |-> 2, LAPDController3 |-> 3]
RCCR == B("LAPDcntl", 2) \o B("RxZERO", 2) \o B("RxCOND", 4)
RUCR == B("RxUSER", 8)
ReceiveSignalingConditioning ==
  [AllOnes |-> 0, SixteenCode_ABCD |-> 1, FourCode_AB |-> 2, TwoCode_A |-> 3]
ReceiveSignalingExtraction ==
  [None |-> 0, SixteenCode_ABCD |-> 1, FourCode_AB |-> 2, TwoCode_A |-> 3]
RSCtR == skip(1) \o <<"SIGC_ENB", "OH_ENB", "DEB_ENB">> \o B("RxSIGC", 2) \o B("RxSIGE", 2)
RSSR == skip(4) \o <<"SIG_16A_4A_2A", "SIG_16B_4B_2A", "SIG_16C_4A_2A", "SIG_16D_4B_2A">>
RSAR == skip(4) \o <<"A", "B", "C", "D">>

(* The registers that are whole numbers *)
u8 == B("value", 8)

(* Interrupts and status, 0xNb00 - 0xNb75 *)
BISR == skip(1) \o <<"LBCODE", "RxClkLOS", "ONESEC", "HDLC", "SLIP", "ALARM", "T1FRAME">>
BIER ==
  skip(1) \o <<"LBCODE_ENB", "RXCLKLOSS", "ONESEC_ENB", "HDLC_ENB", "SLIP_ENB", "ALARM_ENB",
  "T1FRAME_ENB">>
AEISR ==
  <<"RxOOF_State", "RxAIS_State", "RxYEL_State", "LOS_State", "LCVInt_Status",
  "RxOOF_State_Change", "RxAIS_State_Change", "RxYEL_State_Change">>
AEIER == skip(3) \o <<"SetToZero", "LCV_ENB", "RxOOF_ENB", "RxAIS_ENB", "RxYEL_ENB">>
FISR == <<"DS0_Change", "DS0_Status", "SIG", "COFA", "OOF_Status", "FMD", "SE", "FE">>
FIER ==
  <<"DS0_ENB">> \o skip(1) \o <<"SIG_ENB", "COFA_ENB", "OOF_ENB", "FMD_ENB", "SE_ENB", "FE_ENB">>
DLSRx == <<"MSG_TYPE", "TxSOT", "RxSOT", "TxEOT", "RxEOT", "FCS_ERR", "RxABORT", "RxIDLE">>
DLIERx ==
  skip(1) \o <<"TxSOT_ENB", "RxSOT_ENB", "TxEOT_ENB", "RxEOT_ENB", "FCS_ERR_ENB", "RxABORT_ENB",
  "RxIDLE_ENB">>
SBISR ==
  <<"TxSB_FULL", "TxSB_EMPT", "TxSB_SLIP", "SLC96_LOCK", "Multiframe_LOCK", "RxSB_FULL",
  "RxSB_EMPT", "RxSB_SLIP">>
SBIER ==
  <<"TxFULL_ENB", "TxEMPT_ENB", "TxSLIP_ENB">> \o skip(2) \o <<"RxFULL_ENB", "RxEMPT_ENB",
  "RxSLIP_ENB">>
RLCISRx == skip(4) \o <<"RXASTAT", "RXDSTAT", "RXAINT", "RXDINT">>
RLCIERx == skip(6) \o <<"RXAENB", "RXDENB">>
EXZSR == skip(7) \o <<"EXZ_STATUS">>
EXZER == skip(7) \o <<"EXZ_ENB">>
SS7SRx == skip(7) \o <<"SS7_STATUS">>
SS7ERx == skip(7) \o <<"SS7_ENB">>
RLCISR == skip(4) \o <<"RxLOSINT">> \o skip(3)
RLCIER == skip(4) \o <<"RxLOS_ENB">> \o skip(3)
CIASR == skip(2) \o <<"RxAIS_CI_state", "RxRAI_CI_state">> \o skip(2) \o <<"RxAIS_CI", "RxRAI_CI">>
CIAIER == skip(6) \o <<"RxAIS_CI_ENB", "RxRAI_CI_ENB">>
BOCISR == <<"RMTCH3", "RMTCH2", "BOCC", "RFDLAD", "RFDLF", "TFDLE", "RMTCH1", "RBOC">>
BOCIER == <<"RMTCH3", "RMTCH2", "BOCC", "RFDLAD", "RFDLF", "TFDLE", "RMTCH1", "RBOC">>
BOCUISR == skip(1) \o <<"Unstable">> \o skip(6)
BOCUIER == skip(1) \o <<"Unstable">> \o skip(6)

(* Line interface *)
PRBSPattern == [PRBS |-> 0, QRSS |-> 1]
PRBSDestination == [TTIP_TRING |-> 0, RPOS_RCLK |-> 1]
LIUCCR0 == <<"QRSS_n_PRBS_n", "PRBS_Rx_n_PRBS_Tx_n", "RXON_n">> \o B("EQC", 5)
Termination == [HighImpedance |-> 0, Internal |-> 1]
TerminationImpedance == [Ohms100 |-> 0, Ohms110 |-> 1, Ohms75 |-> 2, Ohms120 |-> 3]
LIUCCR1 ==
  <<"RXTSEL_n", "TXTSEL_n">> \o B("TERSEL", 2) \o <<"RxJASEL_n", "TxJASEL_n", "JABW_n",
  "FIFOS_n">>
TransmitTestPattern == [None |-> 0, TDQRSS |-> 4, TAOS |-> 5, TLUC |-> 6, TLDC |-> 7]
LIULoopback == [None |-> 0, Dual |-> 4, Analog |-> 5, Remote |-> 6, Digital |-> 7]
LIUCCR2 == <<"INVQRSS_n">> \o B("TXTEST", 3) \o <<"TXON_n">> \o B("LOOP2_n", 3)
NetworkLoopCodeDetection ==
  [Disabled |-> 0, LoopUpDetection |-> 1, LoopDownDetection |-> 2,
  AutomaticLoopUpDetectionAndRemoteActivation |-> 3]
LIUCCR3 == B("NLCDE", 2) \o <<"CODES_n">> \o skip(2) \o <<"INSBPV_n", "INSBER_n">> \o skip(1)
LIUCCIER ==
  skip(1) \o <<"DMOIE_n", "FLSIE_n", "LCVIE_n", "NLCDIE_n", "AISDIE_n", "RLOSIE_n", "QRPDIE_n">>
LIUCCSR == skip(1) \o <<"DMO_n", "FLS_n", "LCV_n", "NLCD_n", "AISD_n", "RLOS_n", "QRPD_n">>
LIUCCISR ==
  skip(1) \o <<"DMOIS_n", "FLSIS_n", "LCVIS_n", "NLCDIS_n", "AISDIS_n", "RLOSIS_n", "QRPDIS_n">>
LIUCCCCR == skip(2) \o B("CLOS", 6)
LIUCCAR == skip(1) \o B("Arb_Seg", 7)
LIUGCR0 == <<"SR", "ATAOS", "RCLKE", "TCLKE", "DATAP">> \o skip(1) \o <<"GIE", "SRESET">>
WireGauge == [Gauge22And24 |-> 0, Gauge22 |-> 1, Gauge24 |-> 2, Gauge26 |-> 3]
LIUGCR1 ==
  <<"TxSYNC_Sect13", "RxSYNC_Sect13">> \o B("Gauge", 2) \o skip(1) \o <<"RXMUTE", "EXLOS", "ICT">>
LIUGCR2 == <<"Force_to_0">> \o skip(7)
LIUGCR3 == skip(8)
ClockSelect ==
  [M2_048 |-> 0, M1_544 |-> 1, M4_096 |-> 8, M3_088 |-> 9, M8_192 |-> 10, M6_176 |-> 11,
  M16_384 |-> 12, M12_352 |-> 13]
LIUGCR4 == skip(4) \o B("CLKSEL", 4)
LIUGCR5 == skip(7) \o <<"GCHIS0">>

(* Device identification *)
DEVID == B("DEVID", 8)
REVID == B("REVID", 8)
=============================================================================

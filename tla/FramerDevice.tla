---------------------------- MODULE FramerDevice ----------------------------
(***************************************************************************)
(* Where the registers of the framer chip are: the memory map of its       *)
(* microprocessor interface (xrt86vx38-pac/src/device.rs).  A register is  *)
(* its address and the layout of its bits.                                 *)
(***************************************************************************)
EXTENDS FramerRegisters, TLC

CHANNELS_COUNT == 8
TIMESLOTS_COUNT == 24

(* Addresses of the forms 0xNxxx, 0x0fNx and 0x0fex. *)
channel_nxxx(channel, offset) == channel * \h1000 + offset
channel_nxxx_timeslot(channel, block_offset, timeslot) ==
  channel_nxxx(channel, block_offset + timeslot)
channel_0fnx(channel, offset) == \h0f00 + channel * 16 + offset
global_0fex(offset) == \h0fe0 + offset

(* The received timeslots have a gap at 0xN163, where BCR is. *)
rds0mr(channel, timeslot) ==
  channel_nxxx(channel,
    IF timeslot <= 3 THEN \h15f + timeslot
    ELSE IF timeslot <= 15 THEN \h160 + timeslot ELSE \h1b0 + timeslot)

-----------------------------------------------------------------------------
(* The registers, by the names of their accessors: <<offset, layout>>. *)

rscr_MAP == <<\h10d, \h10e, \h10f>>
rdlbcr_MAP == <<\h115, \h145, \h155>>
dlsr_MAP == <<\hb06, \hb16, \hb26>>
ss7sr_MAP == <<\hb10, \hb18, \hb28>>
rlcisr_x_MAP == <<\hb0a, \hb14, \hb1a, \hb1c, \hb1e, \hb20, \hb22, \hb24>>
rlcier_x_MAP == <<\hb0b, \hb15, \hb1b, \hb1d, \hb1f, \hb21, \hb23, \hb25>>

Control ==
  [csr |-> <<\h100, CSR>>, licr |-> <<\h101, LICR>>, fsr |-> <<\h107, FSR>>,
   agr |-> <<\h108, AGR>>, smr |-> <<\h109, SMR>>, tsdlsr |-> <<\h10a, TSDLSR>>,
   fcr |-> <<\h10b, FCR>>, rsdlsr |-> <<\h10c, RSDLSR>>, rscr0 |-> <<rscr_MAP[1], RSChR>>,
   rscr1 |-> <<rscr_MAP[2], RSChR>>, rscr2 |-> <<rscr_MAP[3], RSChR>>, rifr |-> <<\h112, RIFR>>,
   dlcr1 |-> <<\h113, DLCR>>, tdlbcr1 |-> <<\h114, TDLBCR>>,
   rdlbcr1 |-> <<rdlbcr_MAP[1], RDLBCR>>, sbcr |-> <<\h116, SBCR>>, fifolr |-> <<\h117, FIFOLR>>,
   icr |-> <<\h11a, ICR>>, lapdsr |-> <<\h11b, LAPDSR>>, ciagr |-> <<\h11c, CIAGR>>,
   prcr |-> <<\h11d, PRCR>>, gccr |-> <<\h11e, GCCR>>, ticr |-> <<\h120, TICR>>,
   bertcsr0 |-> <<\h121, BERTCSR0>>, ricr |-> <<\h122, RICR>>, bertcsr1 |-> <<\h123, BERTCSR1>>,
   lccr0 |-> <<\h124, LCCR0>>, tlcr |-> <<\h125, TLCR>>, rlacr0 |-> <<\h126, RLACR>>,
   rldcr0 |-> <<\h127, RLDCR>>, rlcds |-> <<\h128, RLCDS>>, dder |-> <<\h129, DDER>>,
   lccr1 |-> <<\h12a, LCCR>>, rlacr1 |-> <<\h12b, RLACR>>, rldcr1 |-> <<\h12c, RLDCR>>,
   lccr2 |-> <<\h12d, LCCR>>, rlacr2 |-> <<\h12e, RLACR>>, rldcr2 |-> <<\h12f, RLDCR>>,
   tlcgs |-> <<\h140, TLCGS>>, lcts |-> <<\h141, LCTS>>, tsprmcr |-> <<\h142, TSPRMCR>>,
   dlcr2 |-> <<\h143, DLCR>>, tdlbcr2 |-> <<\h144, TDLBCR>>,
   rdlbcr2 |-> <<rdlbcr_MAP[2], RDLBCR>>, lccr3 |-> <<\h146, LCCR>>, rlacr3 |-> <<\h147, RLACR>>,
   rldcr3 |-> <<\h148, RLDCR>>, lccr4 |-> <<\h149, LCCR>>, rlacr4 |-> <<\h14a, RLACR>>,
   rldcr4 |-> <<\h14b, RLDCR>>, lccr5 |-> <<\h14c, LCCR>>, rlacr5 |-> <<\h14d, RLACR>>,
   rldcr5 |-> <<\h14e, RLDCR>>, lccr6 |-> <<\h14f, LCCR>>, rlacr6 |-> <<\h150, RLACR>>,
   rldcr6 |-> <<\h151, RLDCR>>, dlcr3 |-> <<\h153, DLCR>>, tdlbcr3 |-> <<\h154, TDLBCR>>,
   rdlbcr3 |-> <<rdlbcr_MAP[3], RDLBCR>>, lccr7 |-> <<\h156, LCCR>>, rlacr7 |-> <<\h157, RLACR>>,
   rldcr7 |-> <<\h158, RLDCR>>, bcr |-> <<\h163, BCR>>, boccr |-> <<\h170, BOCCR>>,
   rfdlr |-> <<\h171, RFDLR>>, rfdlmr1 |-> <<\h172, RFDLMR>>, rfdlmr2 |-> <<\h173, RFDLMR>>,
   rfdlmr3 |-> <<\h174, RFDLMR>>, tfdlr |-> <<\h175, TFDLR>>, tbcr |-> <<\h176, TBCR>>]

Monitors ==
  [rlcvcu |-> <<\h900, u8>>, rlcvcl |-> <<\h901, u8>>, rfaecu |-> <<\h902, u8>>,
   rfaecl |-> <<\h903, u8>>, rsefc |-> <<\h904, u8>>, rsbbecu |-> <<\h905, u8>>,
   rsbbecl |-> <<\h906, u8>>, rsc |-> <<\h909, u8>>, rlfc |-> <<\h90a, u8>>,
   rcfac |-> <<\h90b, u8>>, lfcsec1 |-> <<\h90c, u8>>, pbecu |-> <<\h90d, u8>>,
   pbecl |-> <<\h90e, u8>>, tsc |-> <<\h90f, u8>>, ezvcu |-> <<\h910, u8>>,
   ezvcl |-> <<\h911, u8>>, lfcsec2 |-> <<\h91c, u8>>, lfcsec3 |-> <<\h92c, u8>>]

Status ==
  [bisr |-> <<\hb00, BISR>>, bier |-> <<\hb01, BIER>>, aeisr |-> <<\hb02, AEISR>>,
   aeier |-> <<\hb03, AEIER>>, fisr |-> <<\hb04, FISR>>, fier |-> <<\hb05, FIER>>,
   dlsr1 |-> <<dlsr_MAP[1], DLSRx>>, dlier1 |-> <<\hb07, DLIERx>>, sbisr |-> <<\hb08, SBISR>>,
   sbier |-> <<\hb09, SBIER>>, rlcisr0 |-> <<\hb0a, RLCISRx>>, rlcier0 |-> <<\hb0b, RLCIERx>>,
   exzsr |-> <<\hb0e, EXZSR>>, exzer |-> <<\hb0f, EXZER>>, ss7sr1 |-> <<ss7sr_MAP[1], SS7SRx>>,
   ss7er1 |-> <<\hb11, SS7ERx>>, rlcisr |-> <<\hb12, RLCISR>>, rlcier |-> <<\hb13, RLCIER>>,
   rlcisr1 |-> <<\hb14, RLCISRx>>, rlcier1 |-> <<\hb15, RLCIERx>>,
   dlsr2 |-> <<dlsr_MAP[2], DLSRx>>, dlier2 |-> <<\hb17, DLIERx>>,
   ss7sr2 |-> <<ss7sr_MAP[2], SS7SRx>>, ss7er2 |-> <<\hb19, SS7ERx>>,
   rlcisr2 |-> <<\hb1a, RLCISRx>>, rlcier2 |-> <<\hb1b, RLCIERx>>, rlcisr3 |-> <<\hb1c, RLCISRx>>,
   rlcier3 |-> <<\hb1d, RLCIERx>>, rlcisr4 |-> <<\hb1e, RLCISRx>>, rlcier4 |-> <<\hb1f, RLCIERx>>,
   rlcisr5 |-> <<\hb20, RLCISRx>>, rlcier5 |-> <<\hb21, RLCIERx>>, rlcisr6 |-> <<\hb22, RLCISRx>>,
   rlcier6 |-> <<\hb23, RLCIERx>>, rlcisr7 |-> <<\hb24, RLCISRx>>, rlcier7 |-> <<\hb25, RLCIERx>>,
   dlsr3 |-> <<dlsr_MAP[3], DLSRx>>, dlier3 |-> <<\hb27, DLIERx>>,
   ss7sr3 |-> <<ss7sr_MAP[3], SS7SRx>>, ss7er3 |-> <<\hb29, SS7ERx>>, ciasr |-> <<\hb40, CIASR>>,
   ciaier |-> <<\hb41, CIAIER>>, bocisr |-> <<\hb70, BOCISR>>, bocier |-> <<\hb71, BOCIER>>,
   bocuisr |-> <<\hb74, BOCUISR>>, bocuier |-> <<\hb75, BOCUIER>>]

LineInterface ==
  [liuccr0 |-> <<\h0, LIUCCR0>>, liuccr1 |-> <<\h1, LIUCCR1>>, liuccr2 |-> <<\h2, LIUCCR2>>,
   liuccr3 |-> <<\h3, LIUCCR3>>, liuccier |-> <<\h4, LIUCCIER>>, liuccsr |-> <<\h5, LIUCCSR>>,
   liuccisr |-> <<\h6, LIUCCISR>>, liuccccr |-> <<\h7, LIUCCCCR>>, liuccar1 |-> <<\h8, LIUCCAR>>,
   liuccar2 |-> <<\h9, LIUCCAR>>, liuccar3 |-> <<\ha, LIUCCAR>>, liuccar4 |-> <<\hb, LIUCCAR>>,
   liuccar5 |-> <<\hc, LIUCCAR>>, liuccar6 |-> <<\hd, LIUCCAR>>, liuccar7 |-> <<\he, LIUCCAR>>,
   liuccar8 |-> <<\hf, LIUCCAR>>]

PerTimeslot ==
  [tds0mr |-> <<\h1d0, TDS0MR>>, tccr |-> <<\h300, TCCR>>, tucr |-> <<\h320, TUCR>>,
   tscr |-> <<\h340, TSCR>>, rccr |-> <<\h360, RCCR>>, rucr |-> <<\h380, RUCR>>,
   rscr |-> <<\h3a0, RSCtR>>, rssr |-> <<\h3c0, RSSR>>, rsar |-> <<\h500, RSAR>>]

LineInterfaceGlobal ==
  [liugcr0 |-> <<\h0, LIUGCR0>>, liugcr1 |-> <<\h1, LIUGCR1>>, liugcr2 |-> <<\h2, LIUGCR2>>,
   liugcr3 |-> <<\h4, LIUGCR3>>, liugcr4 |-> <<\h9, LIUGCR4>>, liugcr5 |-> <<\ha, LIUGCR5>>]

-----------------------------------------------------------------------------
(* The registers of the chip, of a channel and of a timeslot. *)

Register(address, layout) == [address |-> address, layout |-> layout]

Device ==
  [r \in DOMAIN LineInterfaceGlobal |->
     Register(global_0fex(LineInterfaceGlobal[r][1]), LineInterfaceGlobal[r][2])]
  @@ [devid |-> Register(\h01fe, DEVID), revid |-> Register(\h01ff, REVID)]

Framer == Control @@ Monitors @@ Status

ChannelRegisters(c) ==
  [r \in DOMAIN Framer |-> Register(channel_nxxx(c, Framer[r][1]), Framer[r][2])]
  @@ [r \in DOMAIN LineInterface |->
        Register(channel_0fnx(c, LineInterface[r][1]), LineInterface[r][2])]
AllChannels == [c \in 0..(CHANNELS_COUNT - 1) |-> ChannelRegisters(c)]
Channel(c) == AllChannels[c]

Timeslot(c, t) ==
  [r \in DOMAIN PerTimeslot |->
     Register(channel_nxxx_timeslot(c, PerTimeslot[r][1], t), PerTimeslot[r][2])]
  @@ [rds0mr |-> Register(rds0mr(c, t), RDS0MR)]

(* The buffers of the HDLC controllers, of 96 bytes each. *)
lapdbcr0(c, index) == Register(channel_nxxx(c, \h600 + index), u8)
lapdbcr1(c, index) == Register(channel_nxxx(c, \h700 + index), u8)

-----------------------------------------------------------------------------
(* Every layout is of eight bits, and the bits of a field are adjacent.     *)
IsLayout(l) ==
  /\ DOMAIN l = 1..8
  /\ \A i, k \in 1..8 : \A j \in i..k : l[i] = l[k] /\ l[i] # "__" => l[j] = l[i]

(* No two accessors reach the same byte of the chip, over all channels and  *)
(* timeslots: a register written through one is not changed through another.*)
Everywhere ==
  {<<"device", 0, 0, r, Device[r].address>> : r \in DOMAIN Device}
  \cup {<<"channel", c, 0, r, Channel(c)[r].address>> :
          c \in 0..(CHANNELS_COUNT - 1), r \in DOMAIN Channel(0)}
  \cup {<<"timeslot", c, t, r, Timeslot(c, t)[r].address>> :
          c \in 0..(CHANNELS_COUNT - 1), t \in 0..(TIMESLOTS_COUNT - 1),
          r \in DOMAIN Timeslot(0, 0)}

(* What the two tables say of themselves, whatever the firmware does.       *)
ASSUME MapIsSound ==
  /\ \A r \in DOMAIN Device : IsLayout(Device[r].layout)
  /\ \A r \in DOMAIN Channel(0) : IsLayout(Channel(0)[r].layout)
  /\ \A r \in DOMAIN Timeslot(0, 0) : IsLayout(Timeslot(0, 0)[r].layout)
  /\ Cardinality({e[5] : e \in Everywhere}) = Cardinality(Everywhere)

(* The test of the bit order, modular_bitfield_is_msb_first.                *)
ASSUME MsbFirst ==
  with(CSR, [LCV_Insert |-> 1, Set_T1_Mode |-> 0, Sync_All_Transmitters_to_8kHz |-> 1,
             Clock_Loss_Detect |-> 0, CSS |-> ClockSource.Loop])
  = (1 :> 1) @@ (2 :> 0) @@ (3 :> 1) @@ (4 :> 0) @@ (7 :> 0) @@ (8 :> 0)
=============================================================================

------------------------------ MODULE StartUp ------------------------------
(***************************************************************************)
(* The firmware's start-up program, run: RegisterProgram with the program  *)
(* of FramerSetup, and what the rest of the board needs of the registers   *)
(* when it is done.                                                        *)
(***************************************************************************)
EXTENDS FramerSetup, RegisterBus

(* What the configuration gives RegisterProgram for its constants. *)
SetupProgram == LET program == main IN program
SetupReset == 3
SetupRegisters == SetupAddresses
SetupStatusRegisters == SetupStatus
SetupDefaults == framer_defaults
SetupHostBytes == {byte(\h00), byte(\hff)}

-----------------------------------------------------------------------------
(* What the board needs of the registers, of those not open to the host.    *)

(* The FPGA drives the serial clocks and syncs of a channel only when the   *)
(* chip takes them as inputs: the transmit clock in external timing, the    *)
(* receive clock with the slip buffer.                                      *)
ClocksAreInputs(memory, open) ==
  \A c \in Channels :
    LET csr == Channel(c).csr
        sbcr == Channel(c).sbcr
    IN  /\ csr.address \notin open =>
             has(csr.layout, memory[csr.address], [CSS |-> ClockSource.External])
        /\ sbcr.address \notin open =>
             has(sbcr.layout, memory[sbcr.address], [SB_ENB |-> ReceiveSlipBuffer.SlipBuffer])

(* A cause that may interrupt is served: its block may interrupt too, the   *)
(* loop does not mask it, and reads the status register that clears it.     *)
Served(c, memory, status) ==
  \E k \in DOMAIN BlockStatus :
    /\ status \in {channel_nxxx(c, o) : o \in BlockStatus[k]}
    /\ has(Channel(c).bier.layout, memory[Channel(c).bier.address], all({k}, 1))
    /\ has(BIER, BlocksMask, all({k}, 1))

(* The line interface and the blocks the loop does not look at have no      *)
(* cause enabled.                                                           *)
CausesAreServed(memory, open) ==
  \A c \in Channels :
    /\ \A r \in Enables :
         LET enables == Channel(c)[r].address
         IN  enables \notin open /\ Channel(c).bier.address \notin open
             => memory[enables] = byte(0) \/ Served(c, memory, enables - 1)
    /\ Channel(c).liuccier.address \notin open => memory[Channel(c).liuccier.address] = byte(0)

-----------------------------------------------------------------------------
(* The registers as the first n steps make them of a chip after reset.      *)
LastThatSets(n, a, b) ==
  CHOOSE k \in 1..n : Sets(k, a, b) /\ \A j \in (k + 1)..n : ~Sets(j, a, b)
Made(n) ==
  [a \in Addresses |->
     [b \in 1..8 |-> IF \E k \in 1..n : Sets(k, a, b)
                     THEN Given(LastThatSets(n, a, b), b) ELSE Defaults[a][b]]]

(* What the text of the program has to be for the properties below, whoever *)
(* wrote to the chip before: it turns the outputs on only after the reset   *)
(* and the configuration, and does not take the configuration back;         *)
(* it enables what the loop serves; and it reads, after the reset, the      *)
(* status register of every cause that it enables.                          *)
ASSUME RegistersAssumption ==
  \A c \in Channels, r \in Enables \cup {"csr", "sbcr", "bier", "liuccier"} :
    Channel(c)[r].address \in Addresses
ASSUME OutputsAssumption ==
  \A k \in 1..Len(Program) :
    Program[k].op = "outputs_on" =>
      k > ResetAt /\ \A n \in k..Len(Program) : ClocksAreInputs(Made(n), {})
ASSUME EnablesAssumption == CausesAreServed(Made(Len(Program)), {})
ASSUME ReadsAssumption ==
  \A c \in Channels, r \in Enables :
    \/ Made(Len(Program))[Channel(c)[r].address] = byte(0)
    \/ \E k \in (ResetAt + 1)..Len(Program) :
         Program[k].op = "read" /\ Program[k].at = Channel(c)[r].address - 1

-----------------------------------------------------------------------------
(* While the FPGA drives its outputs no wire has two drivers                *)
(* (tx_registered.py 34: "enable FPGA drivers to framer, after framer       *)
(* interfaces are configured in the appropriate directions").  A chip that  *)
(* was not reset, or an output enable that outlives a restart, has two.     *)
OutputsOnlyIntoInputs == outputs => ClocksAreInputs(regs, touched)

(* In the loop every cause that may interrupt is served: one enabled but    *)
(* not served would stay pending for ever (main.rs 264-413 enables,         *)
(* 702-864 reads).                                                          *)
EnabledIsServed == InLoop => CausesAreServed(regs, touched)

(* The first report of an enabled cause is not older than the start: its    *)
(* status register was read, and so cleared, before the loop (main.rs       *)
(* 443-471, "Clear any pending").                                           *)
StartsQuiet ==
  InLoop =>
    \A c \in Channels, r \in Enables :
      LET enables == Channel(c)[r].address
      IN  enables \notin touched => regs[enables] = byte(0) \/ enables - 1 \notin stale
=============================================================================

---------------------------- MODULE RegisterBus ----------------------------
(***************************************************************************)
(* How the program's accesses reach the framer chip: the processor's       *)
(* Wishbone cycle, the peripheral that starts a bus cycle for it           *)
(* (controller/controller.py, FramerRegistersPeripheral), the interface    *)
(* that drives the chip's strobes and waits for its ready line             *)
(* (framer/microprocessor.py), and the chip.  What RegisterProgram does in *)
(* one step takes many clocks here, a modify two bus cycles, and the FPGA  *)
(* may be loaded again in any of them.                                     *)
(*                                                                         *)
(* The control lines (reset, outputs) are registers of the SoC itself and  *)
(* take no bus cycle.                                                      *)
(***************************************************************************)
EXTENDS RegisterProgram

CONSTANT WaitCycles   \* _wait_cycles: clocks the interface waits at a strobe (20)
ASSUME WaitAssumption == WaitCycles \in Nat

(* No access before the reset pulse, which ends whatever access an earlier  *)
(* life was in; and what a read clears is not what a write sets.            *)
ASSUME BusAssumption ==
  /\ \A k \in 1..(ResetAt - 1) : Program[k].op \in {"outputs_on", "outputs_off", "reset_on"}
  /\ Addresses \cap StatusAddresses = {}

VARIABLES
  (* the processor *)
  request,      \* the access under way or to be made next, or NoRequest
  cyc,          \* wb.cyc and wb.stb
  (* FramerRegistersPeripheral *)
  selected_q1, selected_stb,
  (* MicroprocessorInterface, and what it drives *)
  fsm, cycles, addr, data_o, rd, wr, data_rd,
  done,         \* wb.ack
  (* the chip *)
  rdy

processor_vars == <<pc, outputs, request, cyc>>
interface_vars == <<selected_q1, selected_stb, fsm, cycles, addr, data_o, rd, wr, data_rd, done>>
chip_vars == <<regs, stale, reset, touched, rdy>>
bus_vars == <<processor_vars, interface_vars, chip_vars>>

Zero == [b \in 1..8 |-> 0]
NoRequest == [we |-> FALSE, adr |-> 0, data |-> Zero]
ReadOf(a) == [we |-> FALSE, adr |-> a, data |-> Zero]
WriteOf(a, data) == [we |-> TRUE, adr |-> a, data |-> data]

BusInit ==
  /\ Init
  /\ request = NoRequest /\ cyc = FALSE
  /\ selected_q1 = FALSE /\ selected_stb = FALSE
  /\ fsm = "IDLE" /\ cycles = 0 /\ addr = 0
  /\ data_o = Zero /\ rd = FALSE /\ wr = FALSE /\ data_rd = Zero /\ done = FALSE
  /\ rdy = FALSE

-----------------------------------------------------------------------------
(* The processor: a load or a store holds cyc until it is acknowledged, and *)
(* then lets go of it for a clock at least.                                 *)

FirstAccess(step) ==
  IF step.op = "write" THEN WriteOf(step.at, Written(Zero, step.bits)) ELSE ReadOf(step.at)

(* A modify stores, by a second access, what it made of the value loaded.   *)
SecondIsDue == ~InLoop /\ Program[pc].op = "modify" /\ ~request.we

Acknowledged ==
  /\ cyc /\ done
  /\ cyc' = FALSE
  /\ \/ /\ SecondIsDue
        /\ request' = WriteOf(request.adr, Modified(data_rd, Program[pc].bits))
        /\ UNCHANGED pc
     \/ /\ ~SecondIsDue
        /\ request' = NoRequest
        /\ pc' = IF InLoop THEN pc ELSE pc + 1
  /\ UNCHANGED <<regs, stale, reset, outputs>>

Waits ==
  /\ cyc /\ ~done
  /\ UNCHANGED <<pc, regs, stale, reset, outputs, request, cyc>>

BeginsSecond ==
  /\ ~cyc /\ request # NoRequest
  /\ cyc' = TRUE
  /\ UNCHANGED <<pc, regs, stale, reset, outputs, request>>

BeginsStep ==
  /\ ~cyc /\ request = NoRequest /\ ~InLoop
  /\ Program[pc].op \in {"read", "write", "modify"}
  /\ request' = FirstAccess(Program[pc])
  /\ cyc' = TRUE
  /\ UNCHANGED <<pc, regs, stale, reset, outputs>>

SetsControl ==
  /\ ~cyc /\ request = NoRequest /\ ~InLoop
  /\ SetOutputs(Program[pc]) \/ SetReset(Program[pc])
  /\ pc' = pc + 1
  /\ UNCHANGED <<request, cyc>>

(* In the loop: a host's command, or nothing. *)
Loops ==
  /\ ~cyc /\ InLoop
  /\ \/ /\ Cardinality(touched) < MaxHostWrites
        /\ \E a \in Addresses, byte \in HostBytes : request' = WriteOf(a, byte)
        /\ cyc' = TRUE
     \/ UNCHANGED <<request, cyc>>
  /\ UNCHANGED <<pc, regs, stale, reset, outputs>>

Processor == Acknowledged \/ Waits \/ BeginsSecond \/ BeginsStep \/ SetsControl \/ Loops

-----------------------------------------------------------------------------
(* The peripheral and the interface.  A cycle starts at the clock after the *)
(* first of cyc; the interface drives the strobe until the chip is ready, and is     *)
(* done when the chip's ready line has gone again.  (cs goes with the       *)
(* strobes; busy is not read.)                                              *)

starts_level == cyc            \* fault: as long as cyc is held
starts == cyc /\ ~selected_q1

(* What the chip drives while it is read. *)
data_i == IF rd /\ addr \in Addresses THEN regs[addr] ELSE Zero

Idle ==
  /\ fsm = "IDLE"
  /\ IF selected_stb THEN fsm' = "CS_ASSERT" /\ addr' = request.adr ELSE UNCHANGED <<fsm, addr>>
  /\ done' = FALSE
  /\ UNCHANGED <<cycles, data_o, rd, wr, data_rd>>

CsAssert ==
  /\ fsm = "CS_ASSERT" /\ fsm' = "RD_WR_ASSERT"
  /\ data_o' = request.data
  /\ cycles' = WaitCycles
  /\ done' = FALSE
  /\ UNCHANGED <<addr, rd, wr, data_rd>>

RdWrAssert ==
  /\ fsm = "RD_WR_ASSERT"
  /\ IF cycles > 0
     THEN cycles' = cycles - 1 /\ UNCHANGED <<fsm, rd, wr>>
     ELSE /\ fsm' = "RDY_WAIT" /\ cycles' = WaitCycles
          /\ rd' = ~request.we /\ wr' = request.we
  /\ done' = FALSE
  /\ UNCHANGED <<addr, data_o, data_rd>>

RdyWait ==
  /\ fsm = "RDY_WAIT"
  /\ IF cycles = 0 /\ rdy
     THEN fsm' = "DONE_WAIT" /\ data_rd' = data_i /\ rd' = FALSE /\ wr' = FALSE
     ELSE UNCHANGED <<fsm, data_rd, rd, wr>>
  /\ cycles' = IF cycles > 0 THEN cycles - 1 ELSE 0
  /\ done' = FALSE
  /\ UNCHANGED <<addr, data_o>>

DoneWait_inverted ==           \* fault: waits for a ready line that is gone
  /\ fsm = "DONE_WAIT"
  /\ fsm' = IF rdy THEN "IDLE" ELSE fsm
  /\ done' = rdy
  /\ UNCHANGED <<cycles, addr, data_o, rd, wr, data_rd>>
DoneWait ==
  /\ fsm = "DONE_WAIT"
  /\ fsm' = IF rdy THEN fsm ELSE "IDLE"
  /\ done' = ~rdy
  /\ UNCHANGED <<cycles, addr, data_o, rd, wr, data_rd>>

Interface == Idle \/ CsAssert \/ RdWrAssert \/ RdyWait \/ DoneWait

(* One clock of the SoC. *)
Clk ==
  /\ Processor
  /\ selected_q1' = cyc /\ selected_stb' = starts
  /\ Interface
  /\ rdy' = (rdy /\ ~reset')
  /\ UNCHANGED touched

-----------------------------------------------------------------------------
(* The chip, on its own time: it does what a strobe asks and raises its     *)
(* ready line, and lowers it when the strobe is gone.                       *)

Answer ==
  /\ rd \/ wr
  /\ ~rdy /\ rdy' = TRUE
  /\ \/ rd /\ Read([op |-> "read", at |-> addr])
     \/ wr /\ Store([at |-> addr], data_o)
  /\ touched' = IF InLoop THEN touched \cup {addr} ELSE touched
  /\ UNCHANGED <<processor_vars, interface_vars>>

Release ==
  /\ ~rd /\ ~wr
  /\ rdy /\ rdy' = FALSE
  /\ UNCHANGED <<processor_vars, interface_vars, regs, stale, reset, touched>>

(* The FPGA is loaded again, in the middle of whatever it does.  The chip's *)
(* ready line is as it was, and goes with the strobe or with the reset.     *)
Reload ==
  /\ Restart
  /\ request' = NoRequest /\ cyc' = FALSE
  /\ selected_q1' = FALSE /\ selected_stb' = FALSE
  /\ fsm' = "IDLE" /\ cycles' = 0 /\ addr' = 0
  /\ data_o' = Zero /\ rd' = FALSE /\ wr' = FALSE /\ data_rd' = Zero /\ done' = FALSE
  /\ UNCHANGED rdy

BusNext == Clk \/ Answer \/ Release \/ Reload

(* The clock runs; the chip answers.  Nothing makes the FPGA restart, or a  *)
(* host write.                                                              *)
BusSpec ==
  /\ BusInit /\ [][BusNext]_bus_vars
  /\ WF_bus_vars(Clk) /\ WF_bus_vars(Answer) /\ WF_bus_vars(Release)

-----------------------------------------------------------------------------
(* The access under way has reached the chip. *)
Reached == (fsm = "RDY_WAIT" /\ rdy) \/ fsm = "DONE_WAIT" \/ done
pc_reached == IF Reached /\ ~InLoop /\ ~SecondIsDue THEN pc + 1 ELSE pc
Abstract == INSTANCE RegisterProgram WITH pc <- pc_reached

(* The bus implements the program: every access happens once, in order and  *)
(* with its own data, whatever the clocks the chip takes, and whenever the  *)
(* FPGA is loaded again (microprocessor.py 62-141, controller.py 109-134).  *)
(* A second start for one access, a ready line taken for that of the next   *)
(* one, or an early acknowledge would lose, repeat or mix up accesses.      *)
ImplementsProgram == Abstract!Init /\ [][Abstract!Next]_(Abstract!vars)

(* FieldsStick of the registers as the accesses reach them: a modify, two    *)
(* bus cycles, keeps what the cycles before it have set.                    *)
FieldsStickOnBus == Abstract!FieldsStick

(* The firmware reaches its loop unless it is restarted for ever: no bus    *)
(* cycle waits for a ready line that does not come or does not go           *)
(* (microprocessor.py 115, 131).                                            *)
ReachesLoop == []<><<Reload>>_bus_vars \/ []<>InLoop
=============================================================================

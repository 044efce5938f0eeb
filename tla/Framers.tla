------------------------------ MODULE Framers ------------------------------
(***************************************************************************)
(* Both sides of the framers as the applet wires them: one SystemTiming,    *)
(* its bits cut by the serial clock of one receive framer, drives the       *)
(* receive blocks and their adapter and the transmit blocks and theirs      *)
(* (applets/tedium-fpga 112-157).  They share the strobes and nothing else, *)
(* so the clocks a bit must have are what the slower of the two needs.      *)
(*                                                                         *)
(* The receive side keeps its names; those of the transmit side that it     *)
(* has too are tx_...                                                      *)
(***************************************************************************)
EXTENDS RxFramer

CONSTANTS
  tx_report_length,   \* bytes of a transmit frame report (4)
  RecordMod, NoByte   \* see TxFramer

VARIABLES
  fifo_r_ptr, r_data, tx_fsm, tx_count, tx_address, report,
  tx_timeslot_data, tx_ser_shifter, started, line_record

Tx == INSTANCE TxFramer WITH
  report_length <- tx_report_length,
  fsm <- tx_fsm, count <- tx_count, address <- tx_address,
  timeslot_data <- tx_timeslot_data, ser_shifter <- tx_ser_shifter

ASSUME TransmitAssumption == Tx!TxFramerAssumption /\ Tx!TxClocksAssumption

framers_vars == <<timing_vars, rx_vars, Tx!tx_vars>>

FramersInit == Init /\ Tx!Init

(* One sync clock, of both sides. *)
FramersNext ==
  \E bit_end_strobe \in BOOLEAN : Clk(bit_end_strobe) /\ Tx!Clk(bit_end_strobe)

FramersSpec == FramersInit /\ [][FramersNext]_framers_vars

-----------------------------------------------------------------------------
(* A line frame sent is one record of the transmit FIFO: see TxFramer, at    *)
(* TxBlock and TxFIFOToFramerAdapter.                                       *)
LineFrameIsRecord == Tx!LineFrameIsRecord

(* Both adapters look at the strobes in WAIT only (rx_framer_to_fifo.py 53, *)
(* tx_fifo_to_framer.py 53): whenever one comes that an adapter must act    *)
(* on it is back there, however the bits of the serial clock are spaced.    *)
NoStrobeMissedByEither == NoStrobeMissed /\ Tx!NoStrobeMissed
=============================================================================

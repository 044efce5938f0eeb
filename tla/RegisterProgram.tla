-------------------------- MODULE RegisterProgram --------------------------
(***************************************************************************)
(* The firmware's start-up as the framer chip sees it: a program, the      *)
(* sequence of accesses that main makes before its loop, run against the   *)
(* chip's registers.  Which program is a parameter (FramerSetup has that   *)
(* of tedium-soc/src/main.rs); what an access does is here                 *)
(* (xrt86vx38-pac/src/device.rs).                                          *)
(*                                                                         *)
(* The FPGA, the SoC with it, may be loaded again at any time.  The chip   *)
(* keeps its registers then, with whatever a host had written to them.     *)
(***************************************************************************)
EXTENDS Naturals, Sequences, FiniteSets

CONSTANTS
  Program,         \* the accesses, in order
  ResetAt,         \* the one that releases the chip from reset
  Addresses,       \* the registers that hold what is written to them
  StatusAddresses, \* the registers that a read clears
  Defaults,        \* Addresses -> byte: the registers after a reset
  HostBytes,       \* what a host may write
  MaxHostWrites    \* bound: registers a host writes to, in one life of the SoC

Bit == {0, 1}
Operations ==
  {"read", "write", "modify", "outputs_on", "outputs_off", "reset_on", "reset_off"}

(* A step names the operation, the register, and the bits it sets by name. *)
Step == [op : Operations, at : Nat, bits : UNION {[S -> Bit] : S \in SUBSET (1..8)}]
Writes(step) == step.op \in {"write", "modify"}

ASSUME ProgramAssumption ==
  /\ Program \in Seq(Step)
  /\ \A k \in 1..Len(Program) : Writes(Program[k]) => Program[k].at \in Addresses
ASSUME AddressesAssumption ==
  /\ Addresses \subseteq Nat /\ StatusAddresses \subseteq Nat
  /\ Defaults \in [Addresses -> [1..8 -> Bit]]
  /\ HostBytes \subseteq [1..8 -> Bit]
  /\ MaxHostWrites \in Nat

(* One reset pulse, before every access to the registers that hold.        *)
ASSUME ResetAssumption ==
  /\ ResetAt \in 2..Len(Program)
  /\ \A k \in 1..Len(Program) :
       /\ Program[k].op = "reset_on" <=> k = ResetAt - 1
       /\ Program[k].op = "reset_off" <=> k = ResetAt
       /\ Writes(Program[k]) => k > ResetAt

(* A write sets every bit of the register: it must name those that an      *)
(* earlier step of the program set by name, or it loses them.              *)
ASSUME WritesComeFirst ==
  \A j, k \in 1..Len(Program) :
    /\ j < k /\ Writes(Program[j]) /\ Program[k].op = "write"
    /\ Program[j].at = Program[k].at
    => DOMAIN Program[j].bits \subseteq DOMAIN Program[k].bits

VARIABLES
  pc,       \* the next step; Len(Program) + 1 in the main loop
  regs,     \* Addresses -> byte
  stale,    \* status registers that still hold what was latched before the start
  reset,    \* the chip is held in reset
  outputs,  \* the FPGA drives its outputs to the chip
  touched   \* registers the host has written to since the SoC started

vars == <<pc, regs, stale, reset, outputs, touched>>

Init ==
  /\ pc = 1
  /\ regs = Defaults /\ stale = StatusAddresses
  /\ reset = FALSE /\ outputs = FALSE
  /\ touched = {}

InLoop == pc = Len(Program) + 1

-----------------------------------------------------------------------------
(* What the accesses make of a register. *)

Written(old, bits) == [b \in 1..8 |-> IF b \in DOMAIN bits THEN bits[b] ELSE 0]
Modified_unread(old, bits) == Written(old, bits)   \* fault: starts from zero
Modified(old, bits) == [b \in 1..8 |-> IF b \in DOMAIN bits THEN bits[b] ELSE old[b]]

(* A chip in reset keeps its defaults. *)
Store(step, value) ==
  /\ regs' = IF reset THEN regs ELSE [regs EXCEPT ![step.at] = value]
  /\ UNCHANGED <<stale, reset, outputs>>

Read_keeps(step) ==              \* fault: a read does not clear
  step.op = "read" /\ UNCHANGED <<regs, stale, reset, outputs>>
(* Access::read: a status register is cleared by it. *)
Read(step) ==
  /\ step.op = "read"
  /\ stale' = IF reset THEN stale ELSE stale \ {step.at}
  /\ UNCHANGED <<regs, reset, outputs>>

(* Access::write starts from zero, Access::modify from what it reads. *)
Write(step) == step.op = "write" /\ Store(step, Written(regs[step.at], step.bits))
Modify(step) == step.op = "modify" /\ Store(step, Modified(regs[step.at], step.bits))

(* FramerControl.  What the lines did before is latched when reset ends. *)
SetOutputs(step) ==
  /\ step.op \in {"outputs_on", "outputs_off"}
  /\ outputs' = (step.op = "outputs_on")
  /\ UNCHANGED <<regs, stale, reset>>

SetReset_unconnected(step) ==    \* fault: the pulse does not reach the chip
  /\ step.op \in {"reset_on", "reset_off"}
  /\ UNCHANGED <<regs, stale, reset, outputs>>
SetReset(step) ==
  \/ /\ step.op = "reset_on"
     /\ reset' = TRUE
     /\ regs' = Defaults
     /\ UNCHANGED <<stale, outputs>>
  \/ /\ step.op = "reset_off"
     /\ reset' = FALSE
     /\ stale' = StatusAddresses
     /\ UNCHANGED <<regs, outputs>>

Run ==
  /\ pc <= Len(Program)
  /\ LET step == Program[pc]
     IN  Read(step) \/ Write(step) \/ Modify(step) \/ SetOutputs(step) \/ SetReset(step)
  /\ pc' = pc + 1
  /\ UNCHANGED touched

(* In the loop a host writes to any register, by a command. *)
HostWrite ==
  /\ InLoop
  /\ Cardinality(touched) < MaxHostWrites
  /\ \E a \in Addresses, byte \in HostBytes :
       /\ regs' = [regs EXCEPT ![a] = byte]
       /\ touched' = touched \cup {a}
  /\ UNCHANGED <<pc, stale, reset, outputs>>

Restart_driving ==               \* fault: the output enable outlives the restart
  /\ pc' = 1
  /\ reset' = FALSE
  /\ touched' = {}
  /\ UNCHANGED <<regs, stale, outputs>>
(* The FPGA is loaded again: its registers start over, the chip's do not. *)
Restart ==
  /\ pc' = 1
  /\ outputs' = FALSE /\ reset' = FALSE
  /\ touched' = {}
  /\ UNCHANGED <<regs, stale>>

Next == Run \/ HostWrite \/ Restart
Spec == Init /\ [][Next]_vars

-----------------------------------------------------------------------------
TypeOK ==
  /\ pc \in 1..(Len(Program) + 1)
  /\ regs \in [Addresses -> [1..8 -> Bit]]
  /\ stale \subseteq StatusAddresses
  /\ reset \in BOOLEAN /\ outputs \in BOOLEAN
  /\ touched \subseteq Addresses

(* Step k decides bit b of the register at a. *)
Sets(k, a, b) ==
  /\ Program[k].at = a
  /\ \/ Program[k].op = "write"
     \/ Program[k].op = "modify" /\ b \in DOMAIN Program[k].bits
Given(k, b) == IF b \in DOMAIN Program[k].bits THEN Program[k].bits[b] ELSE 0

(* The register at a is what the first n steps make of a chip after reset:  *)
(* each bit is as the last step that decides it left it, or the default.    *)
Image(n, a) ==
  \A b \in 1..8 :
    \/ \E k \in 1..n : /\ Sets(k, a, b)
                       /\ \A j \in (k + 1)..n : ~Sets(j, a, b)
                       /\ regs[a][b] = Given(k, b)
    \/ /\ \A k \in 1..n : ~Sets(k, a, b)
       /\ regs[a][b] = Defaults[a][b]

(* Every start is alike: when the loop begins, every register the host has  *)
(* not written to since is what the program makes of a chip after reset,    *)
(* whatever an earlier life of the SoC, or a host in it, had left there     *)
(* (main.rs 575-600: most interrupt registers are only modified).           *)
EveryStartIsAlike == InLoop => \A a \in Addresses \ touched : Image(Len(Program), a)

(* What the program has set by name stays set: a field keeps the value it   *)
(* was given until another step names it.  A write starts from zero, so one *)
(* that comes after a modify of the same register would undo it, and a      *)
(* modify that did not read first would undo the one before (main.rs        *)
(* 285-297 configures one register in two steps).                           *)
FieldsStick ==
  \A j \in 1..(pc - 1) :
    /\ Writes(Program[j]) /\ Program[j].at \notin touched
    => \A b \in DOMAIN Program[j].bits :
         \/ regs[Program[j].at][b] = Program[j].bits[b]
         \/ \E k \in (j + 1)..(pc - 1) :
              /\ Writes(Program[k]) /\ Program[k].at = Program[j].at
              /\ b \in DOMAIN Program[k].bits
=============================================================================

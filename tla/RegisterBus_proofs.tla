------------------------- MODULE RegisterBus_proofs -------------------------
(***************************************************************************)
(* The bus implements the program, for every program that meets the        *)
(* assumptions, any number of wait cycles and any chip that answers.       *)
(*                                                                         *)
(* The invariant says in which phase of its cycle the bus is: what the     *)
(* processor asks for, which registers of the peripheral and the interface *)
(* already have it, and that the ready line is up in two of the phases     *)
(* only (or left from an earlier life, until the reset pulse).             *)
(***************************************************************************)
EXTENDS StartUp, TLAPS

(* The phases of a cycle, in their order. *)
Idling == ~rd /\ ~wr /\ ~done
Resting == ~cyc /\ fsm = "IDLE" /\ ~selected_stb /\ Idling
Starting == cyc /\ fsm = "IDLE" /\ (selected_q1 <=> selected_stb) /\ Idling
Held == cyc /\ selected_q1 /\ ~selected_stb /\ addr = request.adr
Addressing == fsm = "CS_ASSERT" /\ Held /\ Idling
Strobing == fsm = "RD_WR_ASSERT" /\ Held /\ data_o = request.data /\ Idling
Waiting ==
  /\ fsm = "RDY_WAIT" /\ Held /\ data_o = request.data /\ ~done
  /\ (rd <=> ~request.we) /\ (wr <=> request.we)
Ending == fsm = "DONE_WAIT" /\ Held /\ Idling
Finished == fsm = "IDLE" /\ Held /\ done /\ ~rd /\ ~wr

Phase ==
  Resting \/ Starting \/ Addressing \/ Strobing \/ Waiting \/ Ending \/ Finished

(* What is asked for is what the program, or the host, is about to do. *)
AskedByHost ==
  /\ \E a \in Addresses, value \in HostBytes : request = WriteOf(a, value)
  /\ Reached \/ Cardinality(touched) < MaxHostWrites
AskedByWrite(access) ==
  access.op = "write" /\ request = WriteOf(access.at, Written(Zero, access.bits))
AskedByRead(access) ==
  /\ access.op \in {"read", "modify"} /\ request = ReadOf(access.at)
  /\ access.op = "modify" /\ (Ending \/ Finished) => data_rd = regs[access.at]
AskedByModify(access) ==
  /\ access.op = "modify" /\ request.we /\ request.adr = access.at
  /\ Reached \/ request.data = Modified(regs[access.at], access.bits)

Asked ==
  /\ cyc /\ InLoop => AskedByHost
  /\ cyc /\ ~InLoop => \/ AskedByWrite(Program[pc])
                       \/ AskedByRead(Program[pc])
                       \/ AskedByModify(Program[pc])
  /\ ~cyc => \/ request = NoRequest
             \/ ~InLoop /\ AskedByModify(Program[pc])

BusInv ==
  /\ pc \in 1..(Len(Program) + 1)
  /\ Phase
  /\ Asked
  /\ rdy => Waiting \/ Ending \/ pc < ResetAt
  /\ reset <=> pc = ResetAt
  /\ cyc \/ request # NoRequest => pc > ResetAt

-----------------------------------------------------------------------------
LEMMA Lengths == Len(Program) \in Nat /\ ResetAt \in Nat /\ 2 <= ResetAt /\ ResetAt <= Len(Program)
  BY ProgramAssumption, ResetAssumption

LEMMA BusInvInit == BusInit => BusInv
<1> SUFFICES ASSUME BusInit PROVE BusInv
  OBVIOUS
<1>1. ~cyc /\ ~selected_stb /\ ~rd /\ ~wr /\ ~done /\ ~rdy /\ ~reset
  BY Zenon DEF BusInit, Init
<1>2. pc = 1 /\ fsm = "IDLE" /\ request = NoRequest
  BY DEF BusInit, Init
<1> QED
  BY <1>1, <1>2, Lengths DEF BusInv, Phase, Resting, Idling, Asked

-----------------------------------------------------------------------------
(* What a clock does in each phase. *)

LEMMA ClkResting ==
  ASSUME BusInv, Clk, Resting
  PROVE  /\ BeginsSecond \/ BeginsStep \/ SetsControl \/ Loops
         /\ fsm' = "IDLE" /\ ~done' /\ ~rd' /\ ~wr' /\ ~selected_q1' /\ ~selected_stb'
         /\ addr' = addr /\ data_o' = data_o /\ data_rd' = data_rd
<1>1. BeginsSecond \/ BeginsStep \/ SetsControl \/ Loops
  BY DEF Clk, Processor, Acknowledged, Waits, Resting
<1>2. Idle
  BY DEF Clk, Interface, Idle, CsAssert, RdWrAssert, RdyWait, DoneWait, Resting
<1>3. ~selected_q1' /\ ~selected_stb'
  BY Zenon DEF Clk, Resting, starts
<1>4. ~done' /\ ~rd' /\ ~wr'
  BY <1>2, Zenon DEF Idle, Resting, Idling
<1> QED
  BY <1>1, <1>2, <1>3, <1>4 DEF Idle, Resting

LEMMA NotInReset == BusInv /\ cyc => ~reset
<1> SUFFICES ASSUME BusInv, cyc PROVE ~reset
  OBVIOUS
<1>1. pc # ResetAt
  BY Lengths DEF BusInv
<1> QED
  BY <1>1, Zenon DEF BusInv

(* Until it is acknowledged, the processor waits. *)
LEMMA ClkHeld ==
  ASSUME BusInv, Clk, cyc, ~done
  PROVE  /\ cyc' /\ selected_q1' /\ (selected_stb' <=> ~selected_q1)
         /\ UNCHANGED <<pc, regs, stale, reset, outputs, request, touched>>
         /\ rdy' <=> rdy
<1>1. Waits
  BY DEF Clk, Processor, Acknowledged, BeginsSecond, BeginsStep, SetsControl, Loops
<1>2. cyc' /\ selected_q1' /\ (selected_stb' <=> ~selected_q1)
  BY <1>1, Zenon DEF Clk, Waits, starts
<1>3. ~reset'
  BY <1>1, NotInReset, Zenon DEF Waits
<1> QED
  BY <1>1, <1>2, <1>3, Zenon DEF Waits, Clk

LEMMA ClkStarting ==
  ASSUME BusInv, Clk, Starting
  PROVE  (Starting' \/ Addressing') /\ data_rd' = data_rd
<1>1. Idle
  BY DEF Clk, Interface, Idle, CsAssert, RdWrAssert, RdyWait, DoneWait, Starting
<1>2. cyc /\ ~done
  BY DEF Starting, Idling
<1>3. cyc' /\ selected_q1' /\ (selected_stb' <=> ~selected_q1) /\ request' = request
  BY <1>2, ClkHeld
<1>4. ~done' /\ ~rd' /\ ~wr'
  BY <1>1, Zenon DEF Idle, Starting, Idling
<1>5. CASE selected_stb
  <2>1. fsm' = "CS_ASSERT" /\ addr' = request'.adr
    BY <1>1, <1>3, <1>5 DEF Idle
  <2>2. ~selected_stb'
    BY <1>3, <1>5, Zenon DEF Starting
  <2> QED
    BY <1>1, <1>3, <1>4, <2>1, <2>2, Zenon DEF Addressing, Held, Idling, Idle
<1>6. CASE ~selected_stb
  <2>1. fsm' = "IDLE"
    BY <1>1, <1>6 DEF Idle
  <2>2. selected_stb'
    BY <1>3, <1>6, Zenon DEF Starting
  <2> QED
    BY <1>1, <1>3, <1>4, <2>1, <2>2, Zenon DEF Starting, Idling, Idle
<1> QED
  BY <1>5, <1>6

LEMMA HeldStays ==
  ASSUME BusInv, Clk, Held, ~done, addr' = addr
  PROVE  Held'
<1>1. cyc' /\ selected_q1' /\ (selected_stb' <=> ~selected_q1) /\ request' = request
  BY ClkHeld DEF Held
<1>2. ~selected_stb'
  BY <1>1, Zenon DEF Held
<1> QED
  BY <1>1, <1>2 DEF Held

LEMMA ClkAddressing ==
  ASSUME BusInv, Clk, Addressing
  PROVE  Strobing' /\ data_rd' = data_rd
<1>1. CsAssert
  BY DEF Clk, Interface, Idle, CsAssert, RdWrAssert, RdyWait, DoneWait, Addressing
<1>2. ~done' /\ ~rd' /\ ~wr'
  BY <1>1, Zenon DEF CsAssert, Addressing, Idling
<1>3. Held' /\ request' = request
  BY <1>1, HeldStays, ClkHeld DEF CsAssert, Addressing, Idling, Held
<1> QED
  BY <1>1, <1>2, <1>3 DEF CsAssert, Strobing, Idling

LEMMA ClkStrobing ==
  ASSUME BusInv, Clk, Strobing
  PROVE  (Strobing' \/ Waiting') /\ data_rd' = data_rd
<1>1. RdWrAssert
  BY DEF Clk, Interface, Idle, CsAssert, RdWrAssert, RdyWait, DoneWait, Strobing
<1>2. Held' /\ request' = request
  BY <1>1, HeldStays, ClkHeld DEF RdWrAssert, Strobing, Idling, Held
<1>3. ~done' /\ data_o' = data_o /\ data_rd' = data_rd
  BY <1>1, Zenon DEF RdWrAssert
<1>4. CASE cycles > 0
  <2>1. fsm' = fsm /\ rd' = rd /\ wr' = wr
    BY <1>1, <1>4 DEF RdWrAssert
  <2>2. ~rd' /\ ~wr'
    BY <2>1, Zenon DEF Strobing, Idling
  <2> QED
    BY <1>2, <1>3, <2>1, <2>2 DEF Strobing, Idling
<1>5. CASE ~(cycles > 0)
  <2>1. fsm' = "RDY_WAIT" /\ rd' = ~request.we /\ wr' = request.we
    BY <1>1, <1>5 DEF RdWrAssert
  <2>2. (rd' <=> ~request.we) /\ (wr' <=> request.we)
    BY <2>1, Zenon
  <2> QED
    BY <1>2, <1>3, <2>1, <2>2 DEF Strobing, Waiting
<1> QED
  BY <1>4, <1>5

LEMMA ClkWaiting ==
  ASSUME BusInv, Clk, Waiting
  PROVE  \/ Waiting' /\ (rdy' <=> rdy)
         \/ Ending' /\ rdy /\ data_rd' = data_i
<1>1. RdyWait
  BY DEF Clk, Interface, Idle, CsAssert, RdWrAssert, RdyWait, DoneWait, Waiting
<1>2. Held' /\ request' = request /\ (rdy' <=> rdy)
  BY <1>1, HeldStays, ClkHeld DEF RdyWait, Waiting, Held
<1>3. ~done' /\ data_o' = data_o
  BY <1>1, Zenon DEF RdyWait
<1>4. CASE cycles = 0 /\ rdy
  <2>1. fsm' = "DONE_WAIT" /\ data_rd' = data_i /\ ~rd' /\ ~wr'
    BY <1>1, <1>4, Zenon DEF RdyWait
  <2> QED
    BY <1>2, <1>3, <1>4, <2>1 DEF Ending, Idling
<1>5. CASE ~(cycles = 0 /\ rdy)
  <2>1. fsm' = fsm /\ rd' = rd /\ wr' = wr
    BY <1>1, <1>5, Zenon DEF RdyWait
  <2> QED
    BY <1>2, <1>3, <2>1, Zenon DEF Waiting
<1> QED
  BY <1>4, <1>5

LEMMA ClkEnding ==
  ASSUME BusInv, Clk, Ending
  PROVE  (Ending' \/ (Finished' /\ ~rdy')) /\ data_rd' = data_rd
<1>1. DoneWait
  BY DEF Clk, Interface, Idle, CsAssert, RdWrAssert, RdyWait, DoneWait, Ending
<1>2. Held' /\ request' = request /\ (rdy' <=> rdy)
  BY <1>1, HeldStays, ClkHeld DEF DoneWait, Ending, Idling, Held
<1>3. ~rd' /\ ~wr' /\ data_rd' = data_rd
  BY <1>1, Zenon DEF DoneWait, Ending, Idling
<1>4. CASE rdy
  <2>1. fsm' = fsm /\ ~done'
    BY <1>1, <1>4, Zenon DEF DoneWait
  <2> QED
    BY <1>2, <1>3, <2>1 DEF Ending, Idling
<1>5. CASE ~rdy
  <2>1. fsm' = "IDLE" /\ done'
    BY <1>1, <1>5, Zenon DEF DoneWait
  <2> QED
    BY <1>2, <1>3, <1>5, <2>1 DEF Finished
<1> QED
  BY <1>4, <1>5

LEMMA ClkFinished ==
  ASSUME BusInv, Clk, Finished
  PROVE  Acknowledged /\ Resting' /\ touched' = touched
<1>1. Acknowledged
  BY DEF Clk, Processor, Waits, BeginsSecond, BeginsStep, SetsControl, Loops, Finished, Held
<1>2. Idle
  BY DEF Clk, Interface, Idle, CsAssert, RdWrAssert, RdyWait, DoneWait, Finished
<1>3. ~cyc' /\ ~done' /\ ~rd' /\ ~wr'
  BY <1>1, <1>2, Zenon DEF Acknowledged, Idle, Finished
<1>4. ~selected_stb'
  BY Zenon DEF Clk, starts, Finished, Held
<1>5. fsm' = "IDLE"
  BY <1>2 DEF Idle, Finished, Held
<1> QED
  BY <1>1, <1>3, <1>4, <1>5 DEF Resting, Idling, Clk

-----------------------------------------------------------------------------
(* The invariant is kept, and every clock is a stutter of the program or a  *)
(* step of its control lines.                                               *)

LEMMA ReachedIn ==
  ASSUME Phase
  PROVE  Reached <=> (Waiting /\ rdy) \/ Ending \/ Finished
BY DEF Phase, Reached, Resting, Starting, Addressing, Strobing, Waiting, Ending, Finished, Idling

LEMMA ReachedInNext ==
  ASSUME Phase'
  PROVE  Reached' <=> (Waiting' /\ rdy') \/ Ending' \/ Finished'
BY DEF Phase, Reached, Resting, Starting, Addressing, Strobing, Waiting, Ending, Finished, Idling

(* Nothing that was asked for is changed, and nothing reaches the chip.     *)
LEMMA KeepsInv ==
  ASSUME BusInv, cyc, cyc', Phase', UNCHANGED <<pc, regs, stale, reset, outputs, request, touched>>,
         Reached' <=> Reached, rdy' => rdy,
         rdy' => Waiting' \/ Ending',
         Ending' \/ Finished' => \/ data_rd' = data_rd /\ (Ending \/ Finished)
                                 \/ request.we
                                 \/ request.adr \in Addresses => data_rd' = regs[request.adr]
  PROVE  BusInv' /\ UNCHANGED (Abstract!vars)
<1>1. Asked'
  <2>1. InLoop' <=> InLoop
    BY DEF InLoop
  <2>2. CASE InLoop
    <3>1. AskedByHost'
      BY <2>2 DEF BusInv, Asked, AskedByHost
    <3> QED
      BY <2>1, <2>2, <3>1 DEF Asked
  <2>3. CASE ~InLoop /\ AskedByWrite(Program[pc])
    BY <2>1, <2>3 DEF Asked, AskedByWrite
  <2>4. CASE ~InLoop /\ AskedByRead(Program[pc])
    <3>1. ~request.we /\ request.adr = Program[pc].at
      BY <2>4 DEF AskedByRead, ReadOf
    <3>2. Program[pc].op = "modify" => Program[pc].at \in Addresses
      BY <2>4, ProgramAssumption DEF BusInv, InLoop, Writes
    <3>3. Program[pc].op = "modify" /\ (Ending' \/ Finished') => data_rd' = regs[Program[pc].at]
      BY <2>4, <3>1, <3>2 DEF AskedByRead
    <3>4. AskedByRead(Program[pc])'
      BY <2>4, <3>3 DEF AskedByRead
    <3> QED
      BY <2>1, <2>4, <3>4 DEF Asked
  <2>5. CASE ~InLoop /\ AskedByModify(Program[pc])
    BY <2>1, <2>5 DEF Asked, AskedByModify
  <2> QED
    BY <2>2, <2>3, <2>4, <2>5 DEF BusInv, Asked
<1>2. (reset <=> pc = ResetAt)'
  BY Zenon DEF BusInv
<1>3. BusInv'
  BY <1>1, <1>2 DEF BusInv
<1>4. pc_reached' = pc_reached
  BY DEF pc_reached, InLoop, SecondIsDue
<1> QED
  BY <1>3, <1>4 DEF Abstract!vars

LEMMA ClkKeepsInv ==
  ASSUME BusInv, Clk, Starting \/ Addressing \/ Strobing \/ Waiting \/ Ending
  PROVE  BusInv' /\ UNCHANGED (Abstract!vars)
<1>1. cyc /\ ~done
  BY DEF Starting, Addressing, Strobing, Waiting, Ending, Held, Idling
<1>2. /\ cyc' /\ (rdy' <=> rdy)
      /\ UNCHANGED <<pc, regs, stale, reset, outputs, request, touched>>
  BY <1>1, ClkHeld
<1>3. pc > ResetAt /\ ~(pc < ResetAt)
  BY <1>1, Lengths DEF BusInv
<1>4. Starting \/ Addressing \/ Strobing => ~rdy
  BY <1>3 DEF BusInv, Starting, Addressing, Strobing, Waiting, Ending
<1>5. CASE Starting
  BY <1>1, <1>2, <1>4, <1>5, ClkStarting, KeepsInv, ReachedIn, ReachedInNext
     DEF Phase, Starting, Addressing, Waiting, Ending, Finished, Idling
<1>6. CASE Addressing
  BY <1>1, <1>2, <1>4, <1>6, ClkAddressing, KeepsInv, ReachedIn, ReachedInNext
     DEF Phase, Addressing, Strobing, Waiting, Ending, Finished, Idling
<1>7. CASE Strobing
  BY <1>1, <1>2, <1>4, <1>7, ClkStrobing, KeepsInv, ReachedIn, ReachedInNext
     DEF Phase, Strobing, Waiting, Ending, Finished, Idling
<1>8. CASE Waiting
  <2>1. request.we \/ (request.adr \in Addresses => data_i = regs[request.adr])
    BY <1>8 DEF Waiting, Held, data_i
  <2> QED
    BY <1>1, <1>2, <1>8, <2>1, ClkWaiting, KeepsInv, ReachedIn, ReachedInNext
       DEF Phase, Waiting, Ending, Finished, Idling
<1>9. CASE Ending
  BY <1>1, <1>2, <1>9, ClkEnding, KeepsInv, ReachedIn, ReachedInNext
     DEF Phase, Waiting, Ending, Finished, Idling
<1> QED
  BY <1>5, <1>6, <1>7, <1>8, <1>9

LEMMA ClkAcknowledges ==
  ASSUME BusInv, Clk, Finished
  PROVE  BusInv' /\ UNCHANGED (Abstract!vars)
<1>1. /\ Acknowledged /\ Resting' /\ ~cyc' /\ Phase'
      /\ UNCHANGED <<regs, stale, reset, outputs, touched>>
  BY ClkFinished DEF Acknowledged, Resting, Phase
<1>2. cyc /\ pc > ResetAt /\ ~rdy
  BY Lengths DEF BusInv, Finished, Held, Waiting, Ending, Idling
<1>3. ~rdy'
  BY <1>2, Zenon DEF Clk
<1>4. Reached /\ ~Reached'
  BY <1>1, ReachedIn, ReachedInNext DEF BusInv, Resting, Finished, Idling, Waiting, Ending, Held
<1>5. CASE SecondIsDue
  <2>1. /\ pc' = pc /\ ~InLoop /\ Program[pc].op = "modify" /\ ~request.we
        /\ request' = WriteOf(request.adr, Modified(data_rd, Program[pc].bits))
    BY <1>1, <1>5 DEF Acknowledged, SecondIsDue
  <2>2. AskedByRead(Program[pc])
    BY <1>2, <2>1 DEF BusInv, Asked, AskedByWrite, AskedByModify
  <2>3. request.adr = Program[pc].at /\ data_rd = regs[Program[pc].at]
    BY <2>1, <2>2 DEF AskedByRead, ReadOf
  <2>4. AskedByModify(Program[pc])'
    BY <1>1, <2>1, <2>3 DEF AskedByModify, WriteOf
  <2>5. Asked'
    BY <1>1, <2>1, <2>4 DEF Asked, InLoop
  <2>6. (reset <=> pc = ResetAt)'
    BY <1>1, <2>1, Zenon DEF BusInv
  <2>7. pc_reached' = pc_reached
    BY <1>4, <1>5, <2>1 DEF pc_reached
  <2> QED
    BY <1>1, <1>2, <1>3, <2>1, <2>5, <2>6, <2>7 DEF BusInv, Abstract!vars
<1>6. CASE ~SecondIsDue
  <2>1. request' = NoRequest /\ pc' = IF InLoop THEN pc ELSE pc + 1
    BY <1>1, <1>6 DEF Acknowledged
  <2>2. pc' \in 1..(Len(Program) + 1) /\ pc' > ResetAt
    BY <1>2, <2>1, Lengths DEF BusInv, InLoop
  <2>3. Asked'
    BY <1>1, <2>1 DEF Asked
  <2>4. ~reset /\ pc' # ResetAt
    BY <1>2, <2>2, NotInReset, Lengths
  <2>5. (reset <=> pc = ResetAt)'
    BY <1>1, <2>4, Zenon
  <2>6. pc_reached' = pc_reached
    BY <1>4, <1>6, <2>1 DEF pc_reached
  <2> QED
    BY <1>1, <1>2, <1>3, <2>1, <2>2, <2>3, <2>5, <2>6 DEF BusInv, Abstract!vars
<1> QED
  BY <1>5, <1>6

(* The accesses come after the reset pulse. *)
LEMMA AccessesAfterReset ==
  ASSUME NEW k \in 1..Len(Program), Program[k].op \in {"read", "write", "modify"}
  PROVE  k > ResetAt
<1>1. ~(k < ResetAt)
  BY Lengths, BusAssumption
<1>2. k # ResetAt
  BY Lengths, ResetAssumption
<1> QED
  BY <1>1, <1>2, Lengths

LEMMA ClkRests ==
  ASSUME BusInv, Clk, Resting
  PROVE  BusInv' /\ [Abstract!Next]_(Abstract!vars)
<1>1. /\ BeginsSecond \/ BeginsStep \/ SetsControl \/ Loops
      /\ fsm' = "IDLE" /\ ~done' /\ ~rd' /\ ~wr' /\ ~selected_q1' /\ ~selected_stb'
      /\ touched' = touched
  BY ClkResting DEF Clk
<1>2. Phase' /\ ~Reached'
  BY <1>1 DEF Phase, Resting, Starting, Idling, Reached
<1>3. ~cyc /\ ~Reached /\ (rdy => pc < ResetAt)
  BY Lengths DEF BusInv, Reached, Resting, Idling, Waiting, Ending
<1>4. pc_reached = pc /\ pc_reached' = pc'
  BY <1>2, <1>3 DEF pc_reached
<1>5. rdy' => rdy /\ ~reset'
  BY Zenon DEF Clk
<1>6. CASE BeginsSecond
  <2>1. /\ cyc' /\ request # NoRequest
        /\ UNCHANGED <<pc, regs, stale, reset, outputs, request>>
    BY <1>6, Zenon DEF BeginsSecond
  <2>2. ~InLoop /\ AskedByModify(Program[pc]) /\ pc > ResetAt
    BY <1>3, <2>1 DEF BusInv, Asked
  <2>3. AskedByModify(Program[pc])'
    BY <1>3, <2>1, <2>2 DEF AskedByModify
  <2>4. Asked'
    BY <2>1, <2>2, <2>3 DEF Asked, InLoop
  <2>5. (reset <=> pc = ResetAt)'
    BY <2>1, Zenon DEF BusInv
  <2>6. ~rdy'
    BY <1>3, <1>5, <2>2, Lengths DEF BusInv
  <2> QED
    BY <1>1, <1>2, <1>4, <2>1, <2>2, <2>4, <2>5, <2>6 DEF BusInv, Abstract!vars
<1>7. CASE BeginsStep
  <2>1. /\ cyc' /\ ~InLoop /\ Program[pc].op \in {"read", "write", "modify"}
        /\ request' = FirstAccess(Program[pc])
        /\ UNCHANGED <<pc, regs, stale, reset, outputs>>
    BY <1>7, Zenon DEF BeginsStep
  <2>2. pc > ResetAt
    BY <2>1, AccessesAfterReset, Lengths DEF BusInv, InLoop
  <2>3. ~(Ending' \/ Finished')
    BY <1>1 DEF Ending, Finished
  <2>4. AskedByWrite(Program[pc])' \/ AskedByRead(Program[pc])'
    BY <2>1, <2>3 DEF AskedByWrite, AskedByRead, FirstAccess
  <2>5. Asked'
    BY <2>1, <2>4 DEF Asked, InLoop
  <2>6. (reset <=> pc = ResetAt)'
    BY <2>1, Zenon DEF BusInv
  <2>7. ~rdy'
    BY <1>3, <1>5, <2>2, Lengths DEF BusInv
  <2> QED
    BY <1>1, <1>2, <1>4, <2>1, <2>2, <2>5, <2>6, <2>7 DEF BusInv, Abstract!vars
<1>8. CASE SetsControl
  <2>1. /\ request = NoRequest /\ request' = NoRequest /\ ~cyc' /\ ~InLoop
        /\ SetOutputs(Program[pc]) \/ SetReset(Program[pc])
        /\ pc' = pc + 1
    BY <1>3, <1>8, Zenon DEF SetsControl
  <2>2. pc \in 1..Len(Program) /\ pc' \in 1..(Len(Program) + 1)
    BY <2>1, Lengths DEF BusInv, InLoop
  <2>3. Asked' /\ (cyc \/ request # NoRequest => pc > ResetAt)'
    BY <2>1 DEF Asked, NoRequest
  <2>4. ASSUME SetOutputs(Program[pc]) PROVE BusInv'
    <3>1. Program[pc].op \notin {"reset_on", "reset_off"} /\ reset' = reset
      BY <2>4, Zenon DEF SetOutputs
    <3>2. pc # ResetAt - 1 /\ pc # ResetAt
      BY <2>2, <3>1, ResetAssumption
    <3>3. pc' # ResetAt
      BY <2>1, <2>2, <3>2, Lengths
    <3>4. ~reset'
      BY <3>1, <3>2, Zenon DEF BusInv
    <3>5. (reset <=> pc = ResetAt)'
      BY <3>3, <3>4, Zenon
    <3>6. rdy' => pc' < ResetAt
      BY <1>3, <1>5, <2>1, <2>2, <3>2, Lengths
    <3> QED
      BY <1>2, <2>1, <2>2, <2>3, <3>5, <3>6 DEF BusInv
  <2>5. ASSUME SetReset(Program[pc]) PROVE BusInv'
    <3>1. CASE Program[pc].op = "reset_on"
      <4>1. reset'
        BY <2>5, <3>1, Zenon DEF SetReset
      <4>2. pc' = ResetAt
        BY <2>1, <2>2, <3>1, ResetAssumption, Lengths
      <4>3. (reset <=> pc = ResetAt)'
        BY <4>1, <4>2, Zenon
      <4>4. ~rdy'
        BY <1>5, <4>1, Zenon
      <4> QED
        BY <1>2, <2>1, <2>2, <2>3, <4>3, <4>4 DEF BusInv
    <3>2. CASE Program[pc].op = "reset_off"
      <4>1. ~reset'
        BY <2>5, <3>2, Zenon DEF SetReset
      <4>2. pc = ResetAt
        BY <2>2, <3>2, ResetAssumption
      <4>3. pc' # ResetAt
        BY <2>1, <4>2, Lengths
      <4>4. (reset <=> pc = ResetAt)'
        BY <4>1, <4>3, Zenon
      <4>5. ~rdy'
        BY <1>3, <1>5, <4>2, Lengths
      <4> QED
        BY <1>2, <2>1, <2>2, <2>3, <4>4, <4>5 DEF BusInv
    <3> QED
      BY <2>5, <3>1, <3>2 DEF SetReset
  <2>6. Abstract!Run
    BY <1>1, <1>4, <2>1, <2>2, Lengths
       DEF Abstract!Run, Abstract!SetOutputs, Abstract!SetReset, SetOutputs, SetReset
  <2> QED
    BY <2>1, <2>4, <2>5, <2>6 DEF Abstract!Next
<1>9. CASE Loops
  <2>1. InLoop /\ pc' = pc /\ UNCHANGED <<regs, stale, reset, outputs>>
    BY <1>9, Zenon DEF Loops
  <2>2. pc > ResetAt
    BY <2>1, Lengths DEF InLoop
  <2>3. (reset <=> pc = ResetAt)'
    BY <2>1, Zenon DEF BusInv
  <2>4. ~rdy'
    BY <1>3, <1>5, <2>2, Lengths DEF BusInv
  <2>5. Asked'
    <3>1. CASE UNCHANGED <<request, cyc>>
      <4>1. ~cyc' /\ request' = NoRequest
        BY <1>3, <2>1, <3>1, Zenon DEF BusInv, Asked
      <4> QED
        BY <4>1 DEF Asked
    <3>2. CASE /\ Cardinality(touched) < MaxHostWrites /\ cyc'
               /\ \E a \in Addresses, value \in HostBytes : request' = WriteOf(a, value)
      <4>1. AskedByHost'
        BY <1>1, <3>2 DEF AskedByHost
      <4> QED
        BY <2>1, <3>2, <4>1 DEF Asked, InLoop
    <3> QED
      BY <1>9, <3>1, <3>2, Zenon DEF Loops
  <2> QED
    BY <1>1, <1>2, <1>4, <2>1, <2>2, <2>3, <2>4, <2>5 DEF BusInv, Abstract!vars
<1> QED
  BY <1>1, <1>6, <1>7, <1>8, <1>9

LEMMA ClkStep == BusInv /\ Clk => BusInv' /\ [Abstract!Next]_(Abstract!vars)
BY ClkRests, ClkKeepsInv, ClkAcknowledges DEF BusInv, Phase

-----------------------------------------------------------------------------
(* The chip's answer is the step of the program, or the host's write.       *)

LEMMA AnswerKeepsInv ==
  ASSUME BusInv, Answer
  PROVE  /\ BusInv' /\ Waiting /\ ~Reached /\ Reached'
         /\ ~reset /\ UNCHANGED <<pc, request, outputs, reset>>
<1>1. /\ Waiting /\ ~rdy
      /\ UNCHANGED <<processor_vars, interface_vars>>
  BY Zenon DEF Answer, BusInv, Phase, Resting, Starting, Addressing, Strobing, Ending, Finished, Idling
<1>2. rdy' /\ reset' = reset
  BY Zenon DEF Answer, Read, Store
<1>3. /\ cyc /\ ~done /\ fsm = "RDY_WAIT"
      /\ Waiting' /\ Phase' /\ Reached' /\ ~Reached
  BY <1>1, <1>2, Zenon
     DEF Waiting, Held, Phase, Reached, processor_vars, interface_vars
<1>4. ~reset
  BY <1>3, NotInReset
<1>5. ~(Ending' \/ Finished')
  BY <1>3 DEF Waiting, Ending, Finished
<1>6. Asked'
  <2>1. UNCHANGED <<pc, request, cyc>>
    BY <1>1 DEF processor_vars
  <2>2. CASE InLoop
    BY <1>3, <2>1, <2>2 DEF BusInv, Asked, AskedByHost, InLoop
  <2>3. CASE ~InLoop
    BY <1>3, <1>5, <2>1, <2>3
       DEF BusInv, Asked, InLoop, AskedByWrite, AskedByRead, AskedByModify
  <2> QED
    BY <2>2, <2>3
<1>7. (reset <=> pc = ResetAt)'
  BY <1>1, <1>2, Zenon DEF BusInv, processor_vars
<1>8. BusInv'
  BY <1>1, <1>3, <1>6, <1>7, Zenon DEF BusInv, processor_vars
<1> QED
  BY <1>1, <1>2, <1>3, <1>4, <1>8, Zenon DEF processor_vars

LEMMA AnswerStep ==
  BusInv /\ stale \subseteq StatusAddresses /\ Answer
  => BusInv' /\ [Abstract!Next]_(Abstract!vars)
<1> SUFFICES ASSUME BusInv, stale \subseteq StatusAddresses, Answer
    PROVE [Abstract!Next]_(Abstract!vars)
  BY AnswerKeepsInv
<1>1. /\ Waiting /\ ~Reached /\ Reached' /\ ~reset
      /\ UNCHANGED <<pc, request, outputs, reset>>
  BY AnswerKeepsInv
<1>2. cyc /\ addr = request.adr /\ data_o = request.data
  BY <1>1 DEF Waiting, Held
<1>3. pc_reached = pc
  BY <1>1 DEF pc_reached
<1>4. CASE request.we
  <2>1. wr /\ ~rd
    BY <1>1, <1>4, Zenon DEF Waiting
  <2>2. /\ regs' = [regs EXCEPT ![request.adr] = request.data] /\ UNCHANGED stale
        /\ touched' = IF InLoop THEN touched \cup {request.adr} ELSE touched
    BY <1>1, <1>2, <2>1 DEF Answer, Store
  <2>3. CASE InLoop
    <3>1. PICK a \in Addresses, value \in HostBytes : request = WriteOf(a, value)
      BY <1>2, <2>3 DEF BusInv, Asked, AskedByHost
    <3>2. regs' = [regs EXCEPT ![a] = value] /\ touched' = touched \cup {a}
      BY <2>2, <2>3, <3>1 DEF WriteOf
    <3>3. Abstract!Cardinality(touched) < MaxHostWrites
      BY <1>1, <1>2, <2>3 DEF BusInv, Asked, AskedByHost, Cardinality, Abstract!Cardinality
    <3>4. pc_reached' = pc_reached /\ pc_reached = Len(Program) + 1
      BY <1>1, <1>3, <2>3 DEF pc_reached, InLoop
    <3>5. UNCHANGED <<pc_reached, stale, reset, outputs>>
      BY <1>1, <2>2, <3>4
    <3>6. Abstract!InLoop
      BY <3>4 DEF Abstract!InLoop
    <3>7. \E x \in Addresses, v \in HostBytes :
            /\ regs' = [regs EXCEPT ![x] = v]
            /\ touched' = touched \cup {x}
      BY <3>2, Zenon
    <3>8. Abstract!HostWrite
      BY <3>3, <3>5, <3>6, <3>7, Zenon DEF Abstract!HostWrite
    <3> QED
      BY <3>8 DEF Abstract!Next
  <2>4. CASE ~InLoop
    <3> DEFINE access == Program[pc]
    <3>1. AskedByWrite(access) \/ AskedByModify(access)
      BY <1>2, <1>4, <2>4 DEF BusInv, Asked, AskedByRead, ReadOf
    <3>2. pc_reached' = pc + 1 /\ pc <= Len(Program)
      BY <1>1, <1>4, <2>4, Lengths DEF pc_reached, InLoop, SecondIsDue, BusInv
    <3>3. Abstract!Write(access) \/ Abstract!Modify(access)
      <4>1. CASE AskedByWrite(access)
        BY <1>1, <2>2, <4>1
           DEF AskedByWrite, WriteOf, Abstract!Write, Abstract!Store, Written, Abstract!Written
      <4>2. CASE AskedByModify(access)
        BY <1>1, <2>2, <4>2
           DEF AskedByModify, Abstract!Modify, Abstract!Store, Modified, Abstract!Modified
      <4> QED
        BY <3>1, <4>1, <4>2
    <3>4. Abstract!Run
      BY <1>3, <2>2, <2>4, <3>2, <3>3 DEF Abstract!Run
    <3> QED
      BY <3>4 DEF Abstract!Next
  <2> QED
    BY <2>3, <2>4
<1>5. CASE ~request.we
  <2>1. rd /\ ~wr
    BY <1>1, <1>5, Zenon DEF Waiting
  <2>2. /\ stale' = stale \ {request.adr} /\ UNCHANGED regs
        /\ touched' = IF InLoop THEN touched \cup {request.adr} ELSE touched
    BY <1>1, <1>2, <2>1 DEF Answer, Read
  <2>3. ~InLoop
    BY <1>2, <1>5 DEF BusInv, Asked, AskedByHost, WriteOf
  <2>4. AskedByRead(Program[pc])
    BY <1>2, <1>5, <2>3 DEF BusInv, Asked, AskedByWrite, AskedByModify, WriteOf
  <2>5. request.adr = Program[pc].at /\ pc \in 1..Len(Program)
    BY <2>3, <2>4, Lengths DEF AskedByRead, ReadOf, InLoop, BusInv
  <2>6. CASE Program[pc].op = "modify"
    <3>1. request.adr \in Addresses
      BY <2>5, <2>6, ProgramAssumption DEF Writes
    <3>2. stale' = stale
      BY <2>2, <3>1, BusAssumption
    <3>3. pc_reached' = pc_reached
      BY <1>1, <1>3, <1>5, <2>3, <2>6 DEF pc_reached, SecondIsDue, InLoop
    <3> QED
      BY <1>1, <2>2, <2>3, <3>2, <3>3 DEF Abstract!vars
  <2>7. CASE Program[pc].op = "read"
    <3>1. pc_reached' = pc + 1
      BY <1>1, <2>3, <2>7 DEF pc_reached, SecondIsDue, InLoop
    <3>2. Abstract!Read(Program[pc])
      BY <1>1, <2>2, <2>5, <2>7 DEF Abstract!Read
    <3>3. Abstract!Run
      BY <1>3, <2>2, <2>3, <2>5, <3>1, <3>2, Lengths DEF Abstract!Run
    <3> QED
      BY <3>3 DEF Abstract!Next
  <2> QED
    BY <2>4, <2>6, <2>7 DEF AskedByRead
<1> QED
  BY <1>4, <1>5

LEMMA ReleaseStep == BusInv /\ Release => BusInv' /\ UNCHANGED (Abstract!vars)
<1> SUFFICES ASSUME BusInv, Release PROVE BusInv' /\ UNCHANGED (Abstract!vars)
  OBVIOUS
<1>1. /\ ~rd /\ ~wr /\ ~rdy'
      /\ UNCHANGED <<processor_vars, interface_vars, regs, stale, reset, touched>>
  BY Zenon DEF Release
<1>2. fsm # "RDY_WAIT"
  BY <1>1, Zenon
     DEF BusInv, Phase, Resting, Starting, Addressing, Strobing, Waiting, Ending, Finished
<1>3. Reached' <=> Reached
  BY <1>1, <1>2 DEF Reached, interface_vars
<1>4. Phase' /\ (Ending' <=> Ending) /\ (Finished' <=> Finished)
  BY <1>1, Zenon
     DEF BusInv, Phase, Resting, Starting, Addressing, Strobing, Waiting, Ending, Finished,
         Held, Idling, processor_vars, interface_vars
<1>5. Asked'
  BY <1>1, <1>3, <1>4
     DEF BusInv, Asked, InLoop, AskedByHost, AskedByWrite, AskedByRead, AskedByModify,
         processor_vars, interface_vars
<1>6. (reset <=> pc = ResetAt)'
  BY <1>1, Zenon DEF BusInv, processor_vars
<1>7. BusInv'
  BY <1>1, <1>4, <1>5, <1>6, Zenon DEF BusInv, processor_vars
<1>8. pc_reached' = pc_reached
  BY <1>1, <1>3 DEF pc_reached, SecondIsDue, InLoop, processor_vars
<1> QED
  BY <1>1, <1>7, <1>8 DEF Abstract!vars, processor_vars

LEMMA ReloadStep == BusInv /\ Reload => BusInv' /\ Abstract!Restart
<1> SUFFICES ASSUME BusInv, Reload PROVE BusInv' /\ Abstract!Restart
  OBVIOUS
<1>1. /\ ~cyc' /\ ~selected_stb' /\ ~rd' /\ ~wr' /\ ~done' /\ ~reset'
      /\ pc' = 1 /\ fsm' = "IDLE" /\ request' = NoRequest
  BY Zenon DEF Reload, Restart
<1>2. Phase' /\ ~Reached' /\ Asked'
  BY <1>1 DEF Phase, Resting, Idling, Reached, Asked
<1>3. pc' # ResetAt /\ pc' < ResetAt /\ pc' \in 1..(Len(Program) + 1)
  BY <1>1, Lengths
<1>4. (reset <=> pc = ResetAt)' /\ ~(cyc \/ request # NoRequest)'
  BY <1>1, <1>3, Zenon DEF NoRequest
<1>5. BusInv'
  BY <1>2, <1>3, <1>4 DEF BusInv
<1>6. pc_reached' = 1
  BY <1>1, <1>2 DEF pc_reached
<1> QED
  BY <1>5, <1>6 DEF Reload, Restart, Abstract!Restart

-----------------------------------------------------------------------------
IInv == BusInv /\ stale \subseteq StatusAddresses

LEMMA StaleKept ==
  stale \subseteq StatusAddresses /\ [BusNext]_bus_vars => stale' \subseteq StatusAddresses
<1>1. [BusNext]_bus_vars =>
        \/ stale' = stale \/ stale' = StatusAddresses \/ \E a : stale' = stale \ {a}
  <2>1. Clk => stale' = stale \/ stale' = StatusAddresses
    BY Zenon DEF Clk, Processor, Acknowledged, Waits, BeginsSecond, BeginsStep, SetsControl, Loops,
                 SetOutputs, SetReset
  <2>2. Answer => stale' = stale \/ \E a : stale' = stale \ {a}
    BY DEF Answer, Read, Store
  <2>3. Release \/ Reload => stale' = stale
    BY Zenon DEF Release, Reload, Restart
  <2> QED
    BY <2>1, <2>2, <2>3 DEF BusNext, bus_vars, chip_vars
<1> QED
  BY <1>1

LEMMA Stutters ==
  BusInv /\ UNCHANGED bus_vars => BusInv' /\ UNCHANGED (Abstract!vars)
<1> SUFFICES ASSUME BusInv, UNCHANGED bus_vars PROVE BusInv' /\ UNCHANGED (Abstract!vars)
  OBVIOUS
<1> USE DEF bus_vars, processor_vars, interface_vars, chip_vars
<1>1. Reached' = Reached /\ Phase' = Phase
  BY DEF Reached, Phase, Resting, Starting, Addressing, Strobing, Waiting, Ending, Finished,
         Held, Idling
<1>2. BusInv' = BusInv
  BY DEF BusInv, Phase, Asked, AskedByHost, AskedByWrite, AskedByRead, AskedByModify, Reached,
         Resting, Starting, Addressing, Strobing, Waiting, Ending, Finished, Held, Idling, InLoop
<1> QED
  BY <1>1, <1>2 DEF Abstract!vars, pc_reached, InLoop, SecondIsDue

LEMMA BusStep == IInv /\ [BusNext]_bus_vars => IInv' /\ [Abstract!Next]_(Abstract!vars)
<1>1. BusInv /\ Release => BusInv' /\ [Abstract!Next]_(Abstract!vars)
  BY ReleaseStep
<1>2. BusInv /\ Reload => BusInv' /\ [Abstract!Next]_(Abstract!vars)
  BY ReloadStep DEF Abstract!Next
<1> QED
  BY <1>1, <1>2, ClkStep, AnswerStep, Stutters, StaleKept DEF IInv, BusNext

LEMMA BusStarts == BusInit => IInv /\ Abstract!Init
<1> SUFFICES ASSUME BusInit PROVE IInv /\ Abstract!Init
  OBVIOUS
<1>1. BusInv
  BY BusInvInit
<1>2. ~done /\ fsm = "IDLE"
  BY Zenon DEF BusInit
<1>3. pc_reached = pc
  BY <1>2 DEF pc_reached, Reached
<1> QED
  BY <1>1, <1>3 DEF IInv, BusInit, Init, Abstract!Init

(* Each access of the program happens once, in order and with its own data, *)
(* over a bus of any number of wait cycles, with a chip that takes its own  *)
(* time, a host, and the FPGA loaded again in any clock.                    *)
THEOREM BusImplementsProgram == BusSpec => ImplementsProgram
<1>1. BusSpec => []IInv
  BY BusStarts, BusStep, PTL DEF BusSpec
<1> QED
  BY <1>1, BusStarts, BusStep, PTL DEF BusSpec, ImplementsProgram

-----------------------------------------------------------------------------
(* What is proved of the program holds of the accesses as they reach the    *)
(* chip.                                                                    *)
Proved == INSTANCE RegisterProgram_proofs WITH pc <- pc_reached

LEMMA SameProgram ==
  (Abstract!Init => Proved!Init) /\ ([Abstract!Next]_(Abstract!vars) => [Proved!Next]_(Proved!vars))
<1>2. Abstract!Init => Proved!Init
  BY Zenon DEF Abstract!Init, Proved!Init
<1>3. Abstract!Run => Proved!Run
  BY Zenon DEF Abstract!Run, Proved!Run, Abstract!Read, Proved!Read, Abstract!Write, Proved!Write,
         Abstract!Modify, Proved!Modify, Abstract!Written, Proved!Written,
         Abstract!Modified, Proved!Modified, Abstract!Store, Proved!Store,
         Abstract!SetOutputs, Proved!SetOutputs, Abstract!SetReset, Proved!SetReset
<1>4. Abstract!HostWrite => Proved!HostWrite
  BY Zenon DEF Abstract!HostWrite, Proved!HostWrite, Abstract!InLoop, Proved!InLoop,
         Abstract!Cardinality, Proved!Cardinality
<1>5. Abstract!Restart => Proved!Restart
  BY Zenon DEF Abstract!Restart, Proved!Restart
<1> QED
  BY <1>2, <1>3, <1>4, <1>5 DEF Abstract!Next, Proved!Next, Abstract!vars, Proved!vars

LEMMA ProvedAssumptions ==
  /\ Proved!ProgramAssumption /\ Proved!AddressesAssumption
  /\ Proved!ResetAssumption /\ Proved!WritesComeFirst
<1>1. Proved!ProgramAssumption
  BY ProgramAssumption, Zenon
     DEF Proved!Step, Proved!Operations, Proved!Bit, Proved!Writes, Step, Operations, Bit, Writes
<1>2. Proved!AddressesAssumption
  BY AddressesAssumption, Zenon DEF Proved!Bit, Bit
<1>3. Proved!ResetAssumption
  BY ResetAssumption, Zenon DEF Proved!Writes, Writes
<1>4. Proved!WritesComeFirst
  BY WritesComeFirst, Zenon DEF Proved!Writes, Writes
<1> QED
  BY <1>1, <1>2, <1>3, <1>4

LEMMA ProgramOnBus == BusSpec => Proved!Spec
  BY BusImplementsProgram, SameProgram, PTL DEF ImplementsProgram, Proved!Spec

(* A field keeps, over the bus, the value it was given until another step   *)
(* names it.                                                                *)
THEOREM FieldsStayOnBus == BusSpec => []FieldsStickOnBus
<1>1. Proved!FieldsStick => FieldsStickOnBus
  BY Zenon
     DEF Proved!FieldsStick, FieldsStickOnBus, Abstract!FieldsStick, Proved!Writes, Abstract!Writes
<1> QED
  BY <1>1, ProgramOnBus, ProvedAssumptions, Proved!FieldsStay, PTL

(* When the loop begins, the registers are what the program makes of a chip *)
(* after reset, whatever earlier lives of the FPGA and their hosts left in  *)
(* the chip, and in whichever clock of a bus cycle they ended.              *)
THEOREM StartsAlikeOnBus == BusSpec => []EveryStartIsAlike
<1>1. InLoop => Proved!InLoop
  BY DEF InLoop, Proved!InLoop, pc_reached
<1>2. Proved!EveryStartIsAlike => EveryStartIsAlike
  BY <1>1, Zenon
     DEF Proved!EveryStartIsAlike, EveryStartIsAlike, Proved!Image, Image, Proved!Sets, Sets,
         Proved!Given, Given
<1> QED
  BY <1>2, ProgramOnBus, ProvedAssumptions, Proved!StartsAlike, PTL

-----------------------------------------------------------------------------
(* What the board needs of the registers (StartUp).  The steps that have    *)
(* reached the chip decide what a register holds, unless the host wrote to  *)
(* it; the assumptions say what they make of it.                            *)
LEMMA ImageIsMade ==
  ASSUME Proved!TypeOK, NEW n \in Nat, NEW a \in Addresses, Proved!Image(n, a)
  PROVE  regs[a] = Made(n)[a]
<1> DEFINE made == [b \in 1..8 |-> IF \E k \in 1..n : Sets(k, a, b)
                                   THEN Given(LastThatSets(n, a, b), b) ELSE Defaults[a][b]]
<1>1. ASSUME NEW b \in 1..8 PROVE regs[a][b] = made[b]
  <2>1. CASE \E k \in 1..n : /\ Sets(k, a, b)
                             /\ \A j \in (k + 1)..n : ~Sets(j, a, b)
                             /\ regs[a][b] = Given(k, b)
    <3>1. PICK k \in 1..n : /\ Sets(k, a, b)
                            /\ \A j \in (k + 1)..n : ~Sets(j, a, b)
                            /\ regs[a][b] = Given(k, b)
      BY <2>1
    <3> DEFINE last == LastThatSets(n, a, b)
    <3>2. /\ last \in 1..n /\ Sets(last, a, b)
          /\ \A j \in (last + 1)..n : ~Sets(j, a, b)
      BY <3>1 DEF LastThatSets
    <3> HIDE DEF last
    <3>3. last = k
      <4>1. ~(last < k) /\ ~(k < last)
        BY <3>1, <3>2
      <4> QED
        BY <3>1, <3>2, <4>1
    <3> QED
      BY <3>1, <3>3 DEF last
  <2>2. CASE (\A k \in 1..n : ~Sets(k, a, b)) /\ regs[a][b] = Defaults[a][b]
    BY <2>2
  <2> QED
    <3>1. \/ \E k \in 1..n : /\ Sets(k, a, b)
                             /\ \A j \in (k + 1)..n : ~Sets(j, a, b)
                             /\ regs[a][b] = Given(k, b)
          \/ (\A k \in 1..n : ~Sets(k, a, b)) /\ regs[a][b] = Defaults[a][b]
      BY DEF Proved!Image, Proved!Sets, Sets, Proved!Given, Given
    <3> QED
      BY <2>1, <2>2, <3>1
<1>2. regs[a] \in [1..8 -> Bit]
  BY DEF Proved!TypeOK, Proved!Bit, Bit
<1> HIDE DEF made
<1>3. DOMAIN made = 1..8 /\ made = [b \in 1..8 |-> made[b]]
  BY DEF made
<1>4. regs[a] = made
  BY <1>1, <1>2, <1>3
<1>5. Made(n)[a] = made
  BY DEF Made, made
<1> QED
  BY <1>4, <1>5

BoardInv == Proved!IInv /\ Proved!AccessInv

LEMMA BoardInvCorrect == BusSpec => []BoardInv
  BY ProgramOnBus, ProvedAssumptions, Proved!InvCorrect, Proved!AccessesCorrect, PTL DEF BoardInv

(* The chip is behind the reset: its registers are as the steps made them.  *)
LEMMA RegistersAreMade ==
  ASSUME BoardInv, pc_reached >= ResetAt, NEW a \in Addresses \ touched
  PROVE  regs[a] = Made(pc_reached - 1)[a]
<1>1. pc_reached - 1 \in Nat
  BY Lengths DEF BoardInv, Proved!IInv, Proved!TypeOK
<1>2. Proved!Image(pc_reached - 1, a)
  BY DEF BoardInv, Proved!IInv, Proved!MadeByProgram
<1> QED
  BY <1>1, <1>2, ImageIsMade DEF BoardInv, Proved!IInv

LEMMA InLoopAllIsMade ==
  ASSUME BoardInv, InLoop
  PROVE  /\ pc_reached = Len(Program) + 1 /\ ResetAt \in 2..Len(Program)
         /\ \A a \in Addresses \ touched : regs[a] = Made(Len(Program))[a]
<1>1. pc_reached = Len(Program) + 1 /\ ResetAt \in 2..Len(Program)
  BY ResetAssumption DEF InLoop, pc_reached
<1>2. pc_reached >= ResetAt /\ pc_reached - 1 = Len(Program)
  BY <1>1, Lengths
<1>3. \A a \in Addresses \ touched : regs[a] = Made(pc_reached - 1)[a]
  BY <1>2, RegistersAreMade
<1> QED
  BY <1>1, <1>2, <1>3

(* No wire has two drivers (StartUp): with the outputs on, every channel's  *)
(* clocks are inputs of the chip, in every clock of every life of the FPGA, *)
(* unless a host's command has turned them round.                           *)
THEOREM OutputsOnlyIntoInputsHolds == BusSpec => []OutputsOnlyIntoInputs
<1>1. BoardInv => OutputsOnlyIntoInputs
  <2> SUFFICES ASSUME BoardInv, outputs PROVE ClocksAreInputs(regs, touched)
    BY DEF OutputsOnlyIntoInputs
  <2> DEFINE n == pc_reached - 1
  <2>1. pc_reached \in 1..(Len(Program) + 1)
    BY DEF BoardInv, Proved!IInv, Proved!TypeOK
  <2>2. PICK k \in 1..n : Program[k].op = "outputs_on"
    BY DEF BoardInv, Proved!AccessInv, Proved!OutputsFollow
  <2>3. k \in 1..Len(Program) /\ n \in k..Len(Program)
    BY <2>1, <2>2, Lengths
  <2>4. k > ResetAt /\ ClocksAreInputs(Made(n), {})
    BY <2>2, <2>3, OutputsAssumption
  <2>5. pc_reached >= ResetAt
    BY <2>1, <2>3, <2>4, Lengths
  <2>6. \A a \in Addresses \ touched : regs[a] = Made(n)[a]
    BY <2>5, RegistersAreMade
  <2> HIDE DEF n
  <2> QED
    BY <2>4, <2>6, RegistersAssumption, Zenon DEF ClocksAreInputs
<1> QED
  BY <1>1, BoardInvCorrect, PTL

(* Every cause that may interrupt is served (StartUp), for any program that *)
(* enables what the loop serves, whatever the chip held before.             *)
THEOREM EnabledIsServedHolds == BusSpec => []EnabledIsServed
<1>1. BoardInv => EnabledIsServed
  <2> SUFFICES ASSUME BoardInv, InLoop PROVE CausesAreServed(regs, touched)
    BY DEF EnabledIsServed
  <2> DEFINE m == Made(Len(Program))
  <2>1. \A a \in Addresses \ touched : regs[a] = m[a]
    BY InLoopAllIsMade
  <2>2. CausesAreServed(m, {})
    BY EnablesAssumption
  <2> HIDE DEF m
  <2> SUFFICES ASSUME NEW c \in Channels
      PROVE  /\ \A r \in Enables :
                  Channel(c)[r].address \notin touched /\ Channel(c).bier.address \notin touched
                  => \/ regs[Channel(c)[r].address] = byte(0)
                     \/ Served(c, regs, Channel(c)[r].address - 1)
             /\ Channel(c).liuccier.address \notin touched =>
                  regs[Channel(c).liuccier.address] = byte(0)
    BY Zenon DEF CausesAreServed
  <2>3. ASSUME NEW r \in Enables,
               Channel(c)[r].address \notin touched, Channel(c).bier.address \notin touched
        PROVE  \/ regs[Channel(c)[r].address] = byte(0)
               \/ Served(c, regs, Channel(c)[r].address - 1)
    <3>1. /\ regs[Channel(c)[r].address] = m[Channel(c)[r].address]
          /\ regs[Channel(c).bier.address] = m[Channel(c).bier.address]
      BY <2>1, <2>3, RegistersAssumption, Zenon
    <3>2. \/ m[Channel(c)[r].address] = byte(0)
          \/ Served(c, m, Channel(c)[r].address - 1)
      BY <2>2, Zenon DEF CausesAreServed
    <3> QED
      BY <3>1, <3>2, Zenon DEF Served
  <2>4. Channel(c).liuccier.address \notin touched =>
          regs[Channel(c).liuccier.address] = byte(0)
    BY <2>1, <2>2, RegistersAssumption, Zenon DEF CausesAreServed
  <2> QED
    BY <2>3, <2>4, Zenon
<1> QED
  BY <1>1, BoardInvCorrect, PTL

(* The loop starts quiet (StartUp): nothing that was latched before the     *)
(* reset is left in the status register of an enabled cause.                *)
THEOREM StartsQuietHolds == BusSpec => []StartsQuiet
<1>1. BoardInv => StartsQuiet
  <2> SUFFICES ASSUME BoardInv, InLoop, NEW c \in Channels, NEW r \in Enables,
                      Channel(c)[r].address \notin touched,
                      regs[Channel(c)[r].address] # byte(0)
      PROVE  Channel(c)[r].address - 1 \notin stale
    BY Zenon DEF StartsQuiet
  <2> DEFINE a == Channel(c)[r].address
             status == Channel(c)[r].address - 1
  <2>1. a \in Addresses
    BY RegistersAssumption, Zenon
  <2>2. regs[a] = Made(Len(Program))[a]
    BY <2>1, InLoopAllIsMade
  <2>3. PICK k \in (ResetAt + 1)..Len(Program) :
          Program[k].op = "read" /\ Program[k].at = status
    BY <2>2, ReadsAssumption, Zenon
  <2> HIDE DEF status
  <2>4. pc_reached - 1 = Len(Program)
    BY InLoopAllIsMade, Lengths
  <2> QED
    BY <2>3, <2>4 DEF BoardInv, Proved!AccessInv, Proved!ReadsClear, status
<1> QED
  BY <1>1, BoardInvCorrect, PTL
=============================================================================

# Tedium in TLA+

Tedium is a telephony interface board: an FPGA between an eight-span T1/E1
framer chip (XRT86VX38) and a host on USB 2.0, a RISC-V core in the FPGA whose
firmware looks after the framer, and host tools that read, process and return
the audio frames. This directory models the parts of it that carry state, checks
the models with TLC and proves the most important of the results with TLAPS.

Paths below are relative to `src/`. `T/` stands for `tedium/tools/tedium-tool/src/`,
`G/` for `tedium/gateware/`.

## 1. Inventory

The data path is a loop of a frame every 125 us; the control path is beside it.

```
 framer chip --serial--> RxBlock -> RxFramerToFIFO -> [rx PagedAsyncFIFO] -> RxFIFOToUSBIn -> IN endpoint --USB--> host
 framer chip <--serial-- TxBlock <- TxFIFOToFramer <- [tx PagedAsyncFIFO] <- TxUSBOutToFIFO <- OUT endpoint <-USB-- host
 framer registers <-> MicroprocessorBus <-> SoC firmware <-> 3 endpoint FIFOs (interrupt IN, command OUT, response IN) <-USB-> host
```

| component | state | operations | talks to | what is hard | what makes it correct |
|---|---|---|---|---|---|
| Page FIFO (`G/framer/hacked_fifo.py`, `paged_fifo.py`) | two counters, their Gray-coded copies in the other clock domain, page memory | write a byte, commit a page, read a byte, release a page | both stream adapters, in two clock domains | stale copies of counters; half-written pages; trimmed levels | never both sides on one page; committed pages whole; no page lost, none stuck |
| Receive stream (`rx_fifo_to_usb.py`, `usb/isochronous.py`) | adapter FSM and address, read port, endpoint's remaining length | start of frame, IN token, byte taken | FIFO (reader), host | length chosen twice from a moving level; memory latency; missed polls | frames in order, report last, recovery after a missed poll, FIFO drains |
| Transmit stream (`tx_usb_to_fifo.py`) | adapter FSM and address, page being written | start of frame, byte received | host, FIFO (writer) | truncated packets, starts of frame not heard, full FIFO | never a mixed record while in step; nothing lost uncounted |
| Timing (`system_timing.py`, `bit_timing.py`) | bit counter and nine registered flags | end of a bit | all framer-side blocks | everything is computed a bit ahead; F bit and wrap are special | flags agree with the counter |
| Framer side (`rx_block.py`, `rx_registered.py`, `rx_framer_to_fifo.py`, `tx_fifo_to_framer.py`, `tx_block.py`) | shifters, captured bytes, copying FSM | a clock | timing, FIFO, serial lines | captures and copies overlap the next frame | one record = one line frame, in its timeslots |
| Firmware (`tedium-soc/src/main.rs`, `usb.rs`) | main loop, channel, endpoint FIFOs | check command, check endpoint, read registers of a channel, transmit | framer registers, host | read-clears registers with a framer that goes on setting them; two host conversations in one loop | no cause lost, each report decodable, commands answered, no channel starved |
| Host interrupt decoding (`T/framer/interrupt.rs`, `tedium-soc/tools/*.py`) | - | decode a report | firmware | no lengths in the format, and a list of the registers at each end | each value taken for the register it was read from |
| Host pump (`T/framer/audio.rs`, `usb.rs`) | 8 transfers each way, ring of frames, lowest FIFO level | IN callback, OUT callback | both streams | late callbacks, delayed correction of the FIFO level | FIFO drawn down, not starved; the ring has room until OUT transfers run out |
| Robbed-bit signaling (`T/framer/audio.rs`, `T/main.rs`) | accumulator, history, state per timeslot, line state | frame heard, event taken | pump thread, monitor thread | lost frames | only bits of one superframe accepted, only repeated values told |
| DTMF detection (`T/detector/dtmf.rs`, `T/framer/audio.rs`) | three filter windows, last detection, state S0 to S3 | sample | pump thread | windows that a key begins or ends in, two rows heard at once | a digit told was keyed, once a press |
| Firmware start-up (`tedium-soc/src/main.rs` 88-440, `xrt86vx38-pac/`) | the framer's registers, its reset and the output enables | write, read, modify of a register; reset and outputs | framer over the bus | hundreds of accesses whose order matters; a chip that keeps what an earlier life left | the loop always begins with the same chip; drivers enabled into inputs only; what is enabled is served |
| Framer bus (`G/framer/microprocessor.py`, `G/controller/controller.py`) | bus FSM, start and acknowledge of the peripheral, strobes | read, write | SoC, framer | a ready line that lags; an FPGA loaded again in the middle of an access | each access done once, in order, with its own data |
| Register access of the tool (`T/framer/register.rs`, `device.rs`) | - | - | vendor requests | - | *copies of the `xrt86vx38-pac` layouts and addresses; their access is not modelled* |
| SoC wiring, USB descriptors, platform | wiring and data | - | - | - | *not modelled but for the two peripherals at the framer* |
| ulaw, generators, Goertzel filters, dumps, tests | pure functions and tables | - | - | floating point | *not modelled; the filters by what they are for* |

`PROJECT.json` lists every component with its source files and status, and under
`hazards` what in this code is hard to test, at its line, with the property that
watches it.

## 2. Modules

| module | models | uses |
|---|---|---|
| `PageQueue` | what a page FIFO promises: a bounded queue of records, of which the reader is shown a prefix | |
| `PagedFIFO` | `HackedAsyncFIFO` inside `PagedAsyncFIFO`, two clocks, synchronizers, memory | implements `PageQueue` |
| `RxStream` | reader side of the receive FIFO, adapter, IN endpoint, bus | `FIFO == INSTANCE PageQueue` |
| `TxStream` | bus and host packets, OUT adapter, writer side of the transmit FIFO | `FIFO == INSTANCE PageQueue` |
| `SystemTiming` | position in the frame; its operators take the strobe as parameter | |
| `RxFramer`, `TxFramer` | the two framer sides, clock by clock | EXTEND `SystemTiming` |
| `Framers` | both sides on one timing, as the applet wires them | EXTENDS `RxFramer`, `Tx == INSTANCE TxFramer` |
| `Firmware` | main loop of the firmware, framer interrupts, host on three endpoints | |
| `FramerRegisters` | layout of the framer's registers: names of their bits, named values | |
| `FramerDevice` | where they are: the accessors and their addresses | EXTENDS `FramerRegisters` |
| `RegisterProgram` | a program of accesses against the chip, restarts, host writes | |
| `FramerSetup` | the firmware's start-up as such a program | EXTENDS `FramerDevice` |
| `RegisterBus` | processor, peripheral, interface and chip, clock by clock | EXTENDS and implements `RegisterProgram` |
| `StartUp` | that program over that bus, and what the board needs of it | EXTENDS `FramerSetup`, `RegisterBus` |
| `RobbedBit` | robbed-bit superframes from the line to the monitor | |
| `DtmfDetector` | windows, detections and state machine of the digit detector | |
| `SignalingProcessor` | the signaling thread: either of these two | EXTENDS both |
| `HostPump` | transfers, callbacks and ring of the host, FIFO levels of the device | |
| `MC*` | constants for TLC that a `.cfg` cannot write, and symmetry | |
| `*_proofs` | theorems about the module named; `Host_proofs` about `SignalingProcessor` and `HostPump` | EXTEND it and `TLAPS` |

The streams do not contain the two-clock FIFO but the queue it is shown to
implement: `ImplementsPageQueue` (checked and proved) is what licenses this.
`PageQueue!Step(commit, advance)` is all a stream may do to it; `visible`, the
pages the reader has been shown, grows at any time (`CounterArrives`).

### State and actions against the code

* **PagedFIFO.** Variables have the names of the signals (`produce_w_bin`,
  `consume_w_gry`, `w_level`, ...). `WClk`, `RClk`, `BothClk` are an edge of the write
  clock, of the read clock, of both. A counter sampled in the other domain may be
  the old or the new value when both edges coincide (`sample`): that is what Gray
  coding gives. Every page holds a record identity per byte, so a page of two
  records shows. The reset of the write domain alone (`hacked_fifo.py:155-184`) is left
  out: the design resets no domain after start up.
* **RxStream.** A step is a `usb` clock (`StartOfFrame`, `DataRequested`, `ByteAdvance`,
  `IdleClock`), a record committed at the far side, or a counter crossing. `value`, `address_next`,
  `fsm_next`, `ReadPort` are the signals of the adapter. The read port answers a clock
  late, on the page its delayed pointer names. A byte is a frame number and an address;
  the bytes of the report are told from the frames' and nothing else. `packet`
  is what the host has of the packet; `last` is a history variable, the last frame byte it was given.
* **TxStream.** `NewPacket`/`SendNext` produce the host's packets, `Truncate` cuts one
  short, `LostStartOfFrame` is a start of frame the device does not hear.
* **SystemTiming, RxFramer, TxFramer.** A step is a `sync` clock, with or without the
  end of a bit; a bit lasts at least `MinClocks` clocks and otherwise as long as it
  likes. `RxFramer` and `TxFramer` build the adapter and the block into one `Clk`. `Framers` gives both the same strobe in
  the same clock: they share nothing else, but the clocks in a bit must do for the slower of them.
* **Firmware.** The loop is a program counter over `CheckCommand`, `CheckIdle`, `ReadBisr`,
  `ReadRegister`, `Transmit`: every register access is a step, so the framer
  (`Interrupt`, `SignalingChange`, `MessageReceived`) can act between any two. A report
  is the sequence of register names and values the loop writes; the decoders
  take it by lists of their own (`FramerInterruptStatus`, `from_read`, as in `interrupt.rs`). `Blocks` selects the blocks of the framer, `Malformed` the
  packets the host sends beside well-formed commands.
* **FramerRegisters, FramerDevice, FramerSetup.** Constant definitions: a register is its address and the names of its eight
  bits; `with` sets fields of them as the `with_` calls of the code do, `has` reads them. `main` is the sequence of accesses, built from operators with the
  names of the firmware's functions and loops. Delays, the UART and the values that are only printed are left out.
* **RegisterProgram.** A step of the program is a step: `Read`, `Write`, `Modify`, `SetOutputs`, `SetReset`. In the loop the host may write
  any register (`HostWrite`); status registers become `stale` at the reset and fresh when read; `Restart` is a new
  FPGA image, before which nothing is known of the registers. `Image(k, a)` is what the first `k` steps make of register `a` after a reset.
* **RegisterBus.** `Clk` is one clock of the processor, `FramerRegistersPeripheral` and `MicroprocessorInterface` at once, from the values before
  it; `Answer` and `Release` are the chip, which takes its own time to raise and lower its ready line; `Reload` is the restart, in any
  clock. What `RegisterProgram` does in one step takes two bus cycles for a `modify`; the refinement maps the step to the clock in which the
  access reaches the chip (`pc_reached`, and `ImplementsProgram`). The ready line is looked at without a synchronizer, as in the code: once a clock.
  External here: the processor lets go of `cyc` for a clock at least between accesses, the chip answers every strobe, and its reset lowers ready.
* **RobbedBit.** `Hear` is a frame that reaches `SignalingProcessor`, `Lose` one that does not
  (for any reason, one frame at a time), `Monitor` an event the monitor takes. One timeslot stands
  for all 8 x 24: the code handles them in a loop that shares nothing.
* **DtmfDetector.** `advance` is a sample. What is on the line (`signal`) may change at any sample after its
  shortest length (`Begins`). A window keeps which signals it has heard, not their samples: at its end a window of one key gives its tone, a silent one none, a
  mixed one any of those or none (`tones`). `detect`, `next_state` and `feed` are the code's. State `S1` is never reached.
* **SignalingProcessor.** The thread gives each frame to the debouncer and then to the detector. Neither sees the other's state, so
  a behaviour follows one of them (`follows`), the other is at rest; every behaviour of each is there.
* **HostPump.** `Microframe` is the bus and the device (external: levels of the FIFOs and a packet each
  way), `Callback` runs `handle_in` or `handle_out` whole, as the code does under its lock. Frames are counted, not told apart.
  The two orders in which an IN and an OUT transfer may complete in one microframe, and in which the
  device takes and gives a frame in it, are both possible.

## 3. Runs

| run | question | result |
|---|---|---|
| `fifo` | do reader and writer stay apart, at any ratio of clocks; does the FIFO implement the queue and move on | holds |
| `rx` | are packets right, whatever polls are missed and at whatever pace bytes are taken | holds |
| `rx_stale_byte` | is the next value there at the next clock, as the interface asks | **violated** between two frames of a packet |
| `tx` | what do truncated packets, full FIFOs and lost starts of frame cost | holds |
| `framers` | is a record a line frame and a line frame a record, both on one timing | holds |
| `fw_reports` | does every cause reach the host, decodable, from every channel | holds |
| `fw_commands` | are commands answered in order, whatever the host sends; does the view of the signaling bits catch up | holds |
| `fw_test_tool_decoder` | does the Python test tool decode what the firmware sends | **violated** |
| `setup` | does the start-up, over the bus and through restarts, leave the chip as the loop needs it | holds |
| `signaling` | are accepted signaling bits those of one superframe, does the monitor settle; are digits told keyed, once | holds |
| `host_pump` | is the transmit FIFO drawn down, without starving the framers; has the ring room until the bus has run out of OUT transfers | holds |
| `host_ring_full` | is the ring of processed frames never full, as an `unwrap` asserts | **violated** after several late callbacks |

What each run checks (`PROJECT.json` has the same list; every module states its properties in words). `TypeOK` is in none of
them: it is proved of every module that states one (of both sides of the framers together: `FramersTypeCorrect`), and can be added to any configuration.

* `fifo`: `LevelsConservative` (each side errs on the safe side), `CommittedPagesWhole`, `PagesDisjoint`,
  `NeverSharedAgain`, `ImplementsPageQueue`; `FullClears`, `CommittedIsShown` (liveness).
* `rx`: `NoUnderflow`, `ReadsOwnPage`, `BytesInOrder`, `ResyncsAfterOnePacket`; `Drains` (liveness). `rx_stale_byte`: `NextValueAtNextClock`.
* `tx`: `SyncedCommitsWhole` (a record is mixed only after a start of frame that was not heard), `WholeRecordsAccounted`.
* `framers`: `RecordAligned`, `LineFrameIsRecord`, `NoStrobeMissedByEither` (both adapters are waiting whenever
  a strobe comes they must act on).
* `fw_reports`: `NoneLost`, `PacketDecodes`; `EveryChannelServed` (liveness). `fw_test_tool_decoder`: `TestToolDecodes`.
* `fw_commands`: `ReadsOwnWrites`, `ViewCatchesUp`; `CommandAnswered`, `CommandsAccepted` (liveness).
* `setup`: `ImplementsProgram` (the bus does the program's accesses), `EveryStartIsAlike` (the loop begins with one chip, whatever an earlier
  life left), `FieldsStickOnBus`, `OutputsOnlyIntoInputs`, `EnabledIsServed`, `StartsQuiet`; `ReachesLoop` (liveness).
* `signaling`: `AcceptedIsSent`, `ChangesHeardTwice`, `NeverAsserts`, `ReportedWasKeyed`, `PressReportedOnce`; `MonitorSettles` (liveness).
* `host_pump`: `PanicsOnlyWhenDry` (the ring of processed frames is full only after the bus has run out of OUT transfers;
  `ran_dry` is a history variable that tells); `DrawsDown`, `KeepsPace` (liveness). `host_ring_full`: `NeverPanics`.

### Bounds, and why they are enough

* `fifo`: `Depth` 4, records of 2 bytes, two record identities. Depth is a power of two
  and its counters have one bit more than the page number, so 4 pages make 8 counter
  values: full, empty and wrapped-around combinations of both counters all occur. Two bytes have a
  first and a last. Two identities tell a mixed page. The proofs cover all depths.
* `rx`: capacity 4, records of 3 bytes (first, middle, last), report of 2, frame numbers modulo 5 (more
  than capacity, so that no two frames in the FIFO share a number). A packet is up to two
  pages, so capacity 4 has the clamped case.
* `tx`: capacity 2, records and report of 2 bytes, up to two records a packet, counters modulo 2.
* `framers`: 3 timeslots (a first, a last, one in the middle), 3 channels, bits of at least 5 clocks, the fewest the fetch of a timeslot
  of 3 channels needs (`Channels + 2`; the design has 8 channels and some 40 clocks). The receive report is stretched to 35 bytes, so that
  it, too, leaves no clock to spare (`Channels + report_length + 2 = 8 * MinClocks`): an off-by-one anywhere misses a strobe. Frames and records modulo 3.
* `fw_reports`: two channels, one HDLC controller, messages to 2 bytes, blocks `SLIP` and `HDLC` (fixed
  and variable length). `fw_commands`: one channel with signaling changes, two register
  addresses (one of them with a high byte), malformed packets empty, short and of an unknown command, host FIFO of 8 bytes.
* `setup`: the program with 2 of the 8 channels, 1 of the 24 timeslots, 2 of the 256 reads of a dump and 1 of the 96 of a
  buffer; loops over more of the same touch registers of their own. One wait cycle instead of 20, so that waiting and not waiting both
  occur. The host writes one register in each life (`MaxHostWrites`), any of them, with all bits set or none: what a restart must undo.
* `signaling`: 2 bits of 2 frames (the code has 4 of 6), frame numbers modulo 12, three superframes:
  wrapping happens. `MaxEvents` 2 is how far the monitor may be behind. Half windows of 3 samples (106 in the code), which a change may fall on
  the start, the middle or the end of, and a keypad of 2 x 2, so that a row and a column of two keys make a third. A key or pause lasts three half
  windows at least (`ShortestSignal`: 39.75 ms, counted in samples that arrive; the code promises no figure); with two, `ReportedWasKeyed`
  fails: the row of one key is put together with the column of the next. `PressReportedOnce` promises a report of a press of five half windows (`LongPress`); one
  two samples shorter may be missed.
* `host_pump`: the numbers of the code halved: transfers of 4 packets instead of 8, FIFOs and ring of half the size, a draw-down level of 6 instead of 12; but
  3 transfers in each direction instead of 8. Two disturbances: a microframe with a late callback, a lost packet or a slip, or all of them. The transfers submitted at
  the start fill the FIFO as it is. The liveness properties say what happens when disturbances are over. The level `DrawsDown` allows is what `handle_out` leaves alone
  and what the FIFO can rise by from the least level of an IN transfer (`LevelSwing`). In the code's numbers: eight frames are in the first four packets of an OUT transfer, and
  rise by 4 before they are taken; and an OUT callback that runs before the IN callback of its microframe finds the ring empty, one that runs after it in the next finds
  two transfers, which comes to 8 frames more, so that 24 of the 30 frames of the FIFO are left at most. With one frame less allowed `DrawsDown` holds as well, with two it does
  not, here and with the code's own numbers (8 packets, FIFO of 30, one disturbance), with 3 and 4 transfers; with 2 the bound is not reached. A complete search
  with 8 transfers takes too long; more of them make the order last longer, but the ring still has at most one transfer's frames between two microframes.
  Two disturbances are far too few for the ring to fill, so for `PanicsOnlyWhenDry` the run shows only that the frames are taken out of it; its theorem covers every
  bound. That four frames a packet are needed shows with 2 packets, 3 transfers and four disturbances, in which the bus can run dry (`DrawDown` 3, FIFOs of 3 and 4): a ring of 8 frames holds
  out in all 10 million states, and with 7, and the property without its premise on `Ring`, TLC finds it full.
* `host_ring_full`: transfers of one packet, no slips, seven late microframes, the fewest that suffice.

### Fairness

* `fifo`: both clocks run (weak fairness on each), the reader asks again and again: the framer side advances
  every frame and the USB side every packet.
* `rx`: the bus starts microframes, asks for a packet at its first chance and takes the bytes of a packet it asked for;
  these compete with idle clocks and with each other, hence strong fairness. A host that stops polling is not fair, and without polls the FIFO does not drain.
* `fw_*`: the loop of the firmware runs on; the host polls the interrupt endpoint in `ReportSpec`. In
  `CommandSpec` it does **not**: commands have to be answered though reports are never fetched.
* `setup`: the clock runs (weak fairness of `Clk`) and the chip raises and lowers its ready line (of `Answer` and `Release`): the interface has no
  timeout, so without it the firmware waits for ever. `ReachesLoop` has as its premise that the FPGA is not loaded again and again.
* `signaling`: the line goes on and the monitor runs. A frame that is heard is never promised; the
  settling property has it as its premise. The fairness is that of behaviours that follow the bits (`SignalingFairSpec`); those that follow the digits are
  checked for safety only, and the theorems are about `SignalingSpec`, which has none.
* `host_pump`: the callback thread runs (it has real-time priority and waits only for its lock), microframes
  come by a clock. Disturbances are bounded by `MaxDisturbances`, so that they end.

## 4. Proofs

TLAPS checks, for every value of the constants under their named assumptions (the theorem of property `P` is
usually called `PHolds`, that of `TypeOK` is `TypeCorrect`):

* **PagedFIFO_proofs.** Type correctness, `LevelBound` (at most `Depth - 1` pages committed and unreleased), `LevelsConservative`, `PagesDisjoint`,
  `NeverSharedAgain`, `CommittedPagesWhole` and the refinement `ImplementsPageQueue`. The invariants of the
  runs are not inductive: what a side knows of the other is a chain of copies, each behind the next. The
  strengthening (`IInv`) orders that chain, from the reader's counter through its
  Gray copy, the synchronizer and the writer's level to the writer's counter and back, in the arithmetic of counters
  modulo `2 * Depth`; from it every level either side uses errs on the safe side. `PagesInv` adds what
  the pages of that range hold and what is in the page being written. Refinement is by step: a commit is a commit, a release an advance, a synchronizer
  step makes pages visible, all else stutters.
* **RxStream_proofs.** Type correctness, `NoUnderflow`, `ReadsOwnPage`, `BytesInOrder`, missed polls included. `IInv` says that the adapter
  owns as many visible pages as its FSM state will still release (`PagesOwned`): the level that was read at
  the start of frame can only rise until then. `OrderInv` ties the number of the record at the head, the address and the last
  byte given together. `ResyncsAfterOnePacket` has an invariant of its own (`CutInv`): the endpoint has at least as many bytes left as
  the adapter has until `WAIT_SOF`, so that a packet that is sent brings it there; from there both go by the same level, and what has been given is the beginning
  of one packet, at whose next byte the adapter is.
* **TxStream_proofs.** Type correctness, `SyncedCommitsWhole`, `WholeRecordsAccounted`, and, if no start of frame is lost, `RecordsWhole`.
  `Lockstep` relates the byte on the bus, the adapter's address and the page.
* **Framers_proofs.** `FlagsFollowCount` (the flags registered a bit ahead agree with the bit count), for every number of timeslots and every length of bits: inductive together with
  the types, the proof is that of one bit to the next, with the wrap at the end of a frame as its one special case. And
  `NoStrobeMissedByEither`, for every number of channels and every size of the reports that the named assumptions leave time for
  (`Channels + report_length + 2 <= 8 * MinClocks` to receive; `Channels + 2 <= MinClocks` and `report_length + 3 <= 8 * MinClocks` to transmit). The
  invariant compares two clocks: what the adapter's count says of how long ago it left `WAIT`, and what the bit count
  says of how long ago the strobe was (`RxBusy`, `TxBusy`). The F bit gives the receive adapter a ninth bit after the last timeslot, which its report may need.
  On top of it stand what the two adapters move. `RecordAligned`, wherever on the line the framer is at reset: once it is synced the line is
  eight bits ahead of the count and each shift register holds those eight (`LineInv`); the address follows from timeslot and channel
  (`AddressInv`); and below the number of bytes written the page is the frame on record, with its multiframe bits (`RecordInv`).
  `LineFrameIsRecord`, whatever `r_empty` does: the read port is a clock behind the address (`FetchInv`), a shift register
  holds what is left of its timeslot's byte until the next is loaded over it (`ShiftersInv`), and all bytes of a timeslot are fetched by then (`FetchedInTime`).
  Type correctness of both sides adds that no address passes the end of a record, also before the first frame strobe, when the transmit adapter counts from 0
  (`RxAddressInv`, `TxAddressInv`).
* **RegisterProgram_proofs.** Type correctness, `EveryStartIsAlike`, `FieldsStick`, for every program that resets the chip before it sets it up. From the
  reset on, every register the host has not written is the image of the steps done (`MadeByProgram`).
* **RegisterBus_proofs.** `ImplementsProgram`, for every program, any number of wait cycles and any chip that takes its own time, with restarts in every
  clock; and through it both theorems about programs for the bus. The invariant names the seven phases of a bus cycle, what peripheral and
  interface hold in each, and that the ready line is up in two of them only, or left over from an earlier life before the reset.
  Then what the board needs of the registers: `OutputsOnlyIntoInputs`, `EnabledIsServed` and `StartsQuiet`, in every clock of every life of the FPGA. What the
  text of the program has to be for them is in four assumptions of `StartUp` about the registers it makes (`Made`) and its reads: it turns the
  outputs on after the configuration, enables what the loop serves, and reads what it enables. TLC evaluates them for the
  program of the `setup` run, and they hold of the program of the whole chip too (8 channels, 24 timeslots, dumps of 256, buffers of 96: evaluated with
  `INIT BusInit` and a next-state relation without steps, in less than a minute). The proof adds whoever wrote to the chip before, restarts, and the bus:
  the registers are what the steps that reached the chip have made (`MadeByProgram`), an output that is on was turned on
  in this life, and what was read after the reset is not stale (`AccessInv`).
* **Host_proofs.** Type correctness of the detector, the debouncer and the pump. Digits: `NeverAsserts` and `ReportedWasKeyed`, for windows of any length and any keypad. `DigitsInv` says how the three
  windows lie to each other and what the last detection may be, by the age of the signal. Bits: `AcceptedIsSent` and
  `ChangesHeardTwice`, for every superframe and counter width and whichever frames are lost. `BitsInv` gives the accumulator an age: either it is of the
  superframe on the line, or so old that nothing is collected into it. `SignalingIsHeard` brings both to the thread.
  `PressReportedOnce` has two sides, both by the age of the signal: a press that was told has left the state machine deaf until two detections of
  silence (`ToldInv`, and `SilenceInv` for the pause that makes it listen again), and of a press after a pause at most two detections are of nothing, so that the
  fifth at the latest tells it (`LongInv`). The pump: `PanicsOnlyWhenDry` for any number and size of transfers and any FIFOs, with a ring of four frames for each packet of
  a transfer or more (32; the code has 40). How full the ring can be depends on the order of the callbacks that wait, of which there may be any number, so the invariants follow them one by one.
  `TransfersInv`: how many transfers are submitted after each of them, and that it is all of them in the end. `RingInv`: the level of the ring after each, in transfers of two frames a packet, is at most
  two. What makes it inductive is where the two transfers under way are: `Packets` times the last level, and the packets the IN transfer has done, are never more than `Packets` and those the OUT transfer has done.
  A microframe moves an OUT packet whenever it moves an IN packet, as long as an OUT transfer is submitted, hence `UntilDry`: the invariant holds until the bus has run out of them (`ran_dry`), and `host_ring_full` shows what happens after.
* **Firmware_proofs.** Type correctness. `NoneLost`, for any number of channels and any selection of blocks: a status register is cleared only with its
  causes appended to the report of its own channel, which `EndpointInv` finds in the endpoint. `PacketDecodes`: the decoder's own list of
  the registers of a block is the firmware's (`SameLayout`, `SameFollows`), so what it expects after each field is what the firmware has yet to read (`DecodingInv`; `Decodes` is a recursive function, and a field more is a value more of it, so that one step of
  it is all the proof needs). `ViewCatchesUp`: of every timeslot a change is latched, or the report under way says the bit or will, or the
  host has it (`ViewInv`); it needs that the frame status is read before the bits it calls for (`TodoInv`). `ReadsOwnWrites`: one packet is under way at
  a time, and `CommandInv` says where. Its theorem has a hypothesis, `LeavesNoResidue`: the packets the host sends that are no commands leave nothing in
  the OUT FIFO. The code drops a short packet whole, but of an unknown command only the byte that names it; what follows would be taken for the start of the next command.
  The packets of the runs meet it (`ResidueAssumption` in `MCFirmware`).

The constants' assumptions are named in the modules and evaluated in the runs.

Every invariant a passing run checks is proved, and every action property and refinement. Model-checked only is liveness (`FullClears`,
`CommittedIsShown`, `Drains`, `EveryChannelServed`, `CommandAnswered`, `CommandsAccepted`, `MonitorSettles`,
`ReachesLoop`, `DrawsDown`, `KeepsPace`): fairness and ENABLED are beyond the prover. So is what a recursive definition computes for every input, which needs
induction over an operator; and that the firmware's own program meets the assumptions of `StartUp` is evaluated, not proved.

## 5. What the models disagree with

* **`rx_stale_byte`.** `r_advance` moves the page pointer of the read port a clock after the last byte of a frame is taken. A bus that takes
  a byte in that very clock gets byte 0 of the frame before again. At high speed it takes bytes on nearly every clock.
  All other bytes are right at any pace (`ReadsOwnPage`, `BytesInOrder`, both proved).
* **`host_ring_full`.** `handle_in` unwraps its pushes into a ring of 40 frames. A callback thread that is late several times, each time for as long as
  the transfers under way last, lets the order of the completed transfers drift: OUT callbacks first, which find the ring empty, IN callbacks behind them, which bring
  up to eight transfers of eight frames. The configuration keeps the code's proportions or better (ring of three transfers, four transfers under way; the code has five and eight).
  By `PanicsOnlyWhenDry` a ring of the code's size is full only after the bus has run out of OUT transfers, that is, after an OUT callback that waited while
  the other seven transfers were used up, 56 microframes (7 ms); `host_ring_full` has a smaller ring to keep the run short. With the code's five and eight, or with four and four, TLC's simulation finds the panic as well
  (`-simulate`, 24 late microframes in the smaller case), but a complete search takes too long for a run.
  One late period does not suffice; that the worst case of the code is nine transfers, 72 frames, is the same argument at its size and not a run.
* **`fw_test_tool_decoder`.** The firmware sends length, message and status of every HDLC controller of a channel; of one whose DLSR is 0 the
  test tool skips length and message, and takes the byte of the length for the SS7 status that it reads of every controller.

Other observations are no findings. The endpoint latches a length at every start of frame, the adapter only when it waits for one; after a
microframe without a poll they differ, and in one packet the report is not at the end (`ResyncsAfterOnePacket` says that it is one). Until the first commit after reset the writer fills the page the reader rests on: pages are disjoint
from then on only, as `PagesDisjoint` says. And `TxFIFOToFramerAdapter` reads byte 0 of a record's report in the clock in
which the pointer still names the record before; the design does not use the report it copies.

Of the registers: `framer_defaults` is called by nothing; its rows are used as the state of the chip after a reset. Two tests of
`xrt86vx38-pac/src/device.rs` expect a panic message with `Channels::COUNT` where the assertion says `CHANNELS_COUNT`. The comment at `RxLOS_ENB`
(`tedium-soc/src/main.rs:406`) wonders about an inverted sense, which the model has no way to tell. The wait before a strobe's ready line is looked at is one clock more than
`_wait_cycles`, 350 ns at 60 MHz where the comment asks for 320. A command carries 16 bits of address, the SoC's window has 15. The tool's
register requests (`T/framer/device.rs`) have no handler in the gateware.

## 6. Not modelled, and why

* Reset of one clock domain of the FIFO alone; the design has none after start up.
* The framer chip, LUNA's device and endpoint machinery and the bus itself are external: modelled as far as the code uses them.
* Packets of headers only when a receive clock is lost, E1 timing, values of the reports.
* Unused gateware: `USBIsochronousOutEndpointUnused`, `usb/status.py`, `usb/microprocessor_handler.py`.
* In the firmware: delays and the UART, and the `resync` branch whose condition is constantly false. In the host:
  `ExtendedSuperFrameState`, whose collected bits nothing sets.
* Goertzel filters, the codec and the tone generator: floating-point data. The detector's windows and decisions are modelled, with the filters taken by what
  they are for; talk-off, levels and twist are not, and neither is the jump of phase where lost frames fall inside a window.
* On the bus: `cs` (goes with the strobes), `busy` (not read), metastability of the ready line.
* The host tool's copies of the register definitions, its dumps and tests, the C++ test tools: the same tables again, and I/O.
* Descriptors, set-interface, status and vendor requests, platform and pins: data and wiring.
* Byte sizes of the interrupt packets; audio processing; printing.

Four hazards of the list have no property, each with its reason there: a test tool that gives up on an answer, what an unknown command leaves in the OUT FIFO, a message
that arrives between the reads of its status and its length, and the first frames of an accumulator when the frame counter has just wrapped.

## 7. Plan

Order of work: the page FIFO and its abstraction, the two streams, the framer sides, the firmware, the host, then the registers with the bus and the start-up,
and the digits. All of it is in place as described above; what is left:

1. The set-interface handler, and the ulaw codec as operators checked against a reference.
2. A composition of the framer sides with the page FIFO, in place of their nondeterministic fill level.
3. Bytes of the interrupt reports against the packet size and the host's buffer.
4. Proofs: how late the callback thread may be for OUT transfers never to run out.

## 8. Running

`tlc -config MCPagedFIFO.cfg MCPagedFIFO.tla` checks a run (`PROJECT.json` names module and configuration of each; the longest,
`signaling` and `host_pump`, take one to two minutes), `tlapm PagedFIFO_proofs.tla` the proofs of a module.

---------------------------- MODULE PagedFIFO ----------------------------
(***************************************************************************)
(* PagedAsyncFIFO on top of HackedAsyncFIFO, clock by clock.               *)
(*                                                                         *)
(* A memory of Depth pages is shared by a writer and a reader that run on  *)
(* different clocks.  Each side owns a counter of Depth_bits + 1 bits, and *)
(* sees the other side's counter through a two-flop synchronizer (and, on  *)
(* the write side, through two more registers: the decoded counter and the *)
(* level computed from it).  The page each side uses is its counter        *)
(* without the top bit.                                                    *)
(*                                                                         *)
(* The counters cross the clock domains in Gray code.  Between two clocks  *)
(* a counter moves by at most one, so a sample taken while it moves is its *)
(* old or its new value: that is how BothClk models a sample taken at      *)
(* coinciding edges, and the Gray registers hold here the number encoded.  *)
(***************************************************************************)
EXTENDS Naturals

CONSTANTS
  Depth,        \* pages in the FIFO (32 towards the framers, 8 towards USB)
  RecordSize,   \* bytes in a record
  Ids,          \* identities of the records written
  Blank         \* what memory holds before it is written

ASSUME DepthAssumption == Depth \in Nat /\ Depth >= 2
(* A record takes two write clocks or more (196 bytes and more in the       *)
(* design): the level the writer looks at is one of its own advances late.  *)
ASSUME RecordSizeAssumption == RecordSize \in Nat /\ RecordSize >= 2
ASSUME IdsAssumption == Ids # {} /\ Blank \notin Ids

VARIABLES
  produce_w_bin,    \* w clock: pages committed
  consume_w_meta,   \* w clock: first flop of the synchronizer
  consume_w_gry,    \* w clock: its output
  consume_w_bin,    \* w clock: the decoded copy of it
  w_level,          \* w clock: registered produce_w_bin - consume_w_bin
  w_addr,           \* w clock: next byte of the record being written
  w_id,             \* identity of the record being written
  consume_r_bin,    \* r clock: pages released
  produce_r_meta,   \* r clock: first flop of the synchronizer
  produce_r_gry,    \* r clock: its output
  memory            \* memory[page][byte]

w_vars == <<produce_w_bin, consume_w_meta, consume_w_gry, consume_w_bin,
            w_level, w_addr, w_id>>
r_vars == <<consume_r_bin, produce_r_meta, produce_r_gry>>
vars == <<w_vars, r_vars, memory>>

Counters == 0 .. 2 * Depth - 1
Pages    == 0 .. Depth - 1
Bytes    == 0 .. RecordSize - 1

Inc_unwrapped(x) == x + 1   \* fault: a counter wider than the FIFO's
Inc(x)     == IF x = 2 * Depth - 1 THEN 0 ELSE x + 1
Diff(a, b) == IF a >= b THEN a - b ELSE (a + 2 * Depth) - b
Page(x)    == IF x >= Depth THEN x - Depth ELSE x

fifo_level_empty_untrimmed == 0   \* fault: the page being read is not kept back
fifo_level_empty == 1
fifo_level_full_untrimmed == Depth   \* fault: the memory's size, not the trimmed one
fifo_level_full_low == fifo_level_empty   \* fault: compares with the wrong level
fifo_level_full  == Depth - 1

r_level_swapped == Diff(consume_r_bin, produce_r_gry)   \* fault: operands swapped
(***************************************************************************)
(* What each side is shown.                                                *)
(***************************************************************************)
r_level  == Diff(produce_r_gry, consume_r_bin)
r_empty_off_by_one == r_level <= fifo_level_empty + 1   \* fault: off by one
r_empty  == r_level <= fifo_level_empty
r_level2 == IF r_empty THEN 0 ELSE r_level - fifo_level_empty
w_full   == w_level >= fifo_level_full
w_level2 == IF w_level <= fifo_level_empty THEN 0 ELSE w_level - fifo_level_empty

(* The inner FIFO's own gates, which its paged user must never rely on. *)
fifo_w_rdy == Diff(produce_w_bin, consume_w_gry) # Depth
fifo_r_rdy == produce_r_gry # consume_r_bin

Init ==
  /\ produce_w_bin = 0 /\ consume_w_meta = 0 /\ consume_w_gry = 0
  /\ consume_w_bin = 0 /\ w_level = 0
  /\ consume_r_bin = 0 /\ produce_r_meta = 0 /\ produce_r_gry = 0
  /\ w_addr = 0 /\ w_id \in Ids
  /\ memory = [p \in Pages |-> [b \in Bytes |-> Blank]]

(* Fault: w_full is not looked at. *)
WriteCount_ungated(w_advance) ==
  IF w_advance /\ fifo_w_rdy THEN Inc(produce_w_bin) ELSE produce_w_bin
(***************************************************************************)
(* The write side.  Its user writes a record byte by byte and advances on  *)
(* the last byte, or gives the record up and starts again at byte 0.       *)
(***************************************************************************)
WriteCount(w_advance) ==
  IF w_advance /\ ~w_full /\ fifo_w_rdy
  THEN Inc(produce_w_bin)
  ELSE produce_w_bin

WDomain(w_en, restart, sample) ==
  LET w_advance == w_en /\ ~restart /\ w_addr = RecordSize - 1
      new_record == restart \/ w_advance
  IN  /\ memory' = IF w_en /\ ~restart
                   THEN [memory EXCEPT ![Page(produce_w_bin)][w_addr] = w_id]
                   ELSE memory
      /\ w_addr' = IF new_record THEN 0 ELSE IF w_en THEN w_addr + 1 ELSE w_addr
      /\ IF new_record THEN w_id' \in Ids ELSE w_id' = w_id
      /\ produce_w_bin' = WriteCount(w_advance)
      /\ consume_w_meta' = sample
      /\ consume_w_gry' = consume_w_meta
      /\ consume_w_bin' = consume_w_gry
      /\ w_level' = Diff(produce_w_bin, consume_w_bin)

(* Fault: r_empty is not looked at. *)
ReadCount_ungated(r_advance) ==
  IF r_advance /\ fifo_r_rdy THEN Inc(consume_r_bin) ELSE consume_r_bin
(***************************************************************************)
(* The read side.  Its user may ask for the next page at any clock.        *)
(***************************************************************************)
ReadCount(r_advance) ==
  IF r_advance /\ ~r_empty /\ fifo_r_rdy
  THEN Inc(consume_r_bin)
  ELSE consume_r_bin

RDomain(r_advance, sample) ==
  /\ consume_r_bin' = ReadCount(r_advance)
  /\ produce_r_meta' = sample
  /\ produce_r_gry' = produce_r_meta

(***************************************************************************)
(* Clock edges, apart or together.                                         *)
(***************************************************************************)
WClk ==
  \E w_en, restart \in BOOLEAN :
    WDomain(w_en, restart, consume_r_bin) /\ UNCHANGED r_vars

RClk(r_advance) ==
  RDomain(r_advance, produce_w_bin) /\ UNCHANGED <<w_vars, memory>>

BothClk ==
  \E w_en, restart, r_advance \in BOOLEAN :
    \E consume \in {consume_r_bin, ReadCount(r_advance)} :
      /\ WDomain(w_en, restart, consume)
      /\ \E produce \in {produce_w_bin, produce_w_bin'} : RDomain(r_advance, produce)

Next == WClk \/ (\E r_advance \in BOOLEAN : RClk(r_advance)) \/ BothClk

Spec == Init /\ [][Next]_vars

(* Both clocks keep running, and the reader keeps asking for pages. *)
FairSpec == Spec /\ WF_vars(WClk) /\ WF_vars(RClk(TRUE))

-----------------------------------------------------------------------------
(* Pages committed and not yet released, the reader's own included. *)
level == Diff(produce_w_bin, consume_r_bin)

TypeOK ==
  /\ {produce_w_bin, consume_w_meta, consume_w_gry, consume_w_bin, w_level}
       \subseteq Counters
  /\ {consume_r_bin, produce_r_meta, produce_r_gry} \subseteq Counters
  /\ w_addr \in Bytes /\ w_id \in Ids
  /\ memory \in [Pages -> [Bytes -> Ids \union {Blank}]]

(* However late each side sees the other, the writer never laps the reader  *)
(* and the reader never passes the writer: at most Depth - 1 pages are      *)
(* committed and unreleased (the trimmed levels of PagedAsyncFIFO).         *)
LevelBound == level <= Depth - 1

(* What either side is shown errs on the safe side: the reader never sees a *)
(* page that is not committed, and where the writer decides (not on a       *)
(* record's first byte) its level is not below the true one.                *)
LevelsConservative ==
  /\ r_level <= level
  /\ w_addr # 0 => w_level >= level

(* Every page the reader may still reach holds one record, complete: no     *)
(* committed page mixes two records, a given-up one or a dropped one.       *)
PageOf(i) == memory[Page(IF consume_r_bin + i >= 2 * Depth
                         THEN (consume_r_bin + i) - 2 * Depth
                         ELSE consume_r_bin + i)]
CommittedPagesWhole ==
  \A i \in 0 .. level - 1 : \E id \in Ids : PageOf(i) = [b \in Bytes |-> id]

(* Once the first record is committed, reader and writer never again work   *)
(* on the same page: a reader that gets ahead is held on the page before    *)
(* the writer's, a writer that gets ahead is held behind the reader's.      *)
PagesDisjoint == level # 0 => Page(produce_w_bin) # Page(consume_r_bin)

(* The reader cannot catch up with the writer again: the two share a page   *)
(* only between reset and the first commit.                                 *)
NeverSharedAgain == [][level # 0 => level' # 0]_vars

(* The FIFO implements a queue of whole records. *)
Abstract ==
  INSTANCE PageQueue WITH
    Capacity <- Depth - 1,
    Records  <- {[b \in Bytes |-> id] : id \in Ids},
    queue    <- [i \in 1 .. level |-> PageOf(i - 1)],
    visible  <- r_level
ImplementsPageQueue == Abstract!Spec

(* A full FIFO drains: with both clocks running and the reader asking, the  *)
(* writer is eventually shown a free page, whatever the delays.             *)
FullClears == w_full ~> ~w_full

(* A committed record is eventually the reader's: it is shown a page beyond *)
(* its own whenever there is one.                                           *)
CommittedIsShown == level >= 2 ~> r_level2 >= 1
=============================================================================

------------------------- MODULE PagedFIFO_proofs -------------------------
(***************************************************************************)
(* Proofs about PagedFIFO, for every depth, record size and set of         *)
(* identities.  The idea: measured from consume_w_bin, the oldest copy of  *)
(* the reader's counter, all the registers lie on one line of length       *)
(* Depth - 1 in the order in which a count travels through them.           *)
(***************************************************************************)
EXTENDS PagedFIFO, SequenceTheorems, TLAPS

-----------------------------------------------------------------------------
(* Arithmetic of counters modulo 2 * Depth.                                *)

LEMMA DiffType ==
  ASSUME NEW a \in Counters, NEW b \in Counters
  PROVE  Diff(a, b) \in Counters
  BY DepthAssumption DEF Diff, Counters

LEMMA DiffSelf ==
  ASSUME NEW a \in Counters
  PROVE  Diff(a, a) = 0
  BY DepthAssumption DEF Diff, Counters

LEMMA DiffZero ==
  ASSUME NEW a \in Counters, NEW b \in Counters, Diff(a, b) = 0
  PROVE  a = b
  BY DepthAssumption DEF Diff, Counters

LEMMA IncType ==
  ASSUME NEW a \in Counters
  PROVE  Inc(a) \in Counters
  BY DepthAssumption DEF Inc, Counters

(* Counting on by one adds one to the distance, short of a full turn. *)
LEMMA DiffInc ==
  ASSUME NEW a \in Counters, NEW b \in Counters, Diff(a, b) < 2 * Depth - 1
  PROVE  Diff(Inc(a), b) = Diff(a, b) + 1
  BY DepthAssumption DEF Diff, Inc, Counters

(* Moving the origin on by one takes one off the distance. *)
LEMMA DiffIncBase ==
  ASSUME NEW a \in Counters, NEW b \in Counters, Diff(a, Inc(b)) < 2 * Depth - 1
  PROVE  Diff(a, b) = Diff(a, Inc(b)) + 1
  BY DepthAssumption DEF Diff, Inc, Counters

LEMMA DiffInjective ==
  ASSUME NEW a \in Counters, NEW b \in Counters, NEW c \in Counters,
         Diff(a, c) = Diff(b, c)
  PROVE  a = b
  BY DepthAssumption DEF Diff, Counters

(* Distances may be measured from any register in between. *)
LEMMA DiffRebase ==
  ASSUME NEW a \in Counters, NEW b \in Counters, NEW c \in Counters,
         Diff(c, b) <= Diff(a, b)
  PROVE  Diff(a, c) = Diff(a, b) - Diff(c, b)
  BY DepthAssumption DEF Diff, Counters

(* Counters less than Depth apart, and not equal, are on different pages. *)
LEMMA PagesDiffer ==
  ASSUME NEW a \in Counters, NEW b \in Counters,
         Diff(a, b) # 0, Diff(a, b) <= Depth - 1
  PROVE  Page(a) # Page(b)
  BY DepthAssumption DEF Diff, Counters, Page

LEMMA PageType ==
  ASSUME NEW a \in Counters
  PROVE  Page(a) \in Pages
  BY DepthAssumption DEF Page, Counters, Pages

-----------------------------------------------------------------------------
(* TypeOK is inductive by itself.                                          *)

LEMMA WDomainType ==
  ASSUME TypeOK, NEW w_en \in BOOLEAN, NEW restart \in BOOLEAN,
         NEW sample \in Counters, WDomain(w_en, restart, sample)
  PROVE  /\ {produce_w_bin', consume_w_meta', consume_w_gry', consume_w_bin', w_level'}
               \subseteq Counters
         /\ w_addr' \in Bytes /\ w_id' \in Ids
         /\ memory' \in [Pages -> [Bytes -> Ids \union {Blank}]]
<1>1. produce_w_bin' \in Counters
  BY IncType DEF TypeOK, WDomain, WriteCount
<1>2. w_level' \in Counters
  BY DiffType DEF TypeOK, WDomain
<1>3. w_addr' \in Bytes
  BY RecordSizeAssumption DEF TypeOK, WDomain, Bytes
<1>4. w_id' \in Ids
  BY DEF TypeOK, WDomain
<1>5. memory' \in [Pages -> [Bytes -> Ids \union {Blank}]]
  BY DEF TypeOK, WDomain
<1>. QED  BY <1>1, <1>2, <1>3, <1>4, <1>5 DEF TypeOK, WDomain

LEMMA ReadCountType ==
  ASSUME TypeOK, NEW r_advance \in BOOLEAN
  PROVE  ReadCount(r_advance) \in Counters
  BY IncType DEF TypeOK, ReadCount

LEMMA RDomainType ==
  ASSUME TypeOK, NEW r_advance \in BOOLEAN, NEW sample \in Counters,
         RDomain(r_advance, sample)
  PROVE  {consume_r_bin', produce_r_meta', produce_r_gry'} \subseteq Counters
  BY ReadCountType DEF TypeOK, RDomain

LEMMA InitType == Init => TypeOK
  BY DepthAssumption, RecordSizeAssumption
  DEF Init, TypeOK, Counters, Bytes, Pages

LEMMA NextType == TypeOK /\ [Next]_vars => TypeOK'
<1> SUFFICES ASSUME TypeOK, [Next]_vars PROVE TypeOK'
  OBVIOUS
<1>1. CASE WClk
  <2>1. PICK w_en \in BOOLEAN, restart \in BOOLEAN :
          WDomain(w_en, restart, consume_r_bin) /\ UNCHANGED r_vars
    BY <1>1 DEF WClk
  <2>. QED  BY <2>1, WDomainType DEF TypeOK, r_vars
<1>2. ASSUME NEW r_advance \in BOOLEAN, RClk(r_advance) PROVE TypeOK'
  BY <1>2, RDomainType DEF TypeOK, RClk, w_vars
<1>3. CASE BothClk
  <2>1. PICK w_en \in BOOLEAN, restart \in BOOLEAN, r_advance \in BOOLEAN :
          \E consume \in {consume_r_bin, ReadCount(r_advance)} :
            /\ WDomain(w_en, restart, consume)
            /\ \E produce \in {produce_w_bin, produce_w_bin'} : RDomain(r_advance, produce)
    BY <1>3 DEF BothClk
  <2>2. PICK consume \in {consume_r_bin, ReadCount(r_advance)} :
          /\ WDomain(w_en, restart, consume)
          /\ \E produce \in {produce_w_bin, produce_w_bin'} : RDomain(r_advance, produce)
    BY <2>1
  <2>3. consume \in Counters
    BY ReadCountType DEF TypeOK
  <2>4. PICK produce \in {produce_w_bin, produce_w_bin'} : RDomain(r_advance, produce)
    BY <2>2
  <2>5. produce \in Counters
    BY <2>2, <2>3, WDomainType DEF TypeOK
  <2>. QED  BY <2>2, <2>3, <2>4, <2>5, WDomainType, RDomainType DEF TypeOK
<1>4. CASE UNCHANGED vars
  BY <1>4 DEF TypeOK, vars, w_vars, r_vars
<1>. QED  BY <1>1, <1>2, <1>3, <1>4 DEF Next

(* Every register stays within its width, whatever the two clocks do. *)
THEOREM TypeCorrect == Spec => []TypeOK
  BY InitType, NextType, PTL DEF Spec

-----------------------------------------------------------------------------
(* The inductive invariant behind every safety property: the registers in   *)
(* the order in which a count travels, measured from the oldest of them.    *)
Behind(x) == Diff(x, consume_w_bin)

Chain ==
  /\ Behind(consume_w_gry) <= Behind(consume_w_meta)
  /\ Behind(consume_w_meta) <= Behind(consume_r_bin)
  /\ Behind(consume_r_bin) <= Behind(produce_r_gry)
  /\ Behind(produce_r_gry) <= Behind(produce_r_meta)
  /\ Behind(produce_r_meta) <= Behind(produce_w_bin)
  /\ Behind(produce_w_bin) <= Depth - 1

(* w_level is at most one advance of the writer's own behind, and that only  *)
(* on the first byte of a record.                                           *)
LevelFresh ==
  /\ w_level + 1 >= Behind(produce_w_bin)
  /\ w_addr # 0 => w_level >= Behind(produce_w_bin)

IInv == TypeOK /\ Chain /\ LevelFresh

LEMMA BehindType ==
  ASSUME TypeOK, NEW x \in Counters
  PROVE  Behind(x) \in Nat /\ Behind(x) < 2 * Depth
<1>1. Diff(x, consume_w_bin) \in Counters
  BY DiffType DEF TypeOK
<1>. QED  BY <1>1, DepthAssumption DEF Behind, Counters

(* What the write side's clock does to distances, wherever in between the   *)
(* old and the new consume_w_bin they are measured from.                    *)
LEMMA WriterKeepsChain ==
  ASSUME IInv, NEW w_en \in BOOLEAN, NEW restart \in BOOLEAN,
         NEW sample \in Counters, WDomain(w_en, restart, sample)
  PROVE  /\ Behind(produce_w_bin') <= Depth - 1
         /\ Behind(produce_w_bin) <= Behind(produce_w_bin')
         /\ Behind(produce_w_bin') <= Behind(produce_w_bin) + 1
         /\ w_addr' # 0 => produce_w_bin' = produce_w_bin
<1> DEFINE w_advance == w_en /\ ~restart /\ w_addr = RecordSize - 1
<1>1. produce_w_bin' = WriteCount(w_advance)
  BY DEF WDomain
<1>t. Behind(produce_w_bin) \in Nat /\ Depth \in Nat
  BY BehindType, DepthAssumption DEF IInv, TypeOK
<1>2. CASE produce_w_bin' = produce_w_bin
  BY <1>2, <1>t DEF IInv, Chain
<1>3. CASE produce_w_bin' # produce_w_bin
  <2>1. w_advance /\ ~w_full /\ produce_w_bin' = Inc(produce_w_bin)
    BY <1>1, <1>3 DEF WriteCount
  <2>2. w_addr # 0 /\ w_level < Depth - 1
    BY <2>1, RecordSizeAssumption, DepthAssumption
    DEF w_full, fifo_level_full, IInv, TypeOK, Counters
  <2>3. Behind(produce_w_bin) < Depth - 1
    BY <2>2, <1>t, DepthAssumption DEF IInv, LevelFresh, TypeOK, Counters
  <2>4. Behind(produce_w_bin') = Behind(produce_w_bin) + 1
    <3>1. Diff(produce_w_bin, consume_w_bin) < 2 * Depth - 1
      BY <2>3, <1>t DEF Behind
    <3>. QED  BY <2>1, <3>1, DiffInc DEF IInv, TypeOK, Behind
  <2>5. w_addr' = 0
    BY <2>1 DEF WDomain
  <2>. QED  BY <2>3, <2>4, <2>5, <1>t
<1>. QED  BY <1>2, <1>3

LEMMA ReaderKeepsChain ==
  ASSUME IInv, NEW r_advance \in BOOLEAN
  PROVE  /\ ReadCount(r_advance) \in Counters
         /\ Behind(consume_r_bin) <= Behind(ReadCount(r_advance))
         /\ Behind(ReadCount(r_advance)) <= Behind(produce_r_gry)
         /\ ReadCount(r_advance) # consume_r_bin
              => Behind(ReadCount(r_advance)) < Behind(produce_r_gry)
<1>1. ReadCount(r_advance) \in Counters
  BY ReadCountType DEF IInv
<1>t. Behind(consume_r_bin) \in Nat /\ Behind(produce_r_gry) \in Nat /\ Depth \in Nat
  BY BehindType, DepthAssumption DEF IInv, TypeOK
<1>u. Behind(produce_r_gry) <= Depth - 1
  BY BehindType, DepthAssumption DEF IInv, Chain, TypeOK
<1>2. CASE ReadCount(r_advance) = consume_r_bin
  BY <1>1, <1>2, <1>t DEF IInv, Chain
<1>3. CASE ReadCount(r_advance) # consume_r_bin
  <2>1. ~r_empty /\ ReadCount(r_advance) = Inc(consume_r_bin)
    BY <1>3 DEF ReadCount
  <2>2. Diff(produce_r_gry, consume_r_bin) > 1
    BY <2>1, DiffType DEF r_empty, r_level, fifo_level_empty, IInv, TypeOK, Counters
  <2>3. Behind(consume_r_bin) + 1 < Behind(produce_r_gry)
    <3>1. Diff(produce_r_gry, consume_r_bin)
            = Behind(produce_r_gry) - Behind(consume_r_bin)
      BY DiffRebase DEF IInv, Chain, TypeOK, Behind
    <3>. QED  BY <2>2, <3>1, <1>t
  <2>4. Behind(Inc(consume_r_bin)) = Behind(consume_r_bin) + 1
    <3>1. Diff(consume_r_bin, consume_w_bin) < 2 * Depth - 1
      BY <2>3, <1>t, <1>u, DepthAssumption DEF Behind
    <3>. QED  BY <3>1, DiffInc DEF IInv, TypeOK, Behind
  <2>. QED  BY <1>1, <2>1, <2>3, <2>4, <1>t
<1>. QED  BY <1>2, <1>3, <1>1

LEMMA InitInv == Init => IInv
<1> SUFFICES ASSUME Init PROVE IInv
  OBVIOUS
<1>1. TypeOK
  BY InitType
<1>2. Diff(0, 0) = 0
  BY DiffSelf, DepthAssumption DEF Counters
<1>. QED  BY <1>1, <1>2, DepthAssumption DEF Init, IInv, Chain, LevelFresh, Behind

(* A write clock moves the origin from consume_w_bin to consume_w_gry.      *)
LEMMA WriteClockChain ==
  ASSUME IInv, TypeOK', NEW w_en \in BOOLEAN, NEW restart \in BOOLEAN,
         NEW sample \in Counters, WDomain(w_en, restart, sample),
         Behind(consume_r_bin) <= Behind(sample),
         Behind(sample) <= Behind(consume_r_bin'),
         Behind(consume_r_bin') <= Behind(produce_r_gry'),
         Behind(produce_r_gry') <= Behind(produce_r_meta'),
         Behind(produce_r_meta') <= Behind(produce_w_bin')
  PROVE  Chain' /\ LevelFresh'
<1> DEFINE base == Behind(consume_w_gry)
<1>1. /\ base \in Nat
      /\ Behind(consume_w_meta) \in Nat /\ Behind(sample) \in Nat
      /\ Behind(consume_r_bin) \in Nat /\ Behind(consume_r_bin') \in Nat
      /\ Behind(produce_r_gry') \in Nat /\ Behind(produce_r_meta') \in Nat
      /\ Behind(produce_w_bin) \in Nat /\ Behind(produce_w_bin') \in Nat
      /\ Depth \in Nat
  BY BehindType, DepthAssumption DEF IInv, TypeOK
<1>2. /\ consume_w_meta' = sample
      /\ consume_w_gry' = consume_w_meta
      /\ consume_w_bin' = consume_w_gry
      /\ w_level' = Behind(produce_w_bin)
  BY DEF WDomain, Behind
<1>3. /\ Behind(produce_w_bin') <= Depth - 1
      /\ Behind(produce_w_bin') <= Behind(produce_w_bin) + 1
      /\ w_addr' # 0 => produce_w_bin' = produce_w_bin
  BY WriterKeepsChain
<1>4. base <= Behind(consume_w_meta) /\ Behind(consume_w_meta) <= Behind(sample)
  BY <1>1 DEF IInv, Chain
<1>5. ASSUME NEW x \in Counters, base <= Behind(x)
      PROVE  Diff(x, consume_w_gry) = Behind(x) - base
  BY <1>5, DiffRebase DEF IInv, TypeOK, Behind
<1>6. /\ consume_r_bin' \in Counters /\ produce_r_gry' \in Counters
      /\ produce_r_meta' \in Counters /\ produce_w_bin' \in Counters
      /\ consume_w_meta \in Counters
  BY DEF TypeOK, IInv
<1>7. /\ Behind(consume_w_gry)'  = Behind(consume_w_meta) - base
      /\ Behind(consume_w_meta)' = Behind(sample) - base
      /\ Behind(consume_r_bin)'  = Behind(consume_r_bin') - base
      /\ Behind(produce_r_gry)'  = Behind(produce_r_gry') - base
      /\ Behind(produce_r_meta)' = Behind(produce_r_meta') - base
      /\ Behind(produce_w_bin)'  = Behind(produce_w_bin') - base
  <2>1. /\ base <= Behind(consume_r_bin') /\ base <= Behind(produce_r_gry')
        /\ base <= Behind(produce_r_meta') /\ base <= Behind(produce_w_bin')
        /\ base <= Behind(sample)
    BY <1>1, <1>4
  <2>. QED  BY <1>2, <1>4, <1>5, <1>6, <2>1 DEF Behind
<1>8. Chain'
  BY <1>1, <1>3, <1>4, <1>7 DEF Chain
<1>9. LevelFresh'
  BY <1>1, <1>2, <1>3, <1>7 DEF LevelFresh
<1>. QED  BY <1>8, <1>9

LEMMA NextInv == IInv /\ [Next]_vars => IInv'
<1> SUFFICES ASSUME IInv, [Next]_vars PROVE IInv'
  OBVIOUS
<1>1. TypeOK'
  BY NextType DEF IInv
<1>2. /\ Behind(consume_r_bin) \in Nat
      /\ Behind(produce_r_gry) \in Nat /\ Behind(produce_r_meta) \in Nat
      /\ Behind(produce_w_bin) \in Nat
  BY BehindType DEF IInv, TypeOK
<1>3. CASE WClk
  <2>1. PICK w_en \in BOOLEAN, restart \in BOOLEAN :
          WDomain(w_en, restart, consume_r_bin) /\ UNCHANGED r_vars
    BY <1>3 DEF WClk
  <2>2. /\ Behind(produce_w_bin) <= Behind(produce_w_bin')
        /\ Behind(produce_w_bin') \in Nat
    BY <1>1, <2>1, WriterKeepsChain, BehindType DEF IInv, TypeOK
  <2>3. Chain' /\ LevelFresh'
    BY <1>1, <1>2, <2>1, <2>2, WriteClockChain DEF IInv, Chain, TypeOK, r_vars
  <2>. QED  BY <1>1, <2>3 DEF IInv
<1>4. ASSUME NEW r_advance \in BOOLEAN, RClk(r_advance) PROVE IInv'
  <2>1. /\ Behind(consume_r_bin) <= Behind(consume_r_bin')
        /\ Behind(consume_r_bin') <= Behind(produce_r_gry)
        /\ Behind(consume_r_bin') \in Nat
    BY <1>1, <1>4, ReaderKeepsChain, BehindType DEF IInv, TypeOK, RClk, RDomain
  <2>2. /\ produce_r_gry' = produce_r_meta /\ produce_r_meta' = produce_w_bin
        /\ UNCHANGED <<w_vars, memory>>
    BY <1>4 DEF RClk, RDomain
  <2>3. Behind(consume_w_meta) \in Nat
    BY BehindType DEF IInv, TypeOK
  <2>4. Chain'
    BY <1>2, <2>1, <2>2, <2>3 DEF IInv, Chain, Behind, w_vars
  <2>5. LevelFresh'
    BY <2>2 DEF IInv, LevelFresh, Behind, w_vars
  <2>. QED  BY <1>1, <2>4, <2>5 DEF IInv
<1>5. CASE BothClk
  <2>1. PICK w_en \in BOOLEAN, restart \in BOOLEAN, r_advance \in BOOLEAN :
          \E consume \in {consume_r_bin, ReadCount(r_advance)} :
            /\ WDomain(w_en, restart, consume)
            /\ \E produce \in {produce_w_bin, produce_w_bin'} : RDomain(r_advance, produce)
    BY <1>5 DEF BothClk
  <2>2. PICK consume \in {consume_r_bin, ReadCount(r_advance)} :
          /\ WDomain(w_en, restart, consume)
          /\ \E produce \in {produce_w_bin, produce_w_bin'} : RDomain(r_advance, produce)
    BY <2>1
  <2>3. PICK produce \in {produce_w_bin, produce_w_bin'} : RDomain(r_advance, produce)
    BY <2>2
  <2>4. consume \in Counters /\ consume_r_bin' = ReadCount(r_advance)
    BY <2>3, ReadCountType DEF IInv, TypeOK, RDomain
  <2>5. /\ Behind(consume_r_bin) <= Behind(consume)
        /\ Behind(consume) <= Behind(consume_r_bin')
        /\ Behind(consume_r_bin') <= Behind(produce_r_gry)
        /\ Behind(consume_r_bin') \in Nat
    BY <1>1, <1>2, <2>4, ReaderKeepsChain, BehindType DEF IInv, TypeOK
  <2>6. /\ Behind(produce_w_bin) <= Behind(produce_w_bin')
        /\ Behind(produce_w_bin') \in Nat
    BY <1>1, <2>2, <2>4, WriterKeepsChain, BehindType DEF IInv, TypeOK
  <2>7. /\ Behind(consume_r_bin') <= Behind(produce_r_gry')
        /\ Behind(produce_r_gry') <= Behind(produce_r_meta')
        /\ Behind(produce_r_meta') <= Behind(produce_w_bin')
    BY <1>2, <2>3, <2>5, <2>6 DEF IInv, Chain, RDomain
  <2>8. Chain' /\ LevelFresh'
    BY <1>1, <2>2, <2>4, <2>5, <2>7, WriteClockChain
  <2>. QED  BY <1>1, <2>8 DEF IInv
<1>6. CASE UNCHANGED vars
  BY <1>1, <1>6 DEF IInv, Chain, LevelFresh, Behind, vars, w_vars, r_vars
<1>. QED  BY <1>3, <1>4, <1>5, <1>6 DEF Next

LEMMA InvHolds == Spec => []IInv
  BY InitInv, NextInv, PTL DEF Spec

-----------------------------------------------------------------------------
(* What the chain says of the level.                                        *)

LEMMA LevelFromChain ==
  ASSUME IInv
  PROVE  /\ level \in Nat /\ level <= Depth - 1
         /\ level = Behind(produce_w_bin) - Behind(consume_r_bin)
         /\ r_level \in Nat /\ r_level <= level
         /\ r_level = Behind(produce_r_gry) - Behind(consume_r_bin)
<1>1. /\ Behind(consume_r_bin) \in Nat /\ Behind(produce_r_gry) \in Nat
      /\ Behind(produce_r_meta) \in Nat /\ Behind(produce_w_bin) \in Nat
      /\ Depth \in Nat
  BY BehindType, DepthAssumption DEF IInv, TypeOK
<1>2. /\ Behind(consume_r_bin) <= Behind(produce_r_gry)
      /\ Behind(produce_r_gry) <= Behind(produce_w_bin)
      /\ Behind(produce_w_bin) <= Depth - 1
  BY <1>1 DEF IInv, Chain
<1>3. level = Behind(produce_w_bin) - Behind(consume_r_bin)
  BY <1>1, <1>2, DiffRebase DEF level, IInv, TypeOK, Behind
<1>4. r_level = Behind(produce_r_gry) - Behind(consume_r_bin)
  BY <1>1, <1>2, DiffRebase DEF r_level, IInv, TypeOK, Behind
<1>. QED  BY <1>1, <1>2, <1>3, <1>4

(* The writer never laps the reader, for any depth and any delay between    *)
(* the clock domains.                                                       *)
THEOREM LevelBoundHolds == Spec => []LevelBound
<1>1. IInv => LevelBound
  BY LevelFromChain DEF LevelBound
<1>. QED  BY <1>1, InvHolds, PTL

(* Neither side is ever shown more room, or more data, than there is.       *)
THEOREM LevelsConservativeHolds == Spec => []LevelsConservative
<1>1. IInv => LevelsConservative
  <2> SUFFICES ASSUME IInv PROVE LevelsConservative
    OBVIOUS
  <2>1. /\ Behind(consume_r_bin) \in Nat /\ Behind(produce_w_bin) \in Nat
        /\ w_level \in Nat
    BY BehindType, DepthAssumption DEF IInv, TypeOK, Counters
  <2>2. level <= Behind(produce_w_bin) /\ r_level <= level /\ level \in Nat
    BY <2>1, LevelFromChain
  <2>. QED  BY <2>1, <2>2 DEF LevelsConservative, IInv, LevelFresh
<1>. QED  BY <1>1, InvHolds, PTL

(* Reader and writer are on different pages from the first commit on.       *)
THEOREM PagesDisjointHolds == Spec => []PagesDisjoint
<1>1. IInv => PagesDisjoint
  <2> SUFFICES ASSUME IInv, level # 0
               PROVE  Page(produce_w_bin) # Page(consume_r_bin)
    BY DEF PagesDisjoint
  <2>1. level <= Depth - 1
    BY LevelFromChain
  <2>. QED  BY <2>1, PagesDiffer DEF IInv, TypeOK, level
<1>. QED  BY <1>1, InvHolds, PTL

(* How the level moves: down by one only past a committed successor.        *)
LEMMA LevelStep ==
  ASSUME IInv, IInv', [Next]_vars, level # 0
  PROVE  level' # 0
<1>1. /\ Behind(consume_r_bin) \in Nat /\ Behind(produce_r_gry) \in Nat
      /\ Behind(produce_w_bin) \in Nat /\ Behind(produce_r_meta) \in Nat
  BY BehindType DEF IInv, TypeOK
<1>2. Behind(produce_r_gry) <= Behind(produce_w_bin)
  BY <1>1 DEF IInv, Chain
<1>3. \E r_advance \in BOOLEAN :
        consume_r_bin' = consume_r_bin \/ consume_r_bin' = ReadCount(r_advance)
  BY DEF Next, WClk, RClk, BothClk, RDomain, vars, r_vars
<1>4. /\ Behind(consume_r_bin') \in Nat
      /\ \/ consume_r_bin' = consume_r_bin
         \/ Behind(consume_r_bin') < Behind(produce_r_gry)
  BY <1>3, ReaderKeepsChain, BehindType DEF IInv, TypeOK
<1>5. Behind(produce_w_bin) <= Behind(produce_w_bin') /\ Behind(produce_w_bin') \in Nat
  <2>1. CASE produce_w_bin' = produce_w_bin
    BY <1>1, <2>1
  <2>2. CASE WClk \/ BothClk
    <3>1. PICK w_en \in BOOLEAN, restart \in BOOLEAN, r_advance \in BOOLEAN,
               sample \in Counters :
            WDomain(w_en, restart, sample)
      BY <2>2, ReadCountType DEF WClk, BothClk, IInv, TypeOK
    <3>. QED  BY <3>1, WriterKeepsChain, BehindType DEF IInv, TypeOK
  <2>. QED  BY <2>1, <2>2 DEF Next, RClk, vars, w_vars
<1>6. Behind(consume_r_bin') # Behind(produce_w_bin')
  <2>1. Behind(consume_r_bin) # Behind(produce_w_bin)
    BY <1>1, LevelFromChain
  <2>2. Behind(consume_r_bin) <= Behind(produce_w_bin)
    BY <1>1, LevelFromChain
  <2>3. CASE consume_r_bin' = consume_r_bin
    BY <1>1, <1>5, <2>1, <2>2, <2>3
  <2>4. CASE Behind(consume_r_bin') < Behind(produce_r_gry)
    BY <1>1, <1>2, <1>4, <1>5, <2>4
  <2>. QED  BY <1>4, <2>3, <2>4
<1>7. consume_r_bin' # produce_w_bin'
  BY <1>6
<1>. QED  BY <1>7, DiffZero DEF level, IInv, TypeOK

(* Reader and writer share a page between reset and the first commit, and   *)
(* never again.                                                             *)
THEOREM NeverSharedAgainHolds == Spec => NeverSharedAgain
<1>1. IInv /\ IInv' /\ [Next]_vars => [level # 0 => level' # 0]_vars
  BY LevelStep
<1>. QED  BY <1>1, InvHolds, PTL DEF Spec, NeverSharedAgain

-----------------------------------------------------------------------------
(* The contents of the pages.  Whole(x): the page of counter value x holds  *)
(* one complete record.                                                     *)
Whole(x) == \E id \in Ids : memory[Page(x)] = [b \in Bytes |-> id]

Committed(x) == Diff(x, consume_r_bin) < level

(* Committed pages are whole, and the page under the writer holds the part   *)
(* of its record it has got to.                                             *)
PagesInv ==
  /\ \A x \in Counters : Committed(x) => Whole(x)
  /\ \A b \in Bytes : b < w_addr => memory[Page(produce_w_bin)][b] = w_id

LEMMA CommittedNotWritten ==
  ASSUME IInv, NEW x \in Counters, Committed(x)
  PROVE  Page(x) # Page(produce_w_bin)
<1>1. level <= Depth - 1 /\ level \in Nat /\ Depth \in Nat
  BY LevelFromChain, DepthAssumption
<1>2. Diff(x, consume_r_bin) < Diff(produce_w_bin, consume_r_bin)
  BY DEF Committed, level
<1>3. /\ Diff(x, consume_r_bin) \in Nat
      /\ Diff(produce_w_bin, x)
           = Diff(produce_w_bin, consume_r_bin) - Diff(x, consume_r_bin)
  <2>1. Diff(x, consume_r_bin) \in Counters
    BY DiffType DEF IInv, TypeOK
  <2>2. Diff(x, consume_r_bin) <= Diff(produce_w_bin, consume_r_bin)
    BY <1>1, <1>2, <2>1 DEF level, Counters
  <2>. QED  BY <2>1, <2>2, DiffRebase, DepthAssumption DEF IInv, TypeOK, Counters
<1>4. Diff(produce_w_bin, x) # 0 /\ Diff(produce_w_bin, x) <= Depth - 1
  BY <1>1, <1>2, <1>3 DEF level
<1>. QED  BY <1>4, PagesDiffer DEF IInv, TypeOK

(* A counter value committed after a step was committed before it, or is     *)
(* the page the writer has just completed.                                  *)
LEMMA CommittedBefore ==
  ASSUME IInv, IInv', [Next]_vars, NEW x \in Counters, Committed(x)'
  PROVE  Committed(x) \/ (x = produce_w_bin /\ produce_w_bin' # produce_w_bin)
<1> DEFINE old == consume_r_bin  new == consume_r_bin'
<1>1. /\ level \in Nat /\ level <= Depth - 1 /\ level' \in Nat /\ level' <= Depth - 1
  <2>1. (level \in Nat /\ level <= Depth - 1)'
    BY LevelFromChain, PTL
  <2>. QED  BY <2>1, LevelFromChain
<1>2. \/ produce_w_bin' = produce_w_bin
      \/ produce_w_bin' = Inc(produce_w_bin)
  BY DEF Next, WClk, RClk, BothClk, WDomain, WriteCount, vars, w_vars
<1>3. new = old \/ new = Inc(old)
  BY DEF Next, WClk, RClk, BothClk, RDomain, ReadCount, vars, r_vars
<1>4. /\ old \in Counters /\ new \in Counters
      /\ produce_w_bin \in Counters /\ produce_w_bin' \in Counters
  BY DEF IInv, TypeOK
<1>5. Diff(x, new) < Diff(produce_w_bin', new)
  BY DEF Committed, level
<1>6. /\ Diff(x, new) \in Nat /\ Diff(produce_w_bin', new) \in Nat
      /\ Diff(produce_w_bin', new) <= Depth - 1
      /\ Diff(x, old) \in Nat /\ Diff(produce_w_bin, old) \in Nat
      /\ Depth \in Nat /\ Depth >= 2
  BY <1>1, <1>4, DiffType, DepthAssumption DEF level, Counters
<1>7. Diff(x, old) < Diff(produce_w_bin', old)
  <2>1. CASE new = old
    BY <1>5, <2>1
  <2>2. CASE new = Inc(old)
    <3>1. Diff(x, new) < 2 * Depth - 1 /\ Diff(produce_w_bin', new) < 2 * Depth - 1
      BY <1>5, <1>6
    <3>2. /\ Diff(x, old) = Diff(x, new) + 1
          /\ Diff(produce_w_bin', old) = Diff(produce_w_bin', new) + 1
      BY <1>4, <2>2, <3>1, DiffIncBase
    <3>. QED  BY <1>5, <1>6, <3>2
  <2>. QED  BY <1>3, <2>1, <2>2
<1>8. CASE produce_w_bin' = produce_w_bin
  BY <1>7, <1>8 DEF Committed, level
<1>9. CASE produce_w_bin' = Inc(produce_w_bin) /\ produce_w_bin' # produce_w_bin
  <2>1. Diff(produce_w_bin', old) = Diff(produce_w_bin, old) + 1
    <3>1. Diff(produce_w_bin, old) < 2 * Depth - 1
      BY <1>1, <1>6 DEF level
    <3>. QED  BY <1>4, <1>9, <3>1, DiffInc
  <2>2. CASE Diff(x, old) = Diff(produce_w_bin, old)
    BY <1>4, <1>9, <2>2, DiffInjective
  <2>3. CASE Diff(x, old) < Diff(produce_w_bin, old)
    BY <2>3 DEF Committed, level
  <2>. QED  BY <1>6, <1>7, <2>1, <2>2, <2>3
<1>. QED  BY <1>2, <1>8, <1>9

(* What a write clock does to the pages. *)
LEMMA WriteClockPages ==
  ASSUME IInv, PagesInv, NEW w_en \in BOOLEAN, NEW restart \in BOOLEAN,
         NEW sample \in Counters, WDomain(w_en, restart, sample)
  PROVE  /\ \A x \in Counters :
               Page(x) # Page(produce_w_bin) => memory'[Page(x)] = memory[Page(x)]
         /\ produce_w_bin' # produce_w_bin
              => memory'[Page(produce_w_bin)] = [b \in Bytes |-> w_id]
         /\ \A b \in Bytes : b < w_addr' => memory'[Page(produce_w_bin')][b] = w_id'
<1> DEFINE here == Page(produce_w_bin)
           w_advance == w_en /\ ~restart /\ w_addr = RecordSize - 1
<1>1. /\ here \in Pages /\ w_addr \in Bytes
      /\ memory \in [Pages -> [Bytes -> Ids \union {Blank}]]
      /\ memory[here] \in [Bytes -> Ids \union {Blank}]
  BY PageType DEF IInv, TypeOK
<1>2. memory' = IF w_en /\ ~restart
                THEN [memory EXCEPT ![here][w_addr] = w_id]
                ELSE memory
  BY DEF WDomain
<1>3. \A x \in Counters : Page(x) # here => memory'[Page(x)] = memory[Page(x)]
  BY <1>1, <1>2, PageType
<1>4. ASSUME w_en, ~restart
      PROVE  memory'[here] = [memory[here] EXCEPT ![w_addr] = w_id]
  BY <1>1, <1>2, <1>4
<1>5. ASSUME produce_w_bin' # produce_w_bin
      PROVE  memory'[here] = [b \in Bytes |-> w_id]
  <2>1. w_advance
    BY <1>5 DEF WDomain, WriteCount
  <2>2. memory'[here] = [memory[here] EXCEPT ![w_addr] = w_id]
    BY <1>4, <2>1
  <2>3. ASSUME NEW b \in Bytes PROVE memory'[here][b] = w_id
    <3>1. b = w_addr \/ b < w_addr
      BY <2>1, RecordSizeAssumption DEF Bytes
    <3>. QED  BY <1>1, <2>2, <3>1 DEF PagesInv
  <2>. QED  BY <1>1, <2>2, <2>3
<1>6. ASSUME NEW b \in Bytes, b < w_addr'
      PROVE  memory'[Page(produce_w_bin')][b] = w_id'
  <2>1. w_addr' # 0
    BY <1>6 DEF Bytes
  <2>2. ~restart /\ ~w_advance /\ w_id' = w_id
    BY <2>1 DEF WDomain
  <2>3. produce_w_bin' = produce_w_bin
    BY <2>2 DEF WDomain, WriteCount
  <2>4. CASE w_en
    <3>1. w_addr' = w_addr + 1
      BY <2>2, <2>4 DEF WDomain
    <3>2. b = w_addr \/ b < w_addr
      BY <1>1, <1>6, <3>1, RecordSizeAssumption DEF Bytes
    <3>. QED  BY <1>1, <1>4, <2>2, <2>3, <2>4, <3>2 DEF PagesInv
  <2>5. CASE ~w_en
    <3>1. w_addr' = w_addr /\ memory' = memory
      BY <2>2, <2>5 DEF WDomain
    <3>. QED  BY <1>6, <2>2, <2>3, <3>1 DEF PagesInv
  <2>. QED  BY <2>4, <2>5
<1>. QED  BY <1>3, <1>5, <1>6

LEMMA PagesStep == IInv /\ IInv' /\ PagesInv /\ [Next]_vars => PagesInv'
<1> SUFFICES ASSUME IInv, IInv', PagesInv, [Next]_vars PROVE PagesInv'
  OBVIOUS
<1>1. /\ \A x \in Counters :
           Page(x) # Page(produce_w_bin) => memory'[Page(x)] = memory[Page(x)]
      /\ produce_w_bin' # produce_w_bin
           => \E id \in Ids : memory'[Page(produce_w_bin)] = [b \in Bytes |-> id]
      /\ \A b \in Bytes : b < w_addr' => memory'[Page(produce_w_bin')][b] = w_id'
  <2>1. CASE UNCHANGED <<w_vars, memory>>
    BY <2>1 DEF w_vars, PagesInv
  <2>2. CASE WClk \/ BothClk
    <3>1. PICK w_en \in BOOLEAN, restart \in BOOLEAN, r_advance \in BOOLEAN,
               sample \in Counters :
            WDomain(w_en, restart, sample)
      BY <2>2, ReadCountType DEF WClk, BothClk, IInv, TypeOK
    <3>2. w_id \in Ids
      BY DEF IInv, TypeOK
    <3>. QED  BY <3>1, <3>2, WriteClockPages
  <2>. QED  BY <2>1, <2>2 DEF Next, RClk, vars
<1>2. ASSUME NEW x \in Counters, Committed(x)' PROVE Whole(x)'
  <2>1. CASE Committed(x)
    <3>1. memory'[Page(x)] = memory[Page(x)]
      BY <1>1, <2>1, CommittedNotWritten
    <3>. QED  BY <2>1, <3>1 DEF PagesInv, Whole
  <2>2. CASE x = produce_w_bin /\ produce_w_bin' # produce_w_bin
    BY <1>1, <2>2 DEF Whole
  <2>. QED  BY <1>2, <2>1, <2>2, CommittedBefore
<1>. QED  BY <1>1, <1>2 DEF PagesInv

LEMMA PagesInit == Init => PagesInv
<1> SUFFICES ASSUME Init PROVE PagesInv
  OBVIOUS
<1>1. level = 0
  BY DiffSelf, DepthAssumption DEF Init, level, Counters
<1>2. ASSUME NEW x \in Counters PROVE ~Committed(x)
  <2>1. Diff(x, consume_r_bin) \in Counters
    BY DiffType, DepthAssumption DEF Init, Counters
  <2>. QED  BY <1>1, <2>1 DEF Committed, Counters
<1>3. \A b \in Bytes : ~(b < w_addr)
  BY DEF Init, Bytes
<1>. QED  BY <1>2, <1>3 DEF PagesInv

LEMMA PagesInvHolds == Spec => []PagesInv
  BY InvHolds, PagesInit, PagesStep, PTL DEF Spec

(* No page the reader can reach mixes the bytes of two records, whatever    *)
(* was given up, dropped or overwritten on the way.                         *)
THEOREM CommittedPagesWholeHolds == Spec => []CommittedPagesWhole
<1>1. IInv /\ PagesInv => CommittedPagesWhole
  <2> SUFFICES ASSUME IInv, PagesInv, NEW i \in 0 .. level - 1
               PROVE  \E id \in Ids : PageOf(i) = [b \in Bytes |-> id]
    BY DEF CommittedPagesWhole
  <2> DEFINE x == IF consume_r_bin + i >= 2 * Depth
                  THEN (consume_r_bin + i) - 2 * Depth
                  ELSE consume_r_bin + i
  <2>1. level \in Nat /\ level <= Depth - 1
    BY LevelFromChain
  <2>2. x \in Counters /\ Diff(x, consume_r_bin) = i
    BY <2>1, DepthAssumption DEF IInv, TypeOK, Counters, Diff
  <2>3. Committed(x)
    BY <2>1, <2>2 DEF Committed
  <2>. QED  BY <2>2, <2>3 DEF PagesInv, Whole, PageOf
<1>. QED  BY <1>1, PagesInvHolds, InvHolds, PTL

-----------------------------------------------------------------------------
(* The FIFO implements PageQueue.  The abstract queue is read off the pages  *)
(* from the reader's counter on.                                            *)
At(c, i) == IF c + i >= 2 * Depth THEN (c + i) - 2 * Depth ELSE c + i

Records == {[b \in Bytes |-> id] : id \in Ids}
Queue   == [i \in 1 .. level |-> PageOf(i - 1)]

LEMMA AtProperties ==
  ASSUME NEW c \in Counters, NEW i \in 0 .. Depth
  PROVE  At(c, i) \in Counters /\ Diff(At(c, i), c) = i
  BY DepthAssumption DEF At, Counters, Diff

LEMMA AtNext ==
  ASSUME NEW c \in Counters, NEW i \in 0 .. Depth - 1
  PROVE  At(Inc(c), i) = At(c, i + 1)
  BY DepthAssumption DEF At, Inc, Counters

LEMMA AtDiff ==
  ASSUME NEW a \in Counters, NEW c \in Counters
  PROVE  At(c, Diff(a, c)) = a
  BY DepthAssumption DEF At, Counters, Diff

LEMMA QueueType ==
  ASSUME IInv, PagesInv
  PROVE  /\ Queue \in Seq(Records)
         /\ Len(Queue) = level
         /\ \A i \in 1 .. level : Queue[i] = memory[Page(At(consume_r_bin, i - 1))]
<1>1. level \in Nat /\ level <= Depth - 1
  BY LevelFromChain
<1>2. ASSUME NEW i \in 1 .. level PROVE PageOf(i - 1) \in Records
  <2> DEFINE x == At(consume_r_bin, i - 1)
  <2>1. x \in Counters /\ Diff(x, consume_r_bin) = i - 1
    BY <1>1, AtProperties, DepthAssumption DEF IInv, TypeOK
  <2>2. Whole(x)
    BY <1>1, <2>1 DEF PagesInv, Committed
  <2>. QED  BY <2>2 DEF Whole, Records, PageOf, At
<1>3. Queue \in [1 .. level -> Records]
  BY <1>2 DEF Queue
<1>4. Queue \in Seq(Records)
  BY <1>1, <1>3, SeqDef
<1>5. Len(Queue) = level
  BY <1>1, <1>3, <1>4, LenProperties
<1>. QED  BY <1>4, <1>5 DEF Queue, PageOf, At

(* How the counters and the pages move in one step. *)
LEMMA CountersStep ==
  ASSUME IInv, [Next]_vars
  PROVE  /\ consume_r_bin' # consume_r_bin
              => consume_r_bin' = Inc(consume_r_bin) /\ r_level >= 2
         /\ produce_w_bin' # produce_w_bin => produce_w_bin' = Inc(produce_w_bin)
         /\ produce_r_gry' \in {produce_r_gry, produce_r_meta}
         /\ Behind(produce_w_bin') <= Depth - 1
<1>1. consume_r_bin' # consume_r_bin
        => consume_r_bin' = Inc(consume_r_bin) /\ ~r_empty
  BY DEF Next, WClk, RClk, BothClk, RDomain, ReadCount, vars, r_vars
<1>2. ~r_empty => r_level >= 2
  BY LevelFromChain DEF r_empty, fifo_level_empty
<1>3. /\ produce_w_bin' # produce_w_bin => produce_w_bin' = Inc(produce_w_bin)
      /\ produce_r_gry' \in {produce_r_gry, produce_r_meta}
  BY DEF Next, WClk, RClk, BothClk, WDomain, WriteCount, RDomain, vars, w_vars, r_vars
<1>4. Behind(produce_w_bin') <= Depth - 1
  <2>1. CASE produce_w_bin' = produce_w_bin
    BY <2>1 DEF IInv, Chain
  <2>2. CASE WClk \/ BothClk
    <3>1. PICK w_en \in BOOLEAN, restart \in BOOLEAN, r_advance \in BOOLEAN,
               sample \in Counters :
            WDomain(w_en, restart, sample)
      BY <2>2, ReadCountType DEF WClk, BothClk, IInv, TypeOK
    <3>. QED  BY <3>1, WriterKeepsChain
  <2>. QED  BY <2>1, <2>2 DEF Next, RClk, vars, w_vars
<1>. QED  BY <1>1, <1>2, <1>3, <1>4

LEMMA PagesMove ==
  ASSUME IInv, PagesInv, [Next]_vars
  PROVE  /\ \A x \in Counters :
               Page(x) # Page(produce_w_bin) => memory'[Page(x)] = memory[Page(x)]
         /\ produce_w_bin' # produce_w_bin => memory'[Page(produce_w_bin)] \in Records
<1>1. CASE UNCHANGED <<w_vars, memory>>
  BY <1>1 DEF w_vars
<1>2. CASE WClk \/ BothClk
  <2>1. PICK w_en \in BOOLEAN, restart \in BOOLEAN, r_advance \in BOOLEAN,
             sample \in Counters :
          WDomain(w_en, restart, sample)
    BY <1>2, ReadCountType DEF WClk, BothClk, IInv, TypeOK
  <2>2. w_id \in Ids
    BY DEF IInv, TypeOK
  <2>. QED  BY <2>1, <2>2, WriteClockPages DEF Records
<1>. QED  BY <1>1, <1>2 DEF Next, RClk, vars

LEMMA LevelMove ==
  ASSUME IInv, IInv', [Next]_vars
  PROVE  LET gone == IF consume_r_bin' # consume_r_bin THEN 1 ELSE 0
             come == IF produce_w_bin' # produce_w_bin THEN 1 ELSE 0
         IN  /\ level' = (level - gone) + come
             /\ level + come <= Depth - 1
             /\ r_level - gone <= r_level'
             /\ r_level' <= level' /\ r_level' \in Nat /\ level' \in Nat
<1> DEFINE gone == IF consume_r_bin' # consume_r_bin THEN 1 ELSE 0
           come == IF produce_w_bin' # produce_w_bin THEN 1 ELSE 0
<1>1. /\ Behind(consume_r_bin) \in Nat /\ Behind(consume_r_bin') \in Nat
      /\ Behind(produce_w_bin) \in Nat /\ Behind(produce_w_bin') \in Nat
      /\ Behind(produce_r_gry) \in Nat /\ Behind(produce_r_gry') \in Nat
      /\ Behind(produce_r_meta) \in Nat /\ Depth \in Nat /\ Depth >= 2
  BY BehindType, DepthAssumption DEF IInv, TypeOK
<1>2. /\ Behind(consume_r_bin) <= Behind(produce_r_gry)
      /\ Behind(produce_r_gry) <= Behind(produce_r_meta)
      /\ Behind(produce_r_meta) <= Behind(produce_w_bin)
      /\ Behind(produce_w_bin) <= Depth - 1
  BY DEF IInv, Chain
<1>3. /\ level = Behind(produce_w_bin) - Behind(consume_r_bin)
      /\ r_level = Behind(produce_r_gry) - Behind(consume_r_bin)
  BY LevelFromChain
<1>4. Behind(consume_r_bin') = Behind(consume_r_bin) + gone /\ gone \in {0, 1}
  <2>1. Diff(consume_r_bin, consume_w_bin) < 2 * Depth - 1
    BY <1>1, <1>2 DEF Behind
  <2>. QED  BY <1>1, <2>1, CountersStep, DiffInc DEF IInv, TypeOK, Behind
<1>5. Behind(produce_w_bin') = Behind(produce_w_bin) + come /\ come \in {0, 1}
  <2>1. Diff(produce_w_bin, consume_w_bin) < 2 * Depth - 1
    BY <1>1, <1>2 DEF Behind
  <2>. QED  BY <1>1, <2>1, CountersStep, DiffInc DEF IInv, TypeOK, Behind
<1>6. /\ Behind(produce_r_gry) <= Behind(produce_r_gry')
      /\ Behind(consume_r_bin') <= Behind(produce_r_gry')
      /\ Behind(consume_r_bin') <= Behind(produce_w_bin')
  <2>1. Behind(produce_r_gry') \in {Behind(produce_r_gry), Behind(produce_r_meta)}
    BY CountersStep
  <2>2. gone = 1 => Behind(consume_r_bin) + 2 <= Behind(produce_r_gry)
    BY <1>1, <1>3, CountersStep
  <2>. QED  BY <1>1, <1>2, <1>4, <1>5, <2>1, <2>2
<1>7. /\ level' = Behind(produce_w_bin') - Behind(consume_r_bin')
      /\ r_level' = Behind(produce_r_gry') - Behind(consume_r_bin')
  BY <1>6, DiffRebase DEF level, r_level, IInv, TypeOK, Behind
<1>8. (level \in Nat /\ r_level \in Nat /\ r_level <= level)'
  BY LevelFromChain, PTL
<1>9. Behind(produce_w_bin') <= Depth - 1
  BY CountersStep
<1>10. level' = (level - gone) + come /\ level + come <= Depth - 1
  BY <1>1, <1>3, <1>4, <1>5, <1>7, <1>9
<1>11. r_level - gone <= r_level'
  BY <1>1, <1>3, <1>4, <1>6, <1>7
<1>. QED  BY <1>8, <1>10, <1>11

(* One step of the clocks, seen from the queue.                             *)
LEMMA QueueStep ==
  ASSUME IInv, IInv', PagesInv, PagesInv', [Next]_vars
  PROVE  \E commit \in {<< >>} \union {<<r>> : r \in Records}, advance \in BOOLEAN :
           /\ advance => r_level >= 2
           /\ Len(Queue \o commit) <= Depth - 1
           /\ Queue' = (IF advance THEN Tail(Queue) ELSE Queue) \o commit
           /\ r_level' \in (IF advance THEN r_level - 1 ELSE r_level) .. Len(Queue')
<1> DEFINE advance == consume_r_bin' # consume_r_bin
           wrote   == produce_w_bin' # produce_w_bin
           gone    == IF advance THEN 1 ELSE 0
           come    == IF wrote THEN 1 ELSE 0
           commit  == IF wrote THEN <<memory'[Page(produce_w_bin)]>> ELSE << >>
           kept    == IF advance THEN Tail(Queue) ELSE Queue
<1>1. /\ level \in Nat /\ r_level \in Nat /\ r_level <= level
      /\ Depth \in Nat /\ consume_r_bin \in Counters /\ produce_w_bin \in Counters
      /\ consume_r_bin' \in Counters /\ produce_w_bin' \in Counters
  BY LevelFromChain, DepthAssumption DEF IInv, TypeOK
<1>2. /\ level' = (level - gone) + come /\ level + come <= Depth - 1
      /\ r_level - gone <= r_level' /\ r_level' <= level'
      /\ r_level' \in Nat /\ level' \in Nat
  BY LevelMove
<1>3. /\ advance => consume_r_bin' = Inc(consume_r_bin) /\ r_level >= 2
      /\ wrote => memory'[Page(produce_w_bin)] \in Records
  BY CountersStep, PagesMove
<1>4. /\ Queue \in Seq(Records) /\ Len(Queue) = level
      /\ \A i \in 1 .. level : Queue[i] = memory[Page(At(consume_r_bin, i - 1))]
  BY QueueType
<1>5. /\ Queue' \in Seq(Records) /\ Len(Queue') = level'
      /\ \A i \in 1 .. level' : Queue'[i] = memory'[Page(At(consume_r_bin', i - 1))]
  <2>1. (/\ Queue \in Seq(Records) /\ Len(Queue) = level
         /\ \A i \in 1 .. level : Queue[i] = memory[Page(At(consume_r_bin, i - 1))])'
    BY QueueType, PTL
  <2>. QED  BY <2>1 DEF Records
<1>6. commit \in {<< >>} \union {<<r>> : r \in Records}
  BY <1>3
<1>7. /\ commit \in Seq(Records) /\ Len(commit) = come
      /\ wrote => commit[1] = memory'[Page(produce_w_bin)]
  BY <1>3
<1>8. /\ kept \in Seq(Records) /\ Len(kept) = level - gone
      /\ \A i \in 1 .. level - gone : kept[i] = Queue[i + gone]
  <2>1. CASE advance
    <3>1. Queue # << >>
      BY <1>1, <1>3, <1>4, <2>1
    <3>. QED  BY <1>1, <1>4, <2>1, <3>1, HeadTailProperties
  <2>2. CASE ~advance
    BY <1>1, <1>4, <2>2
  <2>. QED  BY <2>1, <2>2
<1>9. Len(Queue \o commit) <= Depth - 1
  BY <1>2, <1>4, <1>7, ConcatProperties
<1>10. /\ kept \o commit \in Seq(Records)
       /\ Len(kept \o commit) = level'
       /\ \A i \in 1 .. level' :
            (kept \o commit)[i] = IF i <= level - gone THEN kept[i] ELSE commit[i - (level - gone)]
  <2> HIDE DEF kept, commit
  <2>1. /\ kept \o commit \in Seq(Records)
        /\ Len(kept \o commit) = Len(kept) + Len(commit)
        /\ \A i \in 1 .. Len(kept) + Len(commit) : (kept \o commit)[i] =
              IF i <= Len(kept) THEN kept[i] ELSE commit[i - Len(kept)]
    BY <1>7, <1>8, ConcatProperties
  <2>2. Len(kept) = level - gone /\ Len(kept) + Len(commit) = level'
    BY <1>1, <1>2, <1>7, <1>8
  <2>. QED  BY <2>1, <2>2
<1>11. ASSUME NEW i \in 1 .. level'
       PROVE  Queue'[i] = (kept \o commit)[i]
  <2> DEFINE k == (i - 1) + gone  x == At(consume_r_bin, k)
  <2>1. k \in 0 .. Depth - 1 /\ k <= level /\ i - 1 \in 0 .. Depth - 1
    BY <1>1, <1>2
  <2>2. At(consume_r_bin', i - 1) = x
    BY <1>1, <1>3, <2>1, AtNext
  <2>3. x \in Counters /\ Diff(x, consume_r_bin) = k
    BY <1>1, <2>1, AtProperties
  <2>4. CASE i <= level - gone
    <3>1. Committed(x) /\ k + 1 \in 1 .. level
      BY <1>1, <1>2, <2>1, <2>3, <2>4 DEF Committed
    <3>2. memory'[Page(x)] = memory[Page(x)]
      BY <2>3, <3>1, CommittedNotWritten, PagesMove
    <3>3. Queue[k + 1] = memory[Page(x)]
      BY <1>4, <2>1, <3>1
    <3>4. i + gone = k + 1 /\ i \in 1 .. level - gone
      BY <1>1, <1>2, <2>4
    <3>5. kept[i] = Queue[k + 1]
      BY <1>8, <3>4
    <3>6. Queue'[i] = memory'[Page(x)]
      BY <1>5, <2>2
    <3>7. (kept \o commit)[i] = kept[i]
      <4> HIDE DEF kept, commit
      <4>. QED  BY <1>10, <2>4
    <3> HIDE DEF kept, commit, x
    <3>. QED  BY <3>2, <3>3, <3>5, <3>6, <3>7
  <2>5. CASE ~(i <= level - gone)
    <3>1. wrote /\ i = (level - gone) + 1 /\ k = level
      BY <1>1, <1>2, <2>5
    <3>2. x = produce_w_bin
      BY <1>1, <3>1, AtDiff DEF level
    <3>3. i - (level - gone) = 1
      BY <1>1, <3>1
    <3>4. (kept \o commit)[i] = commit[1]
      <4> HIDE DEF kept, commit
      <4>. QED  BY <1>10, <2>5, <3>3
    <3>5. commit[1] = memory'[Page(produce_w_bin)]
      BY <1>7, <3>1
    <3>6. Queue'[i] = memory'[Page(x)]
      BY <1>5, <2>2
    <3> HIDE DEF kept, commit, x
    <3>. QED  BY <3>2, <3>4, <3>5, <3>6
  <2>. QED  BY <2>4, <2>5
<1>12. Queue' = kept \o commit
  BY <1>5, <1>10, <1>11, SeqEqual
<1>13. r_level' \in (IF advance THEN r_level - 1 ELSE r_level) .. Len(Queue')
  BY <1>1, <1>2, <1>5
<1>. QED  BY <1>3, <1>6, <1>9, <1>12, <1>13

(* The FIFO is a queue of whole records: whatever the clocks do, every step  *)
(* is a commit, an advance, both, or a change of what the reader is shown.   *)
THEOREM ImplementsPageQueueHolds == Spec => ImplementsPageQueue
<1>1. Init => Abstract!Init
  <2> SUFFICES ASSUME Init PROVE Queue = << >> /\ r_level = 0
    BY DEF Abstract!Init, Queue
  <2>1. level = 0 /\ r_level = 0
    BY DiffSelf, DepthAssumption DEF Init, level, r_level, Counters
  <2>. QED  BY <2>1 DEF Queue
<1>2. IInv /\ IInv' /\ PagesInv /\ PagesInv' /\ [Next]_vars
        => [Abstract!Next]_(Abstract!vars)
  <2> SUFFICES ASSUME IInv, IInv', PagesInv, PagesInv', [Next]_vars
               PROVE  Abstract!Next
    OBVIOUS
  <2>1. PICK commit \in {<< >>} \union {<<r>> : r \in Records}, advance \in BOOLEAN :
          /\ advance => r_level >= 2
          /\ Len(Queue \o commit) <= Depth - 1
          /\ Queue' = (IF advance THEN Tail(Queue) ELSE Queue) \o commit
          /\ r_level' \in (IF advance THEN r_level - 1 ELSE r_level) .. Len(Queue')
    BY QueueStep
  <2>2. Abstract!Step(commit, advance)
    BY <2>1 DEF Abstract!Step, Queue
  <2>3. commit \in Abstract!Commits
    BY DEF Abstract!Commits, Records
  <2>. QED  BY <2>2, <2>3 DEF Abstract!Next
<1>. QED  BY <1>1, <1>2, InvHolds, PagesInvHolds, PTL
          DEF Spec, ImplementsPageQueue, Abstract!Spec
=============================================================================

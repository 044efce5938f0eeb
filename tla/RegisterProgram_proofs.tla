----------------------- MODULE RegisterProgram_proofs -----------------------
(***************************************************************************)
(* What the start-up leaves in the chip, for every program that meets the  *)
(* assumptions of RegisterProgram, any registers and any host.             *)
(*                                                                         *)
(* The invariant says how far the registers are made by the program alone: *)
(* once the reset pulse has begun, every register the host has not written *)
(* to is the image of the steps done so far.  Before it nothing is known   *)
(* of them.                                                                *)
(***************************************************************************)
EXTENDS RegisterProgram, TLAPS

(* The registers from the reset pulse on. *)
MadeByProgram ==
  pc >= ResetAt => \A a \in Addresses \ touched : Image(pc - 1, a)

IInv ==
  /\ TypeOK
  /\ touched # {} => InLoop
  /\ reset <=> pc = ResetAt
  /\ MadeByProgram

-----------------------------------------------------------------------------
LEMMA LengthType == Len(Program) \in Nat
  BY ProgramAssumption

(* A step of the program is a step. *)
LEMMA StepType ==
  ASSUME NEW k \in 1..Len(Program)
  PROVE  /\ Program[k].op \in Operations /\ Program[k].at \in Nat
         /\ Writes(Program[k]) => Program[k].at \in Addresses
         /\ \A b \in DOMAIN Program[k].bits : Program[k].bits[b] \in Bit
         /\ DOMAIN Program[k].bits \subseteq 1..8
<1>1. Program[k] \in Step
  BY ProgramAssumption
<1>2. Program[k].bits \in UNION {[S -> Bit] : S \in SUBSET (1..8)}
  BY <1>1 DEF Step
<1>3. PICK S \in SUBSET (1..8) : Program[k].bits \in [S -> Bit]
  BY <1>2
<1> QED
  BY <1>1, <1>3, ProgramAssumption DEF Step

(* What is stored is a byte. *)
LEMMA StoredType ==
  ASSUME NEW bits, \A b \in DOMAIN bits : bits[b] \in Bit, NEW old \in [1..8 -> Bit]
  PROVE  Written(old, bits) \in [1..8 -> Bit] /\ Modified(old, bits) \in [1..8 -> Bit]
<1>1. \A b \in 1..8 : (IF b \in DOMAIN bits THEN bits[b] ELSE 0) \in Bit
  BY DEF Bit
<1>2. \A b \in 1..8 : (IF b \in DOMAIN bits THEN bits[b] ELSE old[b]) \in Bit
  OBVIOUS
<1>3. Written(old, bits) \in [1..8 -> Bit]
  BY <1>1 DEF Written
<1>4. Modified(old, bits) \in [1..8 -> Bit]
  BY <1>2 DEF Modified
<1> QED
  BY <1>3, <1>4

LEMMA TypeInit == Init => TypeOK
<1> SUFFICES ASSUME Init PROVE TypeOK
  OBVIOUS
<1>1. reset \in BOOLEAN /\ outputs \in BOOLEAN
  BY Zenon DEF Init
<1> QED
  BY <1>1, LengthType, AddressesAssumption DEF Init, TypeOK

LEMMA TypeNext == TypeOK /\ [Next]_vars => TypeOK'
<1> SUFFICES ASSUME TypeOK, [Next]_vars PROVE TypeOK'
  OBVIOUS
<1> USE LengthType DEF TypeOK
<1>1. CASE Run
  <2> DEFINE s == Program[pc]
  <2>1. pc \in 1..Len(Program) /\ pc' = pc + 1 /\ touched' = touched
    BY <1>1 DEF Run
  <2>2. /\ Writes(s) => s.at \in Addresses
        /\ \A b \in DOMAIN s.bits : s.bits[b] \in Bit
    BY <2>1, StepType
  <2> HIDE DEF s
  <2>3. CASE Read(s)
    BY <2>1, <2>3 DEF Read
  <2>4. CASE s.op \in {"write", "modify"} /\ (Write(s) \/ Modify(s))
    <3>1. s.at \in Addresses
      BY <2>2, <2>4 DEF Writes
    <3>2. regs[s.at] \in [1..8 -> Bit]
      BY <3>1
    <3>3. Written(regs[s.at], s.bits) \in [1..8 -> Bit]
          /\ Modified(regs[s.at], s.bits) \in [1..8 -> Bit]
      BY <2>2, <3>2, StoredType
    <3> QED
      BY <2>1, <2>4, <3>1, <3>3 DEF Write, Modify, Store
  <2>5. CASE SetOutputs(s)
    <3>1. outputs' \in BOOLEAN
      BY <2>5, Zenon DEF SetOutputs
    <3> QED
      BY <2>1, <2>5, <3>1 DEF SetOutputs
  <2>6. CASE SetReset(s)
    <3>1. reset' \in BOOLEAN /\ outputs' \in BOOLEAN
      BY <2>6, Zenon DEF SetReset
    <3>2. /\ regs' = Defaults \/ regs' = regs
          /\ stale' = StatusAddresses \/ stale' = stale
      BY <2>6, Zenon DEF SetReset
    <3>3. regs' \in [Addresses -> [1..8 -> Bit]] /\ stale' \subseteq StatusAddresses
      BY <3>2, AddressesAssumption
    <3> QED
      BY <2>1, <3>1, <3>3
  <2> QED
    BY <1>1, <2>3, <2>4, <2>5, <2>6 DEF Run, s, Write, Modify
<1>2. CASE HostWrite
  <2>1. PICK a \in Addresses, byte \in HostBytes :
          regs' = [regs EXCEPT ![a] = byte] /\ touched' = touched \cup {a}
    BY <1>2 DEF HostWrite
  <2> QED
    BY <1>2, <2>1, AddressesAssumption DEF HostWrite
<1>3. CASE Restart
  <2>1. reset' \in BOOLEAN /\ outputs' \in BOOLEAN
    BY <1>3, Zenon DEF Restart
  <2> QED
    BY <1>3, <2>1 DEF Restart
<1>4. CASE UNCHANGED vars
  BY <1>4 DEF vars
<1> QED
  BY <1>1, <1>2, <1>3, <1>4 DEF Next

THEOREM TypeCorrect == Spec => []TypeOK
  BY TypeInit, TypeNext, PTL DEF Spec

-----------------------------------------------------------------------------
(* A step that does not store into a register extends its image unchanged. *)
LEMMA ImageKept ==
  ASSUME NEW n \in Nat, NEW a \in Addresses, n + 1 <= Len(Program),
         Image(n, a), ~Writes(Program[n + 1]) \/ Program[n + 1].at # a,
         regs'[a] = regs[a]
  PROVE  Image(n + 1, a)'
<1> SUFFICES ASSUME NEW b \in 1..8
    PROVE  \/ \E k \in 1..(n + 1) : /\ Sets(k, a, b)
                                    /\ \A j \in (k + 1)..(n + 1) : ~Sets(j, a, b)
                                    /\ regs'[a][b] = Given(k, b)
           \/ /\ \A k \in 1..(n + 1) : ~Sets(k, a, b)
              /\ regs'[a][b] = Defaults[a][b]
  BY DEF Image
<1>1. ~Sets(n + 1, a, b)
  BY DEF Sets, Writes
<1>2. CASE \E k \in 1..n : /\ Sets(k, a, b)
                           /\ \A j \in (k + 1)..n : ~Sets(j, a, b)
                           /\ regs[a][b] = Given(k, b)
  <2>1. PICK k \in 1..n : /\ Sets(k, a, b)
                          /\ \A j \in (k + 1)..n : ~Sets(j, a, b)
                          /\ regs[a][b] = Given(k, b)
    BY <1>2
  <2>2. k \in 1..(n + 1) /\ \A j \in (k + 1)..(n + 1) : ~Sets(j, a, b)
    BY <1>1, <2>1
  <2> QED
    BY <2>1, <2>2
<1>3. CASE (\A k \in 1..n : ~Sets(k, a, b)) /\ regs[a][b] = Defaults[a][b]
  <2>1. \A k \in 1..(n + 1) : ~Sets(k, a, b)
    BY <1>1, <1>3
  <2> QED
    BY <1>3, <2>1
<1> QED
  BY <1>2, <1>3 DEF Image

(* A step that stores extends it by the bits it decides. *)
LEMMA ImageStored ==
  ASSUME NEW n \in Nat, NEW a \in Addresses, n + 1 <= Len(Program),
         Image(n, a), Program[n + 1].at = a,
         \/ /\ Program[n + 1].op = "write"
            /\ regs'[a] = Written(regs[a], Program[n + 1].bits)
         \/ /\ Program[n + 1].op = "modify"
            /\ regs'[a] = Modified(regs[a], Program[n + 1].bits)
  PROVE  Image(n + 1, a)'
<1> SUFFICES ASSUME NEW b \in 1..8
    PROVE  \/ \E k \in 1..(n + 1) : /\ Sets(k, a, b)
                                    /\ \A j \in (k + 1)..(n + 1) : ~Sets(j, a, b)
                                    /\ regs'[a][b] = Given(k, b)
           \/ /\ \A k \in 1..(n + 1) : ~Sets(k, a, b)
              /\ regs'[a][b] = Defaults[a][b]
  BY DEF Image
<1>1. CASE Sets(n + 1, a, b)
  <2>1. regs'[a][b] = Given(n + 1, b)
    BY <1>1 DEF Sets, Given, Written, Modified
  <2>2. n + 1 \in 1..(n + 1) /\ \A j \in (n + 2)..(n + 1) : ~Sets(j, a, b)
    OBVIOUS
  <2> QED
    BY <1>1, <2>1, <2>2
<1>2. CASE ~Sets(n + 1, a, b)
  <2>1. regs'[a][b] = regs[a][b]
    BY <1>2 DEF Sets, Written, Modified
  <2>2. CASE \E k \in 1..n : /\ Sets(k, a, b)
                             /\ \A j \in (k + 1)..n : ~Sets(j, a, b)
                             /\ regs[a][b] = Given(k, b)
    <3>1. PICK k \in 1..n : /\ Sets(k, a, b)
                            /\ \A j \in (k + 1)..n : ~Sets(j, a, b)
                            /\ regs[a][b] = Given(k, b)
      BY <2>2
    <3>2. k \in 1..(n + 1) /\ \A j \in (k + 1)..(n + 1) : ~Sets(j, a, b)
      BY <1>2, <3>1
    <3> QED
      BY <2>1, <3>1, <3>2
  <2>3. CASE (\A k \in 1..n : ~Sets(k, a, b)) /\ regs[a][b] = Defaults[a][b]
    <3>1. \A k \in 1..(n + 1) : ~Sets(k, a, b)
      BY <1>2, <2>3
    <3> QED
      BY <2>1, <2>3, <3>1
  <2> QED
    BY <2>2, <2>3 DEF Image
<1> QED
  BY <1>1, <1>2
-----------------------------------------------------------------------------
LEMMA InvInit == Init => IInv
<1> SUFFICES ASSUME Init PROVE IInv
  OBVIOUS
<1>1. pc = 1 /\ ResetAt \in Nat /\ ResetAt > 1 /\ touched = {}
  BY LengthType, ResetAssumption DEF Init
<1>2. ~reset
  BY Zenon DEF Init
<1>3. TypeOK
  BY TypeInit
<1> QED
  BY <1>1, <1>2, <1>3 DEF IInv, MadeByProgram

(* A step of the program. *)
LEMMA RunKeepsInv ==
  ASSUME IInv, Run, TypeOK' PROVE IInv'
<1> DEFINE s == Program[pc]
<1> USE LengthType DEF IInv
<1>1. /\ pc \in 1..Len(Program) /\ pc' = pc + 1 /\ touched' = touched /\ touched = {}
      /\ ResetAt \in 2..Len(Program)
  BY ResetAssumption DEF Run, TypeOK, InLoop
<1>2. /\ s.op = "reset_on" <=> pc = ResetAt - 1
      /\ s.op = "reset_off" <=> pc = ResetAt
      /\ Writes(s) => pc > ResetAt
  BY <1>1, ResetAssumption
<1>3. Writes(s) => s.at \in Addresses
  BY <1>1, ProgramAssumption
<1> HIDE DEF s
<1>4. Read(s) \/ Write(s) \/ Modify(s) \/ SetOutputs(s) \/ SetReset(s)
  BY DEF Run, s
<1>5. reset' <=> pc' = ResetAt
  <2>1. CASE pc = ResetAt - 1
    <3>1. reset' = TRUE
      BY <1>2, <1>4, <2>1 DEF Read, Write, Modify, SetOutputs, SetReset
    <3> QED
      BY <1>1, <2>1, <3>1
  <2>2. CASE pc = ResetAt
    <3>1. reset' = FALSE
      BY <1>2, <1>4, <2>2 DEF Read, Write, Modify, SetOutputs, SetReset
    <3> QED
      BY <1>1, <2>2, <3>1
  <2>3. CASE pc # ResetAt - 1 /\ pc # ResetAt
    <3>1. reset' = reset
      BY <1>2, <1>4, <2>3 DEF Read, Write, Modify, SetOutputs, SetReset, Store
    <3>2. reset = FALSE
      BY <2>3 DEF TypeOK
    <3> QED
      BY <1>1, <2>3, <3>1, <3>2
  <2> QED
    BY <2>1, <2>2, <2>3
<1>6. MadeByProgram'
  <2>0. PICK n \in 1..Len(Program) : n = pc
    BY <1>1
  <2> SUFFICES ASSUME pc + 1 >= ResetAt, NEW a \in Addresses
      PROVE  Image(n, a)'
    <3>1. pc' - 1 = n /\ touched' = {}
      BY <1>1, <2>0
    <3>2. \A a \in Addresses : Image(pc - 1, a)' <=> Image(n, a)'
      BY <3>1 DEF Image
    <3>3. pc' >= ResetAt => \A a \in Addresses : Image(pc - 1, a)'
      BY <1>1, <3>2
    <3> QED
      BY <3>1, <3>3 DEF MadeByProgram
  <2>1. CASE pc = ResetAt - 1
    <3>1. regs' = Defaults
      BY <1>2, <1>4, <2>1 DEF Read, Write, Modify, SetOutputs, SetReset
    <3>2. \A k \in 1..n, b \in 1..8 : ~Sets(k, a, b)
      BY <1>1, <2>0, <2>1, ResetAssumption DEF Sets, Writes
    <3> QED
      BY <3>1, <3>2 DEF Image
  <2>2. CASE pc >= ResetAt
    <3>1. Image(n - 1, a) /\ n - 1 \in Nat /\ (n - 1) + 1 = n
      BY <1>1, <2>0, <2>2 DEF MadeByProgram
    <3>2. CASE ~Writes(s) \/ s.at # a
      <4>1. regs'[a] = regs[a]
        <5>1. CASE ~Writes(s)
          <6>1. regs' = regs
            <7>1. ~Write(s) /\ ~Modify(s) /\ s.op # "reset_on"
              BY <1>1, <1>2, <2>2, <5>1 DEF Writes, Write, Modify
            <7> QED
              BY <1>4, <7>1 DEF Read, SetOutputs, SetReset
          <6> QED
            BY <6>1
        <5>2. CASE Writes(s) /\ s.at # a
          BY <1>3, <1>4, <5>2 DEF TypeOK, Writes, Read, Write, Modify, SetOutputs, SetReset, Store
        <5> QED
          BY <3>2, <5>1, <5>2
      <4> QED
        <5>1. n - 1 + 1 <= Len(Program) /\ Program[n - 1 + 1] = s
          BY <2>0, <3>1 DEF s
        <5>2. Image(n - 1 + 1, a)'
          BY <3>1, <3>2, <4>1, <5>1, ImageKept
        <5> QED
          BY <3>1, <5>2
    <3>3. CASE Writes(s) /\ s.at = a
      <4>1. reset = FALSE
        BY <1>2, <3>3 DEF TypeOK
      <4>2. \/ s.op = "write" /\ regs'[a] = Written(regs[a], s.bits)
            \/ s.op = "modify" /\ regs'[a] = Modified(regs[a], s.bits)
        BY <1>4, <3>3, <4>1 DEF TypeOK, Writes, Read, Write, Modify, SetOutputs, SetReset, Store
      <4> QED
        <5>1. n - 1 + 1 <= Len(Program) /\ Program[n - 1 + 1] = s
          BY <2>0, <3>1 DEF s
        <5>2. Image(n - 1 + 1, a)'
          BY <3>1, <3>3, <4>2, <5>1, ImageStored
        <5> QED
          BY <3>1, <5>2
    <3> QED
      BY <3>2, <3>3
  <2> QED
    BY <1>1, <2>1, <2>2, ResetAssumption
<1> QED
  BY <1>1, <1>5, <1>6

(* A host's write: the loop has begun, and its register is left out. *)
LEMMA HostKeepsInv ==
  ASSUME IInv, HostWrite, TypeOK' PROVE IInv'
<1>1. PICK a \in Addresses, byte \in HostBytes :
        regs' = [regs EXCEPT ![a] = byte] /\ touched' = touched \cup {a}
  BY DEF HostWrite
<1>2. pc' = pc /\ reset' = reset /\ InLoop
  BY DEF HostWrite
<1>3. \A x \in Addresses \ touched' : x \notin touched /\ regs'[x] = regs[x]
  BY <1>1 DEF IInv, TypeOK
<1>4. MadeByProgram'
  BY <1>2, <1>3 DEF IInv, MadeByProgram, Image
<1> QED
  BY <1>2, <1>4 DEF IInv, InLoop

LEMMA InvNext == IInv /\ [Next]_vars /\ TypeOK' => IInv'
<1> SUFFICES ASSUME IInv, [Next]_vars, TypeOK' PROVE IInv'
  OBVIOUS
<1>1. CASE Run
  BY <1>1, RunKeepsInv
<1>2. CASE HostWrite
  BY <1>2, HostKeepsInv
<1>3. CASE Restart
  <2>1. pc' = 1 /\ touched' = {} /\ ResetAt \in Nat /\ ResetAt > 1
    BY <1>3, LengthType, ResetAssumption DEF Restart
  <2>2. ~reset'
    BY <1>3, Zenon DEF Restart
  <2> QED
    BY <2>1, <2>2 DEF IInv, MadeByProgram
<1>4. CASE UNCHANGED vars
  BY <1>4 DEF vars, IInv, MadeByProgram, Image, InLoop
<1> QED
  BY <1>1, <1>2, <1>3, <1>4 DEF Next

THEOREM InvCorrect == Spec => []IInv
  BY TypeCorrect, InvInit, InvNext, PTL DEF Spec

(* Every start is alike (RegisterProgram): in the loop every register the   *)
(* host has not written to is what the program makes of a chip after reset. *)
THEOREM StartsAlike == Spec => []EveryStartIsAlike
<1>1. IInv => EveryStartIsAlike
  <2> SUFFICES ASSUME IInv, InLoop, NEW a \in Addresses \ touched
      PROVE  Image(Len(Program), a)
    BY DEF EveryStartIsAlike
  <2>1. pc >= ResetAt /\ pc - 1 = Len(Program)
    BY LengthType, ResetAssumption DEF InLoop
  <2>2. Image(pc - 1, a)
    BY <2>1 DEF IInv, MadeByProgram
  <2> QED
    BY <2>1, <2>2
<1> QED
  BY <1>1, InvCorrect, PTL

(* What is set by name stays set (RegisterProgram): the last step that      *)
(* decides a bit a step named either names it too, or is that step, for a   *)
(* write that comes later names all of its bits.                            *)
THEOREM FieldsStay == Spec => []FieldsStick
<1>1. IInv => FieldsStick
  <2> SUFFICES ASSUME IInv, NEW j \in 1..(pc - 1),
                      Writes(Program[j]), Program[j].at \notin touched,
                      NEW b \in DOMAIN Program[j].bits
      PROVE  \/ regs[Program[j].at][b] = Program[j].bits[b]
             \/ \E k \in (j + 1)..(pc - 1) :
                  /\ Writes(Program[k]) /\ Program[k].at = Program[j].at
                  /\ b \in DOMAIN Program[k].bits
    BY DEF FieldsStick
  <2> DEFINE a == Program[j].at
  <2>1. pc - 1 \in 0..Len(Program) /\ j \in 1..Len(Program)
    BY LengthType DEF IInv, TypeOK
  <2>2. a \in Addresses \ touched /\ b \in 1..8
    BY <2>1, StepType
  <2>10. pc >= ResetAt
    <3>1. j > ResetAt /\ ResetAt \in Nat
      BY <2>1, LengthType, ResetAssumption
    <3>2. pc \in Nat
      BY LengthType DEF IInv, TypeOK
    <3> QED
      BY <3>1, <3>2
  <2>3. Image(pc - 1, a)
    BY <2>2, <2>10 DEF IInv, MadeByProgram
  <2>4. Sets(j, a, b)
    BY DEF Sets, Writes
  <2>5. PICK k \in 1..(pc - 1) : /\ Sets(k, a, b)
                                 /\ \A i \in (k + 1)..(pc - 1) : ~Sets(i, a, b)
                                 /\ regs[a][b] = Given(k, b)
    BY <2>2, <2>3, <2>4 DEF Image
  <2>6. k >= j
    BY <2>1, <2>4, <2>5
  <2>7. Writes(Program[k]) /\ Program[k].at = a
    BY <2>5 DEF Sets, Writes
  <2>8. CASE k = j
    BY <2>5, <2>8 DEF Given
  <2>9. CASE k > j
    <3>1. b \in DOMAIN Program[k].bits
      <4>1. CASE Program[k].op = "modify"
        BY <2>5, <4>1 DEF Sets
      <4>2. CASE Program[k].op = "write"
        BY <2>1, <2>7, <2>9, <4>2, WritesComeFirst
      <4> QED
        BY <2>7, <4>1, <4>2 DEF Writes
    <3> QED
      BY <2>7, <2>9, <3>1
  <2> QED
    BY <2>6, <2>8, <2>9
<1> QED
  BY <1>1, InvCorrect, PTL

-----------------------------------------------------------------------------
(* The accesses that leave no image: an output that is on was turned on in  *)
(* this life of the SoC, and a status register that was read after the      *)
(* reset has nothing from before.                                           *)
OutputsFollow == outputs => \E k \in 1..(pc - 1) : Program[k].op = "outputs_on"
ReadsClear ==
  \A k \in (ResetAt + 1)..(pc - 1) : Program[k].op = "read" => Program[k].at \notin stale
AccessInv == OutputsFollow /\ ReadsClear

LEMMA AccessInit == Init => AccessInv
<1> SUFFICES ASSUME Init PROVE AccessInv
  OBVIOUS
<1>1. ~outputs
  BY Zenon DEF Init
<1>2. pc = 1 /\ ResetAt \in Nat
  BY LengthType, ResetAssumption DEF Init
<1> QED
  BY <1>1, <1>2 DEF AccessInv, OutputsFollow, ReadsClear

LEMMA RunKeepsAccess ==
  ASSUME IInv, AccessInv, Run PROVE AccessInv'
<1> DEFINE s == Program[pc]
<1>1. pc \in 1..Len(Program) /\ pc' = pc + 1 /\ ResetAt \in 2..Len(Program)
  BY LengthType, ResetAssumption DEF IInv, TypeOK, Run
<1>2. /\ s.op = "reset_on" <=> pc = ResetAt - 1
      /\ s.op = "reset_off" <=> pc = ResetAt
  BY <1>1, ResetAssumption
<1>3. reset <=> pc = ResetAt
  BY DEF IInv
<1> HIDE DEF s
<1>4. Read(s) \/ Write(s) \/ Modify(s) \/ SetOutputs(s) \/ SetReset(s)
  BY DEF Run, s
<1>5. OutputsFollow'
  <2>1. outputs' => outputs \/ s.op = "outputs_on"
    BY <1>4, Zenon DEF Read, Write, Modify, Store, SetOutputs, SetReset
  <2>2. CASE outputs /\ outputs'
    BY <1>1, <2>2, LengthType DEF AccessInv, OutputsFollow
  <2>3. CASE s.op = "outputs_on"
    BY <1>1, <2>3, LengthType DEF OutputsFollow, s
  <2> QED
    BY <2>1, <2>2, <2>3 DEF OutputsFollow
<1>6. ReadsClear'
  <2> SUFFICES ASSUME NEW k \in (ResetAt + 1)..pc, Program[k].op = "read"
      PROVE  Program[k].at \notin stale'
    BY <1>1, LengthType DEF ReadsClear
  <2>1. pc > ResetAt /\ pc \in Nat /\ ResetAt \in Nat
    BY <1>1, LengthType
  <2>2. stale' = stale \/ stale' = stale \ {s.at}
    <3>1. s.op # "reset_off"
      BY <1>2, <2>1
    <3> QED
      BY <1>4, <3>1, Zenon DEF Read, Write, Modify, Store, SetOutputs, SetReset
  <2>3. CASE k = pc
    <3>1. stale' = stale \ {s.at}
      BY <1>3, <1>4, <2>1, <2>3 DEF Read, Write, Modify, SetOutputs, SetReset, s
    <3> QED
      BY <2>3, <3>1 DEF s
  <2>4. CASE k # pc
    <3>1. k \in (ResetAt + 1)..(pc - 1)
      BY <2>1, <2>4
    <3> QED
      BY <2>2, <3>1 DEF AccessInv, ReadsClear
  <2> QED
    BY <2>3, <2>4
<1> QED
  BY <1>5, <1>6 DEF AccessInv

LEMMA AccessNext == IInv /\ AccessInv /\ [Next]_vars => AccessInv'
<1> SUFFICES ASSUME IInv, AccessInv, [Next]_vars PROVE AccessInv'
  OBVIOUS
<1>1. CASE Run
  BY <1>1, RunKeepsAccess
<1>2. CASE HostWrite
  BY <1>2 DEF HostWrite, AccessInv, OutputsFollow, ReadsClear
<1>3. CASE Restart
  <2>1. ~outputs'
    BY <1>3, Zenon DEF Restart
  <2>2. pc' = 1 /\ ResetAt \in Nat
    BY <1>3, LengthType, ResetAssumption DEF Restart
  <2> QED
    BY <2>1, <2>2 DEF AccessInv, OutputsFollow, ReadsClear
<1>4. CASE UNCHANGED vars
  BY <1>4 DEF vars, AccessInv, OutputsFollow, ReadsClear
<1> QED
  BY <1>1, <1>2, <1>3, <1>4 DEF Next

THEOREM AccessesCorrect == Spec => []AccessInv
  BY InvCorrect, AccessInit, AccessNext, PTL DEF Spec
=============================================================================

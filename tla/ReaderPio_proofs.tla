-------------------------- MODULE ReaderPio_proofs --------------------------
(***************************************************************************)
(* Proofs about ReaderPio for any gain codes, any FIFO depth, any number   *)
(* of bits and any width of the registers that holds them: its counters    *)
(* agree, and each of its steps is one of ReaderSm or none.                *)
(***************************************************************************)
EXTENDS ReaderPio, SequenceFacts, TLAPS

USE PioAssumption

-----------------------------------------------------------------------------
(* Registers and the chip. *)

\* `jmp y--` wraps at zero.
LEMMA DownFacts ==
  ASSUME NEW n \in 0..(WordMod - 1)
  PROVE  (n - 1) % WordMod = IF n = 0 THEN WordMod - 1 ELSE n - 1
  OBVIOUS

\* The program's pulses for its gain codes.
LEMMA CountFacts ==
  /\ \A g \in Gains : g \in Nat /\ GainPulses(g) \in PulseCounts
  /\ \A p \in PulseCounts : p \in Nat
  BY DEF PulseCounts, GainPulses

ChipSet == [on : BOOLEAN, gain : PulseCounts, pulses : 0..MaxPulses,
            frame : {"converting", "ready", "clocked", "torn"}]

\* The first time the pin is set high begins the frame, or tears it.
LEMMA FirstEdgeFacts ==
  ASSUME chip \in ChipSet, PulsesBegin, chip.frame # "converting",
         NEW e, e = SetHighFirst
  PROVE  /\ e \in ChipSet /\ e.on = chip.on /\ e.gain = chip.gain
         /\ e.frame \in {"clocked", "torn"} /\ (e.frame = "clocked" <=> e.pulses = 1)
         /\ chip.frame = "ready" => (e.frame = "clocked" <=> ~clk)
         /\ chip.frame = "clocked" /\ ~clk => e.frame = "torn"
<1>1. MaxPulses \in Nat /\ MaxPulses > 2 /\ chip.pulses \in 0..MaxPulses
  BY DEF MaxPulses, ChipSet
<1>2. PICK p : p = PulsesNow
  OBVIOUS
<1>3. /\ p \in 0..MaxPulses
      /\ clk => p = chip.pulses
      /\ ~clk => p = chip.pulses + 1 \/ (p = chip.pulses /\ p = MaxPulses)
  BY <1>1, <1>2 DEF PulsesNow
<1>4. PICK f \in {"clocked", "torn"} : f = IF p = 1 THEN "clocked" ELSE "torn"
  OBVIOUS
<1>5. e = [chip EXCEPT !.pulses = p, !.frame = f]
  BY <1>2, <1>4 DEF SetHighFirst
<1>6. /\ e \in ChipSet /\ e.on = chip.on /\ e.gain = chip.gain
      /\ e.frame = f /\ e.pulses = p
  BY <1>3, <1>5 DEF ChipSet
<1> QED
  BY <1>1, <1>3, <1>4, <1>6 DEF PulsesBegin

\* A later one counts, of which it is known that the pin was low and that the
\* pulses are not too many.
LEMMA LaterEdge ==
  ASSUME chip \in ChipSet, chip.frame = "clocked" => chip.pulses < MaxPulses, ~clk,
         NEW e, e = SetHigh
  PROVE  /\ e \in ChipSet /\ e.on = chip.on /\ e.gain = chip.gain
         /\ e.frame = chip.frame
         /\ chip.frame = "clocked" => e.pulses = chip.pulses + 1
<1>1. CASE chip.frame = "converting"
  BY <1>1 DEF SetHigh
<1>2. CASE chip.frame # "converting"
  <2>1. MaxPulses \in Nat /\ chip.pulses \in 0..MaxPulses
    BY DEF MaxPulses, ChipSet
  <2>2. PICK p \in 0..MaxPulses : p = PulsesNow
    BY <2>1 DEF PulsesNow
  <2>3. chip.frame = "clocked" => p = chip.pulses + 1
    BY <2>1, <2>2 DEF PulsesNow
  <2>4. e = [chip EXCEPT !.pulses = p]
    BY <1>2, <2>2 DEF SetHigh
  <2> QED
    BY <2>3, <2>4 DEF ChipSet
<1> QED
  BY <1>1, <1>2

\* A frame that ends leaves the chip converting, with the gain its pulses ask for.
LEMMA EndFacts ==
  ASSUME chip \in ChipSet, chip.frame # "ready", NEW g \in PulseCounts,
         chip.pulses - Bits = g \/ chip.frame # "clocked",
         NEW e \in FrameEnds
  PROVE  /\ e \in ChipSet /\ e.on = chip.on /\ e.frame = "converting"
         /\ chip.frame = "clocked" => e.gain = g
         /\ chip.frame = "converting" => e = chip
<1>1. 0 \in 0..MaxPulses
  BY DEF MaxPulses
<1>2. CASE chip.frame = "converting"
  BY <1>2 DEF FrameEnds
<1>3. CASE chip.frame = "torn"
  BY <1>1, <1>3 DEF FrameEnds, ChipSet
<1>4. CASE chip.frame = "clocked"
  <2>1. e = [chip EXCEPT !.frame = "converting", !.gain = chip.pulses - Bits, !.pulses = 0]
    BY <1>4 DEF FrameEnds
  <2>2. chip.pulses - Bits = g
    BY <1>4
  <2> QED
    BY <1>1, <1>4, <2>1, <2>2 DEF ChipSet
<1> QED
  BY <1>2, <1>3, <1>4 DEF ChipSet

\* A chip that slept wakes converting.
LEMMA WokenFacts ==
  ASSUME chip \in ChipSet, NEW e \in Woken(chip)
  PROVE  /\ e \in ChipSet /\ e.on
         /\ chip.on => e = chip
         /\ ~chip.on => e.frame = "converting" /\ e.gain \in {chip.gain, GainPulses(DefaultGain)}
<1>1. 0 \in 0..MaxPulses
  BY DEF MaxPulses
<1>2. CASE chip.on
  BY <1>2 DEF Woken
<1>3. CASE ~chip.on
  <2>1. PICK g \in {chip.gain, GainPulses(DefaultGain)} :
          e = [on |-> TRUE, gain |-> g, frame |-> "converting", pulses |-> 0]
    BY <1>3 DEF Woken
  <2>2. g \in PulseCounts
    BY CountFacts DEF ChipSet
  <2> QED
    BY <1>1, <1>3, <2>1, <2>2 DEF ChipSet
<1> QED
  BY <1>2, <1>3

-----------------------------------------------------------------------------
(* The invariant. *)

ShiftWord == [gain : PulseCounts, whole : BOOLEAN]

\* PioTypeOK, variable by variable.
LEMMA TypeParts ==
  /\ PioTypeOK <=>
       /\ running \in BOOLEAN /\ pc \in 0..13
       /\ x \in Gains /\ osr \in Gains /\ y \in 0..(WordMod - 1)
       /\ isr \in Seq(0..Bits) /\ Len(isr) < Bits
       /\ tx \in Seq(Gains) /\ Len(tx) <= 1
       /\ rx \in Seq(ShiftWord) /\ Len(rx) <= Depth
       /\ clk \in BOOLEAN /\ chip \in ChipSet
  /\ PioTypeOK' <=>
       /\ running' \in BOOLEAN /\ pc' \in 0..13
       /\ x' \in Gains /\ osr' \in Gains /\ y' \in 0..(WordMod - 1)
       /\ isr' \in Seq(0..Bits) /\ Len(isr') < Bits
       /\ tx' \in Seq(Gains) /\ Len(tx') <= 1
       /\ rx' \in Seq(ShiftWord) /\ Len(rx') <= Depth
       /\ clk' \in BOOLEAN /\ chip' \in ChipSet
  BY DEF PioTypeOK, ShiftWord, ChipSet

\* The registers are small numbers, and a frame has no more pulses than are counted.
LEMMA ScratchFacts ==
  ASSUME PioTypeOK
  PROVE  /\ x \in Gains /\ osr \in Gains /\ x \in 0..(WordMod - 1) /\ y \in 0..(WordMod - 1)
         /\ chip \in ChipSet /\ chip.pulses \in Nat /\ chip.gain \in PulseCounts
         /\ chip.on \in BOOLEAN
         /\ chip.frame \in {"converting", "ready", "clocked", "torn"}
         /\ isr \in Seq(0..Bits) /\ Len(isr) \in Nat /\ Len(isr) < Bits
         /\ isr = <<>> <=> Len(isr) = 0
<1>1. /\ x \in Gains /\ osr \in Gains /\ y \in 0..(WordMod - 1) /\ chip \in ChipSet
      /\ isr \in Seq(0..Bits) /\ Len(isr) < Bits
  BY TypeParts
<1>2. x \in 0..(WordMod - 1)
  BY <1>1
<1>3. /\ chip.pulses \in Nat /\ chip.gain \in PulseCounts /\ chip.on \in BOOLEAN
      /\ chip.frame \in {"converting", "ready", "clocked", "torn"}
  BY <1>1 DEF ChipSet
<1>4. Len(isr) \in Nat /\ (isr = <<>> <=> Len(isr) = 0)
  BY <1>1, EmptyFacts
<1> QED
  BY <1>1, <1>2, <1>3, <1>4

\* Before any step.
LEMMA InitInv == Init => PioInv
<1> SUFFICES ASSUME Init PROVE PioInv
  OBVIOUS
<1>1. chip \in ChipSet /\ chip.on /\ PulsesBegin
  <2>1. 0 \in 0..MaxPulses /\ \A p \in 1..(Bits - 1) : p \in 0..MaxPulses
    BY DEF MaxPulses
  <2> QED
    <3>1. CASE chip \in {[on |-> TRUE, gain |-> g, pulses |-> 0, frame |-> f]
                           : g \in PulseCounts, f \in {"converting", "ready"}}
      <4>1. PICK g \in PulseCounts, f \in {"converting", "ready"} :
              chip = [on |-> TRUE, gain |-> g, pulses |-> 0, frame |-> f]
        BY <3>1
      <4> QED
        BY <2>1, <4>1 DEF ChipSet, PulsesBegin
    <3>2. CASE chip \in {[on |-> TRUE, gain |-> g, pulses |-> p, frame |-> "clocked"]
                           : g \in PulseCounts, p \in 1..(Bits - 1)}
      <4>1. PICK g \in PulseCounts, p \in 1..(Bits - 1) :
              chip = [on |-> TRUE, gain |-> g, pulses |-> p, frame |-> "clocked"]
        BY <3>2
      <4>2. p \in 0..MaxPulses /\ p >= 1
        BY <2>1
      <4> QED
        BY <4>1, <4>2 DEF ChipSet, PulsesBegin
    <3> QED
      BY <3>1, <3>2 DEF Init
<1>2. PioTypeOK
  <2>1. <<>> \in Seq(0..Bits) /\ <<>> \in Seq(Gains) /\ <<>> \in Seq(ShiftWord) /\ Len(<<>>) = 0
    BY EmptyFacts
  <2>2. 0 \in 0..13 /\ 0 \in 0..(WordMod - 1)
    OBVIOUS
  <2>3. /\ isr = <<>> /\ tx = <<>> /\ rx = <<>> /\ pc = 0 /\ y = 0 /\ running = FALSE
        /\ clk = FALSE /\ x \in Gains /\ osr \in Gains
    BY DEF Init
  <2>4. /\ isr \in Seq(0..Bits) /\ Len(isr) < Bits /\ tx \in Seq(Gains) /\ Len(tx) <= 1
        /\ rx \in Seq(ShiftWord) /\ Len(rx) <= Depth
    BY <2>1, <2>3
  <2> QED
    BY <1>1, <2>2, <2>3, <2>4, TypeParts
<1> QED
  BY <1>1, <1>2 DEF Init, PioInv, CountersAgree, SleepsHigh

\* What `pull noblock` leaves in the OSR and the FIFO.
LEMMA PullFacts ==
  ASSUME PioTypeOK, NEW side \in BOOLEAN, PullNoblock(side)
  PROVE  /\ osr' \in Gains /\ tx' \in Seq(Gains) /\ Len(tx') <= 1
         /\ osr' = (IF tx = <<>> THEN x ELSE Head(tx))
         /\ tx' = (IF tx = <<>> THEN tx ELSE Tail(tx))
         /\ pc' = pc + 1 /\ clk' = side /\ UNCHANGED <<running, x, y, isr, rx>>
<1> USE DEF PioTypeOK, PullNoblock
<1>1. CASE tx = <<>>
  BY <1>1
<1>2. CASE tx # <<>>
  BY <1>2, TailFacts
<1> QED
  BY <1>1, <1>2

\* The instructions that leave the chip and the shift register alone.
LEMMA PlainInv ==
  ASSUME PioInv, SetX \/ PullBoot \/ OutX \/ SetY \/ WaitLow \/ MovYX
  PROVE  PioInv'
<1>0. x \in Gains /\ osr \in Gains /\ x \in 0..(WordMod - 1) /\ y \in 0..(WordMod - 1)
  BY ScratchFacts DEF PioInv
<1>1. /\ PioTypeOK /\ running /\ isr = <<>>
      /\ pc \in {0, 1, 2, 3, 4, 9, 11}
      /\ FrameFits /\ ClockLow /\ PulsesCounted /\ BitsPlaced /\ GainLoops
      /\ CountersAgree /\ SleepsHigh /\ PulsesBegin
  BY DEF PioInv, CountersAgree, SetX, PullBoot, OutX, SetY, WaitLow, MovYX, At
<1>2. UNCHANGED <<running, isr, rx, chip>> /\ pc' = pc + 1
  BY DEF SetX, PullBoot, PullNoblock, OutX, SetY, WaitLow, MovYX, At
<1>3. clk' = clk
  BY DEF SetX, PullBoot, PullNoblock, OutX, SetY, WaitLow, MovYX
<1>4. PioTypeOK'
  <2>1. CASE PullBoot
    BY <1>1, <1>2, <2>1, PullFacts DEF PullBoot, PioTypeOK
  <2>2. CASE SetX \/ OutX \/ SetY \/ WaitLow \/ MovYX
    <3>1. x' \in Gains /\ osr' \in Gains /\ UNCHANGED <<tx, clk>>
      BY <1>0, <2>2 DEF SetX, OutX, SetY, WaitLow, MovYX
    <3>2. y' \in 0..(WordMod - 1)
      BY <1>0, <2>2 DEF SetX, OutX, SetY, WaitLow, MovYX
    <3> QED
      BY <1>1, <1>2, <3>1, <3>2 DEF PioTypeOK
  <2> QED
    BY <2>1, <2>2
<1>5. /\ pc' = 1 => x' = DefaultGain
      /\ pc' = 4 => y' = Bits - 1
      /\ pc' = 5 => chip.on /\ chip.frame # "converting" /\ y' = Bits - 1
      /\ pc' = 12 => x # 0 /\ x' = x /\ y' = x
  BY <1>1, <1>2 DEF SetX, PullBoot, PullNoblock, OutX, SetY, WaitLow, MovYX, At,
     GainLoops, FrameFits
<1>6. CountersAgree'
  BY <1>1, <1>2, <1>5, EmptyFacts DEF CountersAgree
<1>7. SleepsHigh' /\ PulsesBegin' /\ BitsPlaced' /\ GainLoops'
  <2>1. pc' \in {1, 2, 3, 4, 5, 10, 12} /\ (~chip.on => pc \in 0..3)
    BY <1>1, <1>2, <1>5 DEF SleepsHigh, WaitLow
  <2>2. SleepsHigh' /\ PulsesBegin'
    BY <1>1, <1>2, <1>3, <2>1 DEF SleepsHigh, PulsesBegin
  <2>3. BitsPlaced'
    BY <1>1, <1>2, <2>1, EmptyFacts DEF BitsPlaced, AmongBits
  <2>4. GainLoops'
    BY <1>0, <1>5, <2>1 DEF GainLoops
  <2> QED
    BY <2>2, <2>3, <2>4
<1>8. FrameFits' /\ PulsesCounted' /\ ClockLow'
  BY <1>1, <1>2, <1>3, <1>5, EmptyFacts DEF FrameFits, BeforeBits, AmongBits, AfterBits,
     PulsesCounted, PioTypeOK, ClockLow
<1> QED
  BY <1>4, <1>6, <1>7, <1>8 DEF PioInv

\* A later edge of a frame finds room for its pulse.
LEMMA PulseRoom ==
  ASSUME PioInv, SetPins \/ PullGain, ~BeforeBits
  PROVE  /\ chip \in ChipSet /\ chip.frame # "ready" /\ ~clk
         /\ chip.frame = "clocked" => chip.pulses < MaxPulses
<1>1. /\ PioTypeOK /\ running /\ pc \in {5, 8, 12}
      /\ FrameFits /\ ClockLow /\ PulsesCounted /\ CountersAgree
  BY DEF PioInv, SetPins, PullGain, At
<1>2. /\ x \in 0..(WordMod - 1) /\ y \in 0..(WordMod - 1) /\ chip.pulses \in Nat
      /\ chip \in ChipSet /\ Len(isr) \in Nat /\ Len(isr) < Bits
  BY <1>1, ScratchFacts
<1>3. chip.frame # "ready" /\ (pc = 5 => isr # <<>>)
  BY <1>1 DEF FrameFits, BeforeBits, AmongBits, AfterBits
<1> QED
  BY <1>1, <1>2, <1>3 DEF PulsesCounted, MaxPulses, ClockLow

\* A rising edge is counted by the chip and the program alike.
LEMMA SetPinsInv ==
  ASSUME PioInv, SetPins
  PROVE  PioInv'
<1>1. /\ PioTypeOK /\ running /\ pc \in {5, 12}
      /\ FrameFits /\ PulsesCounted /\ BitsPlaced /\ GainLoops /\ CountersAgree
      /\ SleepsHigh /\ PulsesBegin
  BY DEF PioInv, SetPins, At
<1>2. /\ UNCHANGED <<running, x, y, osr, isr, tx, rx>> /\ clk' = TRUE /\ pc' = pc + 1
      /\ pc' \in {6, 13}
  BY <1>1 DEF SetPins
<1>3. /\ x \in Gains /\ x \in 0..(WordMod - 1) /\ y \in 0..(WordMod - 1)
      /\ chip \in ChipSet /\ chip.pulses \in Nat
      /\ Len(isr) \in Nat /\ Len(isr) < Bits /\ (isr = <<>> <=> Len(isr) = 0)
  BY <1>1, ScratchFacts
<1>4. MaxPulses = Bits + 2 + WordMod
  BY DEF MaxPulses
<1>5. CASE pc = 5 /\ isr = <<>>
  <2>1. chip' = SetHighFirst
    BY <1>5 DEF SetPins
  <2>2. chip.on /\ chip.frame # "converting" /\ y = Bits - 1 /\ pc' = 6
    BY <1>1, <1>2, <1>3, <1>5 DEF FrameFits, BeforeBits, CountersAgree
  <2>3. /\ chip' \in ChipSet /\ chip'.on = chip.on /\ chip'.frame \in {"clocked", "torn"}
        /\ chip'.frame = "clocked" <=> chip'.pulses = 1
    BY <1>1, <1>3, <2>1, <2>2, FirstEdgeFacts
  <2>5. PioTypeOK' /\ CountersAgree'
    BY <1>1, <1>2, <1>3, <1>5, <2>2, <2>3 DEF PioTypeOK, CountersAgree, ChipSet
  <2>6. SleepsHigh' /\ PulsesBegin' /\ GainLoops'
    <3>1. SleepsHigh'
      BY <2>2, <2>3 DEF SleepsHigh
    <3>2. PulsesBegin'
      BY <2>3 DEF PulsesBegin
    <3>3. GainLoops'
      BY <2>2 DEF GainLoops
    <3> QED
      BY <3>1, <3>2, <3>3
  <2>7. FrameFits' /\ PulsesCounted' /\ ClockLow'
    BY <1>2, <1>3, <1>5, <2>2, <2>3 DEF FrameFits, BeforeBits, AmongBits, AfterBits,
       PulsesCounted, ClockLow
  <2>8. BitsPlaced'
    BY <1>2, <1>3, <1>5, <2>3, EmptyFacts DEF BitsPlaced
  <2> QED
    BY <2>5, <2>6, <2>7, <2>8 DEF PioInv
<1>6. CASE ~(pc = 5 /\ isr = <<>>)
  <2>1. chip' = SetHigh
    BY <1>6 DEF SetPins
  <2>2. /\ chip.on /\ chip.frame # "ready"
        /\ pc = 5 => chip.frame # "converting"
        /\ pc = 12 => isr = <<>> /\ x # 0 /\ y <= x
    BY <1>1, <1>6 DEF FrameFits, AmongBits, AfterBits, SleepsHigh, CountersAgree, GainLoops
  <2>3. ~clk /\ (chip.frame = "clocked" => chip.pulses < MaxPulses)
    BY <1>6, PulseRoom DEF BeforeBits
  <2>4. /\ chip' \in ChipSet /\ chip'.on = chip.on /\ chip'.frame = chip.frame
        /\ chip'.pulses \in Nat
        /\ chip.frame = "clocked" => chip'.pulses = chip.pulses + 1
    <3>1. /\ chip' \in ChipSet /\ chip'.on = chip.on /\ chip'.frame = chip.frame
          /\ chip.frame = "clocked" => chip'.pulses = chip.pulses + 1
      BY <1>3, <2>1, <2>3, LaterEdge
    <3>2. chip'.pulses \in Nat
      BY <3>1 DEF ChipSet, MaxPulses
    <3> QED
      BY <3>1, <3>2
  <2>5. PioTypeOK' /\ CountersAgree'
    BY <1>1, <1>2, <1>3, <1>6, <2>2, <2>4 DEF PioTypeOK, CountersAgree, ChipSet
  <2>6. SleepsHigh' /\ PulsesBegin' /\ GainLoops'
    BY <1>1, <1>2, <1>3, <2>2, <2>4 DEF SleepsHigh, PulsesBegin, GainLoops
  <2>7. FrameFits'
    BY <1>1, <1>2, <1>6, <2>2, <2>4 DEF FrameFits, BeforeBits, AmongBits, AfterBits
  <2>8. PulsesCounted' /\ ClockLow'
    BY <1>1, <1>2, <1>3, <1>6, <2>2, <2>4 DEF PulsesCounted, ClockLow
  <2>9. BitsPlaced'
    BY <1>1, <1>2, <1>6, <2>2, <2>4, EmptyFacts DEF BitsPlaced, AmongBits
  <2> QED
    BY <2>5, <2>6, <2>7, <2>8, <2>9 DEF PioInv
<1> QED
  BY <1>5, <1>6

\* A bit that is shifted in is at its place, if its frame is not torn.
LEMMA InPinsInv ==
  ASSUME PioInv, InPins
  PROVE  PioInv'
<1>1. /\ PioTypeOK /\ running /\ pc = 6 /\ Len(isr) < Bits - 1
      /\ FrameFits /\ PulsesCounted /\ BitsPlaced /\ CountersAgree
      /\ SleepsHigh /\ PulsesBegin
  BY DEF PioInv, InPins, At
<1>2. /\ UNCHANGED <<running, x, y, osr, tx, rx, clk, chip>> /\ pc' = 7
      /\ isr' = Append(isr, DataBit)
  BY DEF InPins
<1>3. /\ chip \in ChipSet /\ chip.pulses \in Nat /\ isr \in Seq(0..Bits)
      /\ Len(isr) \in Nat /\ Len(isr) < Bits /\ (isr = <<>> <=> Len(isr) = 0)
      /\ y \in 0..(WordMod - 1)
  BY <1>1, ScratchFacts
<1>4. DataBit \in 0..Bits
  BY <1>3 DEF DataBit
<1>5. /\ isr' \in Seq(0..Bits) /\ isr' # <<>> /\ Len(isr') = Len(isr) + 1
      /\ DOMAIN isr' = 1..(Len(isr) + 1) /\ DOMAIN isr = 1..Len(isr)
      /\ \A i \in 1..Len(isr) : isr'[i] = isr[i]
      /\ isr'[Len(isr) + 1] = DataBit
  BY <1>2, <1>3, <1>4, AppendFacts
<1>6. /\ chip.on /\ chip.frame \in {"clocked", "torn"}
      /\ chip.frame = "clocked" => chip.pulses = Len(isr) + 1 /\ DataBit = Len(isr) + 1
      /\ chip.frame = "torn" /\ isr = <<>> => DataBit # 1
  <2>1. chip.on /\ chip.frame \in {"clocked", "torn"}
    BY <1>1, <1>3 DEF SleepsHigh, FrameFits, AmongBits
  <2>2. chip.frame = "clocked" => chip.pulses = Len(isr) + 1 /\ DataBit = Len(isr) + 1
    BY <1>1, <1>3 DEF PulsesCounted, DataBit
  <2>3. chip.frame = "torn" /\ isr = <<>> => DataBit # 1
    BY <1>1 DEF BitsPlaced, AmongBits, DataBit
  <2> QED
    BY <2>1, <2>2, <2>3
<1>7. PioTypeOK' /\ CountersAgree'
  <2>1. PioTypeOK'
    BY <1>1, <1>2, <1>3, <1>5 DEF PioTypeOK
  <2>2. CountersAgree'
    BY <1>1, <1>2, <1>3, <1>5 DEF CountersAgree
  <2> QED
    BY <2>1, <2>2
<1>8. SleepsHigh' /\ PulsesBegin' /\ GainLoops' /\ FrameFits'
  BY <1>1, <1>2, <1>5, <1>6 DEF SleepsHigh, PulsesBegin, GainLoops, FrameFits, BeforeBits,
     AmongBits, AfterBits
<1>9. PulsesCounted' /\ ClockLow'
  BY <1>2, <1>5, <1>6 DEF PulsesCounted, ClockLow
<1>10. BitsPlaced'
  <2>1. chip.frame = "clocked" => \A i \in DOMAIN isr' : isr'[i] = i
    BY <1>1, <1>3, <1>5, <1>6 DEF BitsPlaced
  <2>2. chip.frame = "torn" => isr'[1] # 1
    <3>1. CASE isr = <<>>
      BY <1>3, <1>5, <1>6, <3>1
    <3>2. CASE isr # <<>>
      BY <1>1, <1>3, <1>5, <3>2 DEF BitsPlaced
    <3> QED
      BY <3>1, <3>2
  <2> QED
    BY <1>2, <1>5, <2>1, <2>2 DEF BitsPlaced, AmongBits
<1> QED
  BY <1>7, <1>8, <1>9, <1>10 DEF PioInv

\* What is shifted in completes a word; it says if the frame was torn.
LEMMA PushFacts ==
  ASSUME PioInv, InPinsPush
  PROVE  /\ running /\ pc = 6 /\ Len(rx) < Depth /\ rx \in Seq(ShiftWord)
         /\ chip.frame \in {"clocked", "torn"}
         /\ chip.frame = "clocked" => chip.pulses = Bits
         /\ rx' = Append(rx, [gain |-> chip.gain, whole |-> chip.frame = "clocked"])
<1>1. /\ PioTypeOK /\ running /\ pc = 6 /\ Len(isr) = Bits - 1 /\ Len(rx) < Depth
      /\ FrameFits /\ PulsesCounted /\ BitsPlaced
  BY DEF PioInv, InPinsPush, At
<1>2. /\ chip.pulses \in Nat /\ isr \in Seq(0..Bits) /\ Len(isr) \in Nat
      /\ (isr = <<>> <=> Len(isr) = 0) /\ chip.frame \in {"clocked", "torn"}
      /\ rx \in Seq(ShiftWord)
  BY <1>1, ScratchFacts, TypeParts DEF FrameFits, AmongBits
<1>3. DataBit \in 0..Bits
  BY <1>2 DEF DataBit
<1>4. DEFINE w == Append(isr, DataBit)
<1>5. /\ w \in Seq(0..Bits) /\ Len(w) = Bits /\ DOMAIN w = 1..Bits
      /\ DOMAIN isr = 1..(Bits - 1)
      /\ \A i \in 1..(Bits - 1) : w[i] = isr[i]
      /\ w[Bits] = DataBit
  BY <1>1, <1>2, <1>3, AppendFacts
<1> HIDE DEF w
<1>6. ASSUME chip.frame = "clocked" PROVE w = [i \in 1..Bits |-> i] /\ chip.pulses = Bits
  <2>1. chip.pulses = Bits /\ DataBit = Bits
    BY <1>1, <1>2, <1>6 DEF PulsesCounted, DataBit
  <2>2. \A i \in 1..(Bits - 1) : isr[i] = i
    BY <1>1, <1>5, <1>6 DEF BitsPlaced
  <2>3. \A i \in 1..Bits : w[i] = i
    BY <1>5, <2>1, <2>2
  <2>4. w = [i \in 1..Bits |-> w[i]]
    BY <1>5
  <2> QED
    BY <2>1, <2>3, <2>4
<1>7. ASSUME chip.frame = "torn" PROVE w # [i \in 1..Bits |-> i]
  <2>1. w[1] # 1
    <3>1. CASE isr = <<>>
      BY <1>1, <1>2, <1>5, <1>7, <3>1 DEF BitsPlaced, AmongBits, DataBit
    <3>2. CASE isr # <<>>
      BY <1>1, <1>2, <1>5, <1>7, <3>2 DEF BitsPlaced
    <3> QED
      BY <3>1, <3>2
  <2> QED
    BY <2>1
<1>8. rx' = Append(rx, [gain |-> chip.gain, whole |-> w = [i \in 1..Bits |-> i]])
  BY DEF InPinsPush, w
<1>9. (w = [i \in 1..Bits |-> i]) = (chip.frame = "clocked")
  BY <1>2, <1>6, <1>7
<1> QED
  BY <1>1, <1>2, <1>6, <1>8, <1>9

\* The word is pushed, and a chip that slept in the stall wakes.
LEMMA InPinsPushInv ==
  ASSUME PioInv, InPinsPush
  PROVE  PioInv'
<1>1. /\ PioTypeOK /\ running /\ pc = 6 /\ Len(isr) = Bits - 1
      /\ CountersAgree /\ PulsesBegin /\ SleepsHigh
  BY DEF PioInv, InPinsPush, At
<1>2. /\ UNCHANGED <<running, x, y, osr, tx, clk>> /\ pc' = 7 /\ isr' = <<>>
      /\ chip' \in Woken(chip)
  BY DEF InPinsPush
<1>3. /\ chip \in ChipSet /\ y \in 0..(WordMod - 1) /\ Len(isr) \in Nat
  BY <1>1, ScratchFacts
<1>4. /\ chip' \in ChipSet /\ chip'.on /\ (chip.on => chip' = chip)
      /\ (~chip.on => chip'.frame = "converting")
  BY <1>2, <1>3, WokenFacts
<1>5. rx' \in Seq(ShiftWord) /\ Len(rx') <= Depth
  <2>1. [gain |-> chip.gain, whole |-> chip.frame = "clocked"] \in ShiftWord
    BY <1>3 DEF ShiftWord, ChipSet
  <2>2. rx \in Seq(ShiftWord) /\ Len(rx) < Depth
    BY PushFacts
  <2> QED
    BY <2>1, <2>2, PushFacts, AppendFacts
<1>6. <<>> \in Seq(0..Bits) /\ Len(<<>>) = 0 /\ DOMAIN <<>> = {}
  BY EmptyFacts
<1>7. PioTypeOK'
  <2>1. /\ running \in BOOLEAN /\ x \in Gains /\ osr \in Gains
        /\ tx \in Seq(Gains) /\ Len(tx) <= 1 /\ clk \in BOOLEAN
    BY <1>1, TypeParts
  <2>2. 7 \in 0..13 /\ 0 < Bits
    OBVIOUS
  <2> QED
    BY <1>2, <1>3, <1>4, <1>5, <1>6, <2>1, <2>2 DEF PioTypeOK, ShiftWord, ChipSet
<1>8. CountersAgree' /\ SleepsHigh' /\ PulsesBegin'
  <2>1. y = 0
    BY <1>1, <1>3 DEF CountersAgree
  <2> QED
    BY <1>1, <1>2, <1>4, <2>1 DEF CountersAgree, SleepsHigh, PulsesBegin
<1>9. FrameFits' /\ PulsesCounted' /\ BitsPlaced' /\ GainLoops' /\ ClockLow'
  <2>1. chip'.frame # "ready" /\ (chip'.frame = "clocked" => chip'.pulses = Bits)
    BY <1>3, <1>4, PushFacts DEF ChipSet
  <2> QED
    BY <1>2, <1>6, <2>1 DEF FrameFits, BeforeBits, AmongBits, AfterBits, PulsesCounted,
       BitsPlaced, GainLoops, ClockLow
<1> QED
  BY <1>7, <1>8, <1>9 DEF PioInv

\* The loop of the bits ends with the word.
LEMMA BitLoopInv ==
  ASSUME PioInv, BitLoop
  PROVE  PioInv'
<1>1. /\ PioTypeOK /\ running /\ pc = 7
      /\ FrameFits /\ PulsesCounted /\ BitsPlaced /\ CountersAgree
      /\ SleepsHigh /\ PulsesBegin
  BY DEF PioInv, BitLoop, At
<1>2. /\ UNCHANGED <<running, x, osr, isr, tx, rx, chip>> /\ clk' = FALSE
      /\ y' = (y - 1) % WordMod /\ pc' = IF y # 0 THEN 5 ELSE 8
  BY DEF BitLoop, LoopY
<1>3. /\ y \in 0..(WordMod - 1) /\ Len(isr) \in Nat /\ Len(isr) < Bits
      /\ (isr = <<>> <=> Len(isr) = 0)
  BY <1>1, ScratchFacts
<1>4. /\ y' = (IF y = 0 THEN WordMod - 1 ELSE y - 1) /\ y' \in 0..(WordMod - 1)
  <2>1. (y - 1) % WordMod = IF y = 0 THEN WordMod - 1 ELSE y - 1
    BY <1>3, DownFacts
  <2> QED
    BY <1>2, <1>3, <2>1
<1>5. /\ chip.on /\ (y = 0 <=> isr = <<>>)
      /\ isr # <<>> => y + Len(isr) = Bits
  BY <1>1, <1>3 DEF SleepsHigh, CountersAgree
<1>6. PioTypeOK'
  <2>1. pc' \in 0..13
    BY <1>2
  <2>2. clk' \in BOOLEAN
    BY <1>2, Zenon
  <2> QED
    BY <1>1, <1>2, <1>4, <2>1, <2>2, TypeParts
<1>7. CountersAgree'
  BY <1>2, <1>3, <1>4, <1>5 DEF CountersAgree
<1>8. SleepsHigh' /\ PulsesBegin' /\ GainLoops'
  BY <1>1, <1>2, <1>5 DEF SleepsHigh, PulsesBegin, GainLoops
<1>9. FrameFits' /\ PulsesCounted' /\ BitsPlaced' /\ ClockLow'
  BY <1>1, <1>2, <1>5 DEF FrameFits, BeforeBits, AmongBits, AfterBits, PulsesCounted,
     BitsPlaced, ClockLow
<1> QED
  BY <1>6, <1>7, <1>8, <1>9 DEF PioInv

\* The 25th pulse.
LEMMA PullGainInv ==
  ASSUME PioInv, PullGain
  PROVE  PioInv'
<1>1. /\ PioTypeOK /\ running /\ pc = 8 /\ isr = <<>>
      /\ FrameFits /\ ClockLow /\ PulsesCounted /\ SleepsHigh /\ PulsesBegin
  BY DEF PioInv, PullGain, At, CountersAgree
<1>2. /\ UNCHANGED <<running, x, y, isr, rx>> /\ clk' = TRUE /\ pc' = 9
      /\ osr' \in Gains /\ tx' \in Seq(Gains) /\ Len(tx') <= 1
  <2>1. PullNoblock(TRUE) /\ chip' = SetHigh
    BY DEF PullGain
  <2>2. /\ osr' \in Gains /\ tx' \in Seq(Gains) /\ Len(tx') <= 1
    BY <1>1, <2>1, PullFacts
  <2> QED
    <3>1. UNCHANGED <<running, x, y, isr, rx>> /\ clk' = TRUE /\ pc' = pc + 1
      BY <2>1, Zenon DEF PullNoblock
    <3>2. pc' = 9
      BY <1>1, <3>1
    <3> QED
      BY <2>2, <3>1, <3>2, Zenon
<1>3. chip \in ChipSet /\ chip.pulses \in Nat
  BY <1>1, ScratchFacts
<1>4. chip.on /\ chip.frame # "ready" /\ (chip.frame = "clocked" => chip.pulses = Bits)
  BY <1>1 DEF FrameFits, AfterBits, SleepsHigh, PulsesCounted
<1>5. /\ chip' \in ChipSet /\ chip'.on = chip.on /\ chip'.frame = chip.frame
      /\ chip.frame = "clocked" => chip'.pulses = chip.pulses + 1
  <2>1. ~clk /\ (chip.frame = "clocked" => chip.pulses < MaxPulses)
    BY <1>1, PulseRoom DEF BeforeBits
  <2>2. chip' = SetHigh
    BY DEF PullGain
  <2> QED
    BY <1>3, <2>1, <2>2, LaterEdge
<1>6. PioTypeOK'
  <2>1. 9 \in 0..13
    OBVIOUS
  <2> QED
    BY <1>1, <1>2, <1>5, <2>1, TypeParts
<1>7. CountersAgree' /\ SleepsHigh' /\ PulsesBegin' /\ GainLoops'
  <2>1. chip'.pulses \in Nat
    BY <1>5 DEF ChipSet, MaxPulses
  <2> QED
    BY <1>1, <1>2, <1>3, <1>4, <1>5, <2>1 DEF CountersAgree, SleepsHigh, PulsesBegin,
       GainLoops
<1>8. FrameFits' /\ PulsesCounted' /\ BitsPlaced' /\ ClockLow'
  BY <1>1, <1>2, <1>4, <1>5, EmptyFacts DEF FrameFits, BeforeBits, AmongBits, AfterBits,
     PulsesCounted, BitsPlaced, ClockLow
<1> QED
  BY <1>6, <1>7, <1>8 DEF PioInv

\* At the end of the pulses, those of a frame that is not torn ask for x.
LEMMA PulseFacts ==
  ASSUME PioInv, running,
         (pc = 10 /\ x = 0) \/ (pc = 13 /\ y = 0),
         chip' \in FrameEnds
  PROVE  /\ chip' \in ChipSet /\ chip'.on = chip.on /\ chip'.frame = "converting"
         /\ chip.frame # "ready" /\ chip.on /\ isr = <<>>
         /\ chip.frame = "clocked" => chip'.gain = GainPulses(x)
         /\ chip.frame = "converting" => chip' = chip
<1>1. /\ PioTypeOK /\ FrameFits /\ PulsesCounted /\ GainLoops /\ SleepsHigh
      /\ CountersAgree
  BY DEF PioInv
<1>2. /\ chip \in ChipSet /\ chip.pulses \in Nat /\ x \in Gains /\ x \in Nat
      /\ GainPulses(x) \in PulseCounts
  BY <1>1, ScratchFacts, CountFacts
<1>3. chip.frame # "ready" /\ chip.on /\ isr = <<>>
  BY <1>1 DEF FrameFits, AfterBits, SleepsHigh, CountersAgree
<1>4. chip.frame = "clocked" => chip.pulses - Bits = GainPulses(x)
  <2>1. CASE pc = 10 /\ x = 0
    BY <1>1, <1>2, <2>1 DEF PulsesCounted, GainPulses
  <2>2. CASE pc = 13 /\ y = 0
    <3>1. x # 0
      BY <1>1, <2>2 DEF GainLoops
    <3>2. chip.frame = "clocked" => chip.pulses = Bits + 2 + x
      BY <1>1, <1>2, <2>2 DEF PulsesCounted
    <3> QED
      BY <1>2, <3>1, <3>2 DEF GainPulses
  <2> QED
    BY <2>1, <2>2
<1> QED
  BY <1>2, <1>3, <1>4, EndFacts

\* The gain loop, and its end.
LEMMA GainInv ==
  ASSUME PioInv, JmpNotX \/ GainLoop
  PROVE  PioInv'
<1>1. /\ PioTypeOK /\ running /\ pc \in {10, 13} /\ isr = <<>>
      /\ FrameFits /\ PulsesCounted /\ BitsPlaced /\ GainLoops /\ SleepsHigh /\ PulsesBegin
  BY DEF PioInv, JmpNotX, GainLoop, At, CountersAgree
<1>2. /\ UNCHANGED <<running, x, osr, isr, tx, rx>> /\ clk' = FALSE
      /\ pc' \in {3, 11, 12}
  BY DEF JmpNotX, GainLoop, LoopY
<1>3. x \in 0..(WordMod - 1) /\ y \in 0..(WordMod - 1) /\ chip.pulses \in Nat /\ chip \in ChipSet
  BY <1>1, ScratchFacts
<1>4. (y - 1) % WordMod = IF y = 0 THEN WordMod - 1 ELSE y - 1
  BY <1>3, DownFacts
<1>5. /\ pc = 10 => y' = y
      /\ pc = 13 => y' = (IF y = 0 THEN WordMod - 1 ELSE y - 1)
      /\ y' \in 0..(WordMod - 1)
  <2>1. /\ pc = 10 => y' = y
        /\ pc = 13 => y' = (y - 1) % WordMod
    BY DEF JmpNotX, GainLoop, LoopY, At
  <2> QED
    BY <1>1, <1>3, <1>4, <2>1
<1>6. CountersAgree'
  BY <1>1, <1>2 DEF CountersAgree
<1>7. chip.on
  BY <1>1 DEF SleepsHigh
<1>8. CASE pc' = 3
  <2>1. chip' \in ChipSet /\ chip'.on /\ chip'.frame = "converting"
    <3>1. ((pc = 10 /\ x = 0) \/ (pc = 13 /\ y = 0)) /\ chip' \in FrameEnds
      <4>1. CASE JmpNotX
        BY <1>8, <4>1 DEF JmpNotX, At
      <4>2. CASE GainLoop
        BY <1>8, <4>2 DEF GainLoop, LoopY, At
      <4> QED
        BY <4>1, <4>2
    <3> QED
      BY <1>1, <1>7, <3>1, PulseFacts
  <2>2. PioTypeOK'
    <3>1. pc' \in 0..13
      BY <1>2
    <3>2. clk' \in BOOLEAN
      BY <1>2, Zenon
    <3> QED
      BY <1>1, <1>2, <1>5, <2>1, <3>1, <3>2, TypeParts
  <2> QED
    BY <1>1, <1>2, <1>6, <1>8, <2>1, <2>2, EmptyFacts DEF PioInv, SleepsHigh, PulsesBegin,
       FrameFits, BeforeBits, AmongBits, AfterBits, PulsesCounted, BitsPlaced, GainLoops,
       ClockLow
<1>9. CASE pc' # 3
  <2>1. /\ chip' = chip
        /\ pc = 10 => pc' = 11 /\ x # 0
        /\ pc = 13 => pc' = 12 /\ y # 0
    <3>1. CASE JmpNotX
      BY <1>9, <3>1 DEF JmpNotX, At
    <3>2. CASE GainLoop
      BY <1>9, <3>2 DEF GainLoop, LoopY, At
    <3> QED
      BY <3>1, <3>2
  <2>2. PioTypeOK'
    <3>1. pc' \in 0..13
      BY <1>2
    <3>2. clk' \in BOOLEAN
      BY <1>2, Zenon
    <3> QED
      BY <1>1, <1>2, <1>5, <2>1, <3>1, <3>2, TypeParts
  <2>3. SleepsHigh' /\ PulsesBegin' /\ FrameFits' /\ BitsPlaced'
    BY <1>1, <1>2, <1>7, <2>1, EmptyFacts DEF SleepsHigh, PulsesBegin, FrameFits, BeforeBits,
       AmongBits, AfterBits, BitsPlaced
  <2>4. PulsesCounted' /\ GainLoops' /\ ClockLow'
    BY <1>1, <1>2, <1>3, <1>5, <2>1, EmptyFacts DEF PulsesCounted, GainLoops, ClockLow
  <2> QED
    BY <1>6, <2>2, <2>3, <2>4 DEF PioInv
<1> QED
  BY <1>8, <1>9

\* A pulse of the pin wakes a chip and is the first of one that is ready.
LEMMA PulsedFacts ==
  ASSUME chip \in ChipSet, PulsesBegin, NEW e \in Pulsed(chip)
  PROVE  /\ e \in ChipSet
         /\ e.frame = "ready" => e.pulses = 0
         /\ e.frame = "clocked" => e.pulses >= 1
         /\ clk => e.on
         /\ ~clk => e = chip
<1>1. MaxPulses \in Nat /\ 1 \in 0..MaxPulses
  BY DEF MaxPulses
<1>2. CASE ~clk
  BY <1>2 DEF Pulsed, PulsesBegin
<1>3. CASE clk
  <2>1. PICK d \in Woken(chip) :
          e = CASE d.frame = "ready" -> [d EXCEPT !.frame = "clocked", !.pulses = 1]
                [] d.frame \in {"clocked", "torn"} /\ d.pulses < MaxPulses ->
                     [d EXCEPT !.pulses = @ + 1]
                [] OTHER -> d
    BY <1>3 DEF Pulsed
  <2>2. d \in ChipSet /\ d.on /\ (d.frame = "clocked" => d.pulses >= 1)
    BY WokenFacts DEF PulsesBegin
  <2>3. d.pulses \in 0..MaxPulses /\ d.pulses \in Nat
    BY <1>1, <2>2 DEF ChipSet
  <2>4. CASE d.frame = "ready"
    <3>1. e = [d EXCEPT !.frame = "clocked", !.pulses = 1]
      BY <2>1, <2>4
    <3> QED
      <4>1. [d EXCEPT !.frame = "clocked"] \in ChipSet
        BY <2>2 DEF ChipSet
      <4>2. e = [[d EXCEPT !.frame = "clocked"] EXCEPT !.pulses = 1]
        BY <3>1
      <4>3. /\ e \in ChipSet /\ e.pulses = 1
            /\ e.on = [d EXCEPT !.frame = "clocked"].on
            /\ e.frame = [d EXCEPT !.frame = "clocked"].frame
        BY <1>1, <4>1, <4>2 DEF ChipSet
      <4>4. [d EXCEPT !.frame = "clocked"].on = d.on /\ [d EXCEPT !.frame = "clocked"].frame = "clocked"
        BY <2>2 DEF ChipSet
      <4> QED
        BY <1>3, <2>2, <4>3, <4>4
  <2>5. CASE d.frame \in {"clocked", "torn"} /\ d.pulses < MaxPulses
    <3>1. e = [d EXCEPT !.pulses = @ + 1]
      BY <2>1, <2>5
    <3>2. d.pulses + 1 \in 0..MaxPulses /\ d.pulses + 1 >= 1
      BY <1>1, <2>3, <2>5
    <3> QED
      BY <1>3, <2>2, <2>5, <3>1, <3>2 DEF ChipSet
  <2>6. CASE d.frame # "ready" /\ ~(d.frame \in {"clocked", "torn"} /\ d.pulses < MaxPulses)
    <3>1. e = d
      BY <2>1, <2>6
    <3> QED
      BY <1>3, <2>2, <2>6, <3>1
  <2> QED
    BY <2>4, <2>5, <2>6
<1> QED
  BY <1>2, <1>3

\* The chip by itself, and what a core does.
LEMMA OutsideInv ==
  ASSUME PioInv, Convert \/ Sleep \/ Core
  PROVE  PioInv'
<1>1. /\ PioTypeOK /\ CountersAgree /\ SleepsHigh /\ PulsesBegin
      /\ running => FrameFits /\ ClockLow /\ PulsesCounted /\ BitsPlaced /\ GainLoops
  BY DEF PioInv
<1>2. chip \in ChipSet
  BY <1>1, TypeParts
<1>3. CASE Convert
  <2>1. /\ UNCHANGED <<running, pc, x, y, osr, isr, tx, rx, clk>> /\ chip.on
        /\ running => pc <= 4 \/ (pc = 5 /\ isr = <<>>)
        /\ chip' \in ChipSet /\ chip'.on /\ chip'.frame = "ready" /\ chip'.pulses = 0
    <3>1. 0 \in 0..MaxPulses
      BY DEF MaxPulses
    <3> QED
      BY <1>2, <1>3, <3>1 DEF Convert, AtRest, ChipSet
  <2>2. PioTypeOK' /\ CountersAgree' /\ SleepsHigh' /\ PulsesBegin'
    BY <1>1, <2>1 DEF PioTypeOK, CountersAgree, SleepsHigh, PulsesBegin, ChipSet
  <2>3. running => FrameFits' /\ ClockLow' /\ PulsesCounted' /\ BitsPlaced' /\ GainLoops'
    BY <1>1, <2>1 DEF PioTypeOK, FrameFits, BeforeBits, AmongBits, AfterBits,
       ClockLow, PulsesCounted, BitsPlaced, GainLoops
  <2> QED
    BY <2>1, <2>2, <2>3 DEF PioInv
<1>4. CASE Sleep
  <2>1. /\ UNCHANGED <<running, pc, x, y, osr, isr, tx, rx, clk>> /\ clk
        /\ running => pc <= 4 \/ (pc = 6 /\ Len(isr) = Bits - 1)
        /\ chip' \in ChipSet /\ chip'.frame = chip.frame /\ chip'.pulses = chip.pulses
    BY <1>2, <1>4 DEF Sleep, Stalled, ChipSet
  <2>2. PioTypeOK' /\ CountersAgree' /\ SleepsHigh' /\ PulsesBegin'
    BY <1>1, <2>1 DEF PioTypeOK, CountersAgree, SleepsHigh, PulsesBegin, ChipSet
  <2>3. running => FrameFits' /\ ClockLow' /\ PulsesCounted' /\ BitsPlaced' /\ GainLoops'
    BY <1>1, <2>1 DEF PioTypeOK, FrameFits, BeforeBits, AmongBits, AfterBits,
       ClockLow, PulsesCounted, BitsPlaced, GainLoops
  <2> QED
    BY <2>1, <2>2, <2>3 DEF PioInv
<1>5. CASE Core
  <2>1. /\ UNCHANGED <<x, y, osr, clk>>
        /\ UNCHANGED chip \/ (~running /\ ~running' /\ chip' \in Pulsed(chip))
    BY <1>5 DEF Core, Put, Drain, Get, Start, Stop, Prepare
  <2>0. /\ chip' \in ChipSet /\ PulsesBegin'
        /\ ~chip'.on => ~chip.on
        /\ running \/ running' => chip' = chip
    <3>1. CASE UNCHANGED chip
      BY <1>1, <1>2, <3>1 DEF PulsesBegin
    <3>2. CASE ~running /\ ~running' /\ chip' \in Pulsed(chip)
      <4>1. /\ chip' \in ChipSet /\ (clk => chip'.on) /\ (~clk => chip' = chip)
            /\ chip'.frame = "ready" => chip'.pulses = 0
            /\ chip'.frame = "clocked" => chip'.pulses >= 1
        BY <1>1, <1>2, <3>2, PulsedFacts
      <4>2. PulsesBegin'
        BY <4>1 DEF PulsesBegin
      <4>3. ~chip'.on => ~chip.on
        BY <4>1
      <4> QED
        BY <3>2, <4>1, <4>2, <4>3
    <3> QED
      BY <2>1, <3>1, <3>2
  <2>2. /\ tx' \in Seq(Gains) /\ Len(tx') <= 1
        /\ rx' \in Seq(ShiftWord) /\ Len(rx') <= Depth
    <3>1. /\ tx \in Seq(Gains) /\ Len(tx) <= 1 /\ rx \in Seq(ShiftWord) /\ Len(rx) <= Depth
          /\ Len(rx) \in Nat
      BY <1>1, TypeParts
    <3>2. /\ <<>> \in Seq(Gains) /\ <<>> \in Seq(ShiftWord) /\ Len(<<>>) = 0
          /\ \A g \in Gains : <<g>> \in Seq(Gains) /\ Len(<<g>>) = 1
      BY EmptyFacts
    <3>3. rx # <<>> => Tail(rx) \in Seq(ShiftWord) /\ Len(Tail(rx)) = Len(rx) - 1
      BY <3>1, TailFacts
    <3>4. tx' \in Seq(Gains) /\ Len(tx') <= 1
      <4>1. tx' \in {tx, <<>>} \/ \E g \in Gains : tx' = <<g>>
        BY <1>5 DEF Core, Put, Drain, Get, Start, Stop, Prepare
      <4>2. CASE tx' = tx
        BY <3>1, <4>2
      <4>4. CASE tx' = <<>>
        <5>1. tx' \in Seq(Gains) /\ Len(tx') = 0
          BY <3>2, <4>4
        <5> QED
          BY <5>1
      <4>3. ASSUME NEW g \in Gains, tx' = <<g>> PROVE tx' \in Seq(Gains) /\ Len(tx') <= 1
        BY <4>3
      <4> QED
        BY <4>1, <4>2, <4>3, <4>4
    <3>5. rx' \in {rx, <<>>} \/ (rx # <<>> /\ rx' = Tail(rx))
      BY <1>5 DEF Core, Put, Drain, Get, Start, Stop, Prepare
    <3>6. rx' \in Seq(ShiftWord) /\ Len(rx') <= Depth
      <4>1. CASE rx' = rx
        BY <3>1, <4>1
      <4>3. CASE rx' = <<>>
        <5>1. rx' \in Seq(ShiftWord) /\ Len(rx') = 0
          BY <3>2, <4>3
        <5> QED
          BY <5>1
      <4>2. CASE rx # <<>> /\ rx' = Tail(rx)
        <5>1. Len(rx') = Len(rx) - 1
          BY <3>3, <4>2
        <5>2. Len(rx') <= Depth
          BY <3>1, <5>1
        <5> QED
          BY <3>3, <4>2, <5>2
      <4> QED
        BY <3>5, <4>1, <4>2, <4>3
    <3> QED
      BY <3>4, <3>6
  <2>3. \/ UNCHANGED <<running, pc, isr>>
        \/ running' = FALSE /\ UNCHANGED <<pc, isr>>
        \/ running' = TRUE /\ pc' = 0 /\ isr' = <<>>
    BY <1>5 DEF Core, Put, Drain, Get, Start, Stop, Prepare
  <2>4. PioTypeOK'
    <3>1. /\ isr \in Seq(0..Bits) /\ Len(isr) < Bits /\ pc \in 0..13 /\ running \in BOOLEAN
          /\ x \in Gains /\ osr \in Gains /\ y \in 0..(WordMod - 1) /\ clk \in BOOLEAN
      BY <1>1, TypeParts
    <3>2. isr' \in {isr, <<>>} /\ pc' \in {pc, 0} /\ running' \in {running, TRUE, FALSE}
      BY <2>3, Zenon
    <3>3. isr' \in Seq(0..Bits) /\ Len(isr') < Bits
      <4>1. CASE isr' = isr
        BY <3>1, <4>1
      <4>2. CASE isr' = <<>>
        <5>1. <<>> \in Seq(0..Bits) /\ Len(<<>>) = 0
          BY EmptyFacts
        <5>2. isr' \in Seq(0..Bits) /\ Len(isr') = 0
          BY <4>2, <5>1
        <5> QED
          BY <5>2
      <4> QED
        BY <3>2, <4>1, <4>2
    <3>4. pc' \in 0..13
      BY <3>1, <3>2
    <3>5. running' \in BOOLEAN
      BY <3>1, <3>2, Zenon
    <3> QED
      BY <2>0, <2>1, <2>2, <3>1, <3>3, <3>4, <3>5, TypeParts
  <2>5. CASE UNCHANGED <<running, pc, isr>>
    BY <1>1, <2>0, <2>1, <2>4, <2>5 DEF PioInv, CountersAgree, SleepsHigh, FrameFits,
       ClockLow, BeforeBits, AmongBits, AfterBits, PulsesCounted, BitsPlaced, GainLoops
  <2>6. CASE running' = FALSE /\ UNCHANGED <<pc, isr>>
    BY <1>1, <2>0, <2>1, <2>4, <2>6 DEF PioInv, CountersAgree, SleepsHigh
  <2>7. CASE running' = TRUE /\ pc' = 0 /\ isr' = <<>>
    BY <1>1, <2>0, <2>1, <2>4, <2>7, EmptyFacts DEF PioInv, CountersAgree, SleepsHigh,
       ClockLow, FrameFits, BeforeBits, AmongBits, AfterBits, PulsesCounted, BitsPlaced, GainLoops
  <2> QED
    BY <2>3, <2>5, <2>6, <2>7
<1> QED
  BY <1>3, <1>4, <1>5

LEMMA InvStep ==
  ASSUME PioInv, [Next]_vars
  PROVE  PioInv'
<1>1. CASE UNCHANGED vars
  BY <1>1 DEF vars, PioInv, PioTypeOK, CountersAgree, SleepsHigh, PulsesBegin, FrameFits,
     ClockLow, BeforeBits, AmongBits, AfterBits, PulsesCounted, BitsPlaced, GainLoops
<1>2. CASE Exec
  BY <1>2, PlainInv, SetPinsInv, InPinsInv, InPinsPushInv, BitLoopInv, PullGainInv, GainInv
     DEF Exec
<1> QED
  BY <1>1, <1>2, OutsideInv DEF Next

\* The inductive invariant of the program: the registers, the shift count, the
\* pulses the chip counted and the place in the program agree.
THEOREM PioInvariant == Spec => []PioInv
<1>1. PioInv /\ [Next]_vars => PioInv'
  BY InvStep
<1> QED
  BY <1>1, InitInv, PTL DEF Spec

\* All variables keep to their sets: the shift register never holds a whole
\* word that was not pushed, and no FIFO has more words than it has entries.
THEOREM PioTypeCorrect == Spec => []PioTypeOK
<1>1. PioInv => PioTypeOK
  BY DEF PioInv
<1> QED
  BY <1>1, PioInvariant, PTL

\* The bit loop's counter and the shift count agree, whenever a core stops and
\* restarts the SM: hx711_reader.pio:79, 107, 297-301.
THEOREM CountersAlwaysAgree == Spec => []CountersAgree
<1>1. PioInv => CountersAgree
  BY DEF PioInv
<1> QED
  BY <1>1, PioInvariant, PTL

-----------------------------------------------------------------------------
(* Each step is one of ReaderSm, or none. *)

LEMMA InitSm == Init => Sm!SmInit
<1> SUFFICES ASSUME Init PROVE Sm!SmInit
  OBVIOUS
<1>1. PhaseAt = "boot" /\ XAt = DefaultGain /\ HeldAt = FALSE
  BY DEF Init, PhaseAt, XAt, HeldAt
<1>2. chip \in ChipSet /\ chip.on = TRUE /\ chip.frame \in {"converting", "ready", "clocked"}
  <2>1. chip \in ChipSet
    BY InitInv, TypeParts DEF PioInv
  <2> QED
    BY <2>1 DEF Init
<1>3. ChipAt \in [on : {TRUE}, gain : PulseCounts, frame : {"converting", "ready", "clocked"}]
  BY <1>2 DEF ChipAt, ChipSet
<1> QED
  BY <1>1, <1>3 DEF Init, Sm!SmInit, Sm!PulseCounts, Sm!GainPulses, PulseCounts, GainPulses

\* The phase of each instruction, before and after a step.
LEMMA PhaseFacts ==
  /\ pc \in 0..1 => PhaseAt = "boot"
  /\ pc \in 2..4 \/ (pc = 5 /\ isr = <<>>) => PhaseAt = "wait"
  /\ pc = 8 \/ (pc = 7 /\ isr = <<>>) => PhaseAt = "pull"
  /\ pc \in 9..13 => PhaseAt = "gain"
  /\ pc = 6 \/ (pc \in {5, 7} /\ isr # <<>>) => PhaseAt = "shift"
  /\ pc' \in 0..1 => PhaseAt' = "boot"
  /\ pc' \in 2..4 \/ (pc' = 5 /\ isr' = <<>>) => PhaseAt' = "wait"
  /\ pc' = 8 \/ (pc' = 7 /\ isr' = <<>>) => PhaseAt' = "pull"
  /\ pc' \in 9..13 => PhaseAt' = "gain"
  /\ pc' = 6 \/ (pc' \in {5, 7} /\ isr' # <<>>) => PhaseAt' = "shift"
<1>1. pc \in 0..1 => PhaseAt = "boot"
  BY DEF PhaseAt
<1>2. pc \in 2..4 \/ (pc = 5 /\ isr = <<>>) => PhaseAt = "wait"
  BY DEF PhaseAt
<1>3. pc = 8 \/ (pc = 7 /\ isr = <<>>) => PhaseAt = "pull"
  BY DEF PhaseAt
<1>4. pc \in 9..13 => PhaseAt = "gain"
  BY DEF PhaseAt
<1>5. pc = 6 \/ (pc \in {5, 7} /\ isr # <<>>) => PhaseAt = "shift"
  BY DEF PhaseAt
<1>6. pc' \in 0..1 => PhaseAt' = "boot"
  BY DEF PhaseAt
<1>7. pc' \in 2..4 \/ (pc' = 5 /\ isr' = <<>>) => PhaseAt' = "wait"
  BY DEF PhaseAt
<1>8. pc' = 8 \/ (pc' = 7 /\ isr' = <<>>) => PhaseAt' = "pull"
  BY DEF PhaseAt
<1>9. pc' \in 9..13 => PhaseAt' = "gain"
  BY DEF PhaseAt
<1>10. pc' = 6 \/ (pc' \in {5, 7} /\ isr' # <<>>) => PhaseAt' = "shift"
  BY DEF PhaseAt
<1> QED
  BY <1>1, <1>2, <1>3, <1>4, <1>5, <1>6, <1>7, <1>8, <1>9, <1>10

\* Where the pin rests high, and the chip without its pulses.
LEMMA HeldFacts ==
  /\ running /\ PhaseAt \in {"shift", "pull", "gain"} => HeldAt = FALSE
  /\ ~running \/ PhaseAt \in {"boot", "wait"} => (HeldAt <=> clk)
  /\ running' /\ PhaseAt' \in {"shift", "pull", "gain"} => HeldAt' = FALSE
  /\ ~running' \/ PhaseAt' \in {"boot", "wait"} => (HeldAt' <=> clk')
  BY DEF HeldAt

LEMMA ChipFacts ==
  /\ ChipAt.on = chip.on /\ ChipAt.gain = chip.gain /\ ChipAt.frame = chip.frame
  /\ ChipAt = [on |-> chip.on, gain |-> chip.gain, frame |-> chip.frame]
  /\ ChipAt' = [on |-> chip'.on, gain |-> chip'.gain, frame |-> chip'.frame]
  BY DEF ChipAt

\* The chip of ReaderSm with one or two fields changed.
LEMMA ChipEdits ==
  ASSUME NEW n, NEW m
  PROVE  /\ [ChipAt EXCEPT !.frame = n] = [on |-> chip.on, gain |-> chip.gain, frame |-> n]
         /\ [ChipAt EXCEPT !.on = n] = [on |-> n, gain |-> chip.gain, frame |-> chip.frame]
         /\ [ChipAt EXCEPT !.frame = n, !.gain = m]
              = [on |-> chip.on, gain |-> m, frame |-> n]
<1>1. PICK r : r = ChipAt
  OBVIOUS
<1>2. PICK o, g, f : o = chip.on /\ g = chip.gain /\ f = chip.frame
  OBVIOUS
<1>3. r = [on |-> o, gain |-> g, frame |-> f]
  BY <1>1, <1>2, Zenon DEF ChipAt
<1>4. PICK q : q = [r EXCEPT !.frame = n]
  OBVIOUS
<1>5. PICK s : s = [r EXCEPT !.on = n]
  OBVIOUS
<1>6. PICK t : t = [r EXCEPT !.frame = n, !.gain = m]
  OBVIOUS
<1>7. q = [on |-> o, gain |-> g, frame |-> n]
  BY <1>3, <1>4
<1>8. s = [on |-> n, gain |-> g, frame |-> f]
  BY <1>3, <1>5
<1>9. t = [on |-> o, gain |-> m, frame |-> n]
  BY <1>3, <1>6
<1> QED
  BY <1>1, <1>2, <1>4, <1>5, <1>6, <1>7, <1>8, <1>9, Zenon

\* The steps that ReaderSm does not see.
LEMMA SetXSm ==
  ASSUME PioInv, SetX \/ OutX \/ SetY \/ WaitLow \/ MovYX
  PROVE  UNCHANGED Sm!smVars
<1>1. /\ running /\ UNCHANGED <<running, isr, tx, rx, clk, chip>> /\ isr = <<>>
      /\ pc \in {0, 2, 3, 4, 9, 11} /\ pc' = pc + 1
  BY DEF PioInv, CountersAgree, SetX, OutX, SetY, WaitLow, MovYX, At
<1>2. PhaseAt' = PhaseAt
  BY <1>1, PhaseFacts
<1>3. XAt' = XAt
  BY DEF XAt, SetX, OutX, SetY, WaitLow, MovYX, At
<1>4. HeldAt' = HeldAt /\ ChipAt' = ChipAt
  BY <1>1, <1>2, Zenon DEF HeldAt, ChipAt
<1> QED
  BY <1>1, <1>2, <1>3, <1>4 DEF Sm!smVars

\* The bit loop before its word is pushed, and the pulses before the last one.
LEMMA LoopSm ==
  ASSUME PioInv, InPins \/ BitLoop \/ (SetPins /\ ~BeforeBits)
                 \/ ((JmpNotX \/ GainLoop) /\ pc' # 3)
  PROVE  UNCHANGED Sm!smVars
<1>1. /\ PioTypeOK /\ running /\ running' = running /\ UNCHANGED <<x, tx, rx>>
  BY DEF PioInv, InPins, BitLoop, SetPins, JmpNotX, GainLoop, LoopY, At
<1>2. PhaseAt' = PhaseAt /\ PhaseAt \in {"shift", "pull", "gain"}
  <2>1. CASE InPins
    <3>1. isr' # <<>>
      BY <1>1, <2>1, ScratchFacts, AppendFacts, TypeParts DEF InPins, DataBit
    <3> QED
      BY <2>1, <3>1, PhaseFacts DEF InPins, At
  <2>2. CASE BitLoop
    <3>1. pc = 7 /\ isr' = isr /\ pc' = (IF y # 0 THEN 5 ELSE 8) /\ (y = 0 <=> isr = <<>>)
      BY <1>1, <2>2, ScratchFacts DEF PioInv, CountersAgree, BitLoop, LoopY, At
    <3> QED
      BY <3>1, PhaseFacts
  <2>3. CASE SetPins /\ ~BeforeBits
    BY <2>3, PhaseFacts DEF SetPins, At, BeforeBits
  <2>4. CASE (JmpNotX \/ GainLoop) /\ pc' # 3
    <3>1. pc \in {10, 13} /\ pc' \in {11, 12}
      BY <2>4 DEF JmpNotX, GainLoop, LoopY, At
    <3> QED
      BY <3>1, PhaseFacts
  <2> QED
    BY <2>1, <2>2, <2>3, <2>4
<1>3. XAt' = XAt
  BY <1>1 DEF XAt, InPins, BitLoop, SetPins, JmpNotX, GainLoop, LoopY, At
<1>4. HeldAt' = HeldAt
  BY <1>1, <1>2, HeldFacts
<1>5. ChipAt' = ChipAt
  <2>1. CASE SetPins /\ ~BeforeBits
    <3>1. chip' = SetHigh
      BY <2>1 DEF SetPins, BeforeBits
    <3>2. chip \in ChipSet /\ ~clk /\ (chip.frame = "clocked" => chip.pulses < MaxPulses)
      BY <1>1, <2>1, PulseRoom
    <3>3. chip'.on = chip.on /\ chip'.gain = chip.gain /\ chip'.frame = chip.frame
      BY <3>1, <3>2, LaterEdge
    <3> QED
      BY <3>3, ChipFacts
  <2>2. CASE InPins \/ BitLoop \/ ((JmpNotX \/ GainLoop) /\ pc' # 3)
    <3>1. chip' = chip
      BY <2>2 DEF InPins, BitLoop, JmpNotX, GainLoop, LoopY, At
    <3> QED
      BY <3>1, ChipFacts
  <2> QED
    BY <2>1, <2>2
<1> QED
  BY <1>1, <1>2, <1>3, <1>4, <1>5 DEF Sm!smVars

\* The first `pull noblock`: x is DEFAULT_GAIN by then.
LEMMA BootSm == ASSUME PioInv, PullBoot PROVE Sm!Boot
<1>1. /\ PioTypeOK /\ running /\ pc = 1 /\ x = DefaultGain
      /\ PullNoblock(clk) /\ chip' = chip
  BY DEF PioInv, FrameFits, PullBoot, At
<1>2. /\ osr' = (IF tx = <<>> THEN x ELSE Head(tx))
      /\ tx' = (IF tx = <<>> THEN tx ELSE Tail(tx))
      /\ pc' = 2 /\ UNCHANGED <<running, x, rx, clk>>
  <2>1. clk \in BOOLEAN
    BY <1>1, TypeParts
  <2>2. /\ osr' = (IF tx = <<>> THEN x ELSE Head(tx))
        /\ tx' = (IF tx = <<>> THEN tx ELSE Tail(tx))
        /\ pc' = pc + 1 /\ UNCHANGED <<running, x, rx, clk>>
    BY <1>1, <2>1, PullFacts, Zenon
  <2> QED
    BY <1>1, <2>2
<1>3. PhaseAt = "boot" /\ PhaseAt' = "wait"
  BY <1>1, <1>2, PhaseFacts
<1>4. XAt' = osr'
  BY <1>2 DEF XAt
<1>5. HeldAt' = HeldAt /\ ChipAt' = ChipAt
  BY <1>1, <1>2, <1>3, Zenon DEF HeldAt, ChipAt
<1> QED
  BY <1>1, <1>2, <1>3, <1>4, <1>5 DEF Sm!Boot, Sm!PullInto

LEMMA BeginSm == ASSUME PioInv, SetPins, BeforeBits PROVE Sm!Begin
<1>1. /\ PioTypeOK /\ running /\ pc = 5 /\ isr = <<>> /\ pc' = 6
      /\ chip.on /\ chip.frame # "converting"
      /\ UNCHANGED <<running, x, isr, tx, rx>>
  BY DEF PioInv, FrameFits, BeforeBits, SetPins, At
<1>2. chip' = SetHighFirst
  BY <1>1 DEF SetPins
<1>3. /\ chip'.on = chip.on /\ chip'.gain = chip.gain /\ chip'.frame \in {"clocked", "torn"}
      /\ chip.frame = "ready" => (chip'.frame = "clocked" <=> ~clk)
      /\ chip.frame = "clocked" /\ ~clk => chip'.frame = "torn"
  BY <1>1, <1>2, FirstEdgeFacts, TypeParts DEF PioInv
<1>4. PhaseAt = "wait" /\ PhaseAt' = "shift"
  BY <1>1, PhaseFacts
<1>5. HeldAt' = FALSE /\ (HeldAt <=> clk) /\ HeldAt \in BOOLEAN
  <2>1. clk \in BOOLEAN
    BY <1>1, TypeParts
  <2>2. HeldAt' = FALSE /\ (HeldAt <=> clk)
    BY <1>1, <1>4, HeldFacts
  <2> QED
    BY <2>1, <2>2, Zenon DEF HeldAt
<1>6. XAt' = XAt
  BY <1>1 DEF XAt
<1>7. /\ ChipAt.on /\ ChipAt.frame # "converting"
      /\ \E f \in {"clocked", "torn"} :
           /\ ChipAt.frame = "ready" => (f = "clocked") = ~HeldAt
           /\ ChipAt.frame = "clocked" /\ ~HeldAt => f = "torn"
           /\ ChipAt' = [ChipAt EXCEPT !.frame = f]
  <2>1. PICK f \in {"clocked", "torn"} : f = chip'.frame
    BY <1>3
  <2>2. ChipAt' = [on |-> chip.on, gain |-> chip.gain, frame |-> f]
    BY <1>3, <2>1, ChipFacts
  <2>4. /\ ChipAt.frame = "ready" => (f = "clocked") = ~HeldAt
        /\ ChipAt.frame = "clocked" /\ ~HeldAt => f = "torn"
    BY <1>3, <1>5, <2>1, ChipFacts
  <2>3. [ChipAt EXCEPT !.frame = f] = [on |-> chip.on, gain |-> chip.gain, frame |-> f]
    BY ChipEdits, Zenon
  <2> QED
    BY <1>1, <2>2, <2>3, <2>4, ChipFacts
<1> QED
  BY <1>1, <1>4, <1>5, <1>6, <1>7 DEF Sm!Begin

\* The word that is pushed is whole if the chip was clocked out from its first
\* bit, and only then.
LEMMA PushSm == ASSUME PioInv, InPinsPush PROVE Sm!Push
<1>1. /\ PioTypeOK /\ running /\ pc = 6 /\ pc' = 7 /\ isr' = <<>> /\ Len(rx) < Depth
      /\ UNCHANGED <<running, x, tx>> /\ chip' \in Woken(chip)
  BY DEF PioInv, InPinsPush, At
<1>2. /\ rx' = Append(rx, [gain |-> chip.gain, whole |-> chip.frame = "clocked"])
  BY PushFacts
<1>3. PhaseAt = "shift" /\ PhaseAt' = "pull"
  BY <1>1, PhaseFacts
<1>4. HeldAt' = HeldAt
  BY <1>1, <1>3, HeldFacts
<1>5. XAt' = XAt
  BY <1>1 DEF XAt
<1>6. ChipAt' \in Sm!Woken(ChipAt)
  <2>1. CASE chip.on
    BY <1>1, <2>1, ChipFacts DEF Woken, Sm!Woken
  <2>2. CASE ~chip.on
    <3>1. PICK g \in {chip.gain, GainPulses(DefaultGain)} :
            chip' = [on |-> TRUE, gain |-> g, frame |-> "converting", pulses |-> 0]
      BY <1>1, <2>2 DEF Woken
    <3>2. ChipAt' = [on |-> TRUE, gain |-> g, frame |-> "converting"]
      BY <3>1, ChipFacts
    <3> QED
      BY <2>2, <3>1, <3>2, ChipFacts DEF Sm!Woken, Sm!GainPulses, GainPulses
  <2> QED
    BY <2>1, <2>2
<1> QED
  BY <1>1, <1>2, <1>3, <1>4, <1>5, <1>6, ChipFacts DEF Sm!Push

LEMMA PullSm == ASSUME PioInv, PullGain PROVE Sm!Pull
<1>1. /\ PioTypeOK /\ running /\ pc = 8 /\ PullNoblock(TRUE) /\ chip' = SetHigh
  BY DEF PioInv, PullGain, At
<1>2. /\ osr' = (IF tx = <<>> THEN x ELSE Head(tx))
      /\ tx' = (IF tx = <<>> THEN tx ELSE Tail(tx))
      /\ pc' = 9 /\ UNCHANGED <<running, x, rx>>
  <2>1. /\ osr' = (IF tx = <<>> THEN x ELSE Head(tx))
        /\ tx' = (IF tx = <<>> THEN tx ELSE Tail(tx))
        /\ pc' = pc + 1 /\ UNCHANGED <<running, x, rx>>
    BY <1>1, PullFacts, Zenon
  <2> QED
    BY <1>1, <2>1
<1>3. PhaseAt = "pull" /\ PhaseAt' = "gain"
  BY <1>1, <1>2, PhaseFacts
<1>4. XAt = x /\ XAt' = osr'
  BY <1>1, <1>2 DEF XAt
<1>5. HeldAt' = HeldAt
  BY <1>1, <1>2, <1>3, HeldFacts
<1>6. ChipAt' = ChipAt
  <2>1. chip \in ChipSet /\ ~clk /\ (chip.frame = "clocked" => chip.pulses < MaxPulses)
    <3>1. ~BeforeBits
      BY <1>1 DEF BeforeBits
    <3> QED
      BY <3>1, PulseRoom
  <2>2. chip'.on = chip.on /\ chip'.gain = chip.gain /\ chip'.frame = chip.frame
    BY <1>1, <2>1, LaterEdge
  <2> QED
    BY <2>2, ChipFacts
<1> QED
  BY <1>1, <1>2, <1>3, <1>4, <1>5, <1>6 DEF Sm!Pull, Sm!PullInto

\* The pulses of the frame that ends are those of the gain code in x.
LEMMA PulseSm == ASSUME PioInv, JmpNotX \/ GainLoop, pc' = 3 PROVE Sm!Pulse
<1>1. /\ PioTypeOK /\ running /\ pc \in {10, 13} /\ chip' \in FrameEnds
      /\ UNCHANGED <<running, x, isr, tx, rx>> /\ clk' = FALSE
  BY DEF PioInv, JmpNotX, GainLoop, LoopY, At
<1>2. PhaseAt = "gain" /\ PhaseAt' = "wait"
  BY <1>1, PhaseFacts
<1>3. HeldAt' = FALSE /\ HeldAt = FALSE
  <2>1. HeldAt = FALSE
    BY <1>1, <1>2, HeldFacts
  <2>2. HeldAt' = FALSE
    BY <1>1, Zenon DEF HeldAt
  <2> QED
    BY <2>1, <2>2
<1>4. XAt' = x /\ XAt = x
  BY <1>1 DEF XAt
<1>5. /\ chip' \in ChipSet /\ chip'.on = chip.on /\ chip'.frame = "converting"
      /\ chip \in ChipSet /\ chip.frame # "ready"
      /\ chip.frame = "clocked" => chip'.gain = Sm!GainPulses(x)
      /\ chip.frame = "converting" => chip' = chip
  <2>1. (pc = 10 /\ x = 0) \/ (pc = 13 /\ y = 0)
    <3>1. CASE JmpNotX
      BY <3>1 DEF JmpNotX, At
    <3>2. CASE GainLoop
      BY <3>2 DEF GainLoop, LoopY, At
    <3> QED
      BY <3>1, <3>2
  <2>2. chip \in ChipSet
    BY <1>1, TypeParts
  <2> QED
    BY <1>1, <2>1, <2>2, PulseFacts DEF Sm!GainPulses, GainPulses
<1>6. chip'.gain \in Sm!PulseCounts /\ chip.frame \in {"converting", "clocked", "torn"}
  BY <1>5 DEF ChipSet, PulseCounts, GainPulses, Sm!PulseCounts, Sm!GainPulses
<1>7. CASE chip.frame = "converting"
  <2>1. ChipAt' = ChipAt /\ ChipAt.frame = "converting"
    BY <1>5, <1>7, ChipFacts
  <2> QED
    BY <1>1, <1>2, <1>3, <1>4, <2>1 DEF Sm!Pulse
<1>8. CASE chip.frame \in {"clocked", "torn"}
  <2>1. ChipAt' = [ChipAt EXCEPT !.frame = "converting", !.gain = chip'.gain]
    <3>1. ChipAt' = [on |-> chip.on, gain |-> chip'.gain, frame |-> "converting"]
      BY <1>5, ChipFacts
    <3> QED
      BY <3>1, ChipEdits, Zenon
  <2>2. /\ ChipAt.frame = chip.frame
        /\ chip.frame = "clocked" =>
             ChipAt' = [ChipAt EXCEPT !.frame = "converting", !.gain = Sm!GainPulses(XAt)]
    BY <1>4, <1>5, <2>1, ChipFacts
  <2> QED
    BY <1>1, <1>2, <1>3, <1>4, <1>6, <1>8, <2>1, <2>2 DEF Sm!Pulse
<1> QED
  BY <1>6, <1>7, <1>8

\* A conversion completes only where the program is at rest, and a chip goes to
\* sleep only where ReaderSm lets it.
LEMMA ConvertSm == ASSUME PioInv, Convert PROVE Sm!Convert
<1>1. /\ PioTypeOK /\ chip.on /\ AtRest
      /\ chip' = [chip EXCEPT !.frame = "ready", !.pulses = 0]
      /\ UNCHANGED <<running, pc, x, osr, isr, tx, rx, clk>>
  BY DEF PioInv, Convert
<1>2. chip \in ChipSet /\ pc \in 0..13
  BY <1>1, TypeParts
<1>3. ~running \/ PhaseAt \in {"boot", "wait"}
  <2>1. pc <= 4 => pc \in 0..1 \/ pc \in 2..4
    BY <1>2
  <2> QED
    BY <1>1, <2>1, PhaseFacts DEF AtRest
<1>4. PhaseAt' = PhaseAt /\ XAt' = XAt
  BY <1>1 DEF PhaseAt, XAt
<1>5. HeldAt' = HeldAt
  BY <1>1, <1>4, Zenon DEF HeldAt
<1>6. ChipAt' = [ChipAt EXCEPT !.frame = "ready"] /\ ChipAt.on
  <2>1. chip'.on = chip.on /\ chip'.gain = chip.gain /\ chip'.frame = "ready"
    BY <1>1, <1>2 DEF ChipSet
  <2>2. ChipAt' = [on |-> chip.on, gain |-> chip.gain, frame |-> "ready"]
    BY <2>1, ChipFacts
  <2>3. [ChipAt EXCEPT !.frame = "ready"] = [on |-> chip.on, gain |-> chip.gain, frame |-> "ready"]
    BY ChipEdits, Zenon
  <2> QED
    BY <1>1, <2>2, <2>3, ChipFacts
<1> QED
  BY <1>1, <1>3, <1>4, <1>5, <1>6 DEF Sm!Convert

LEMMA SleepSm == ASSUME PioInv, Sleep PROVE Sm!Sleep(HeldAt \/ Sm!Stalled)
<1>1. /\ PioTypeOK /\ chip.on /\ clk /\ (~running \/ pc <= 4 \/ Stalled)
      /\ chip' = [chip EXCEPT !.on = FALSE]
      /\ UNCHANGED <<running, pc, x, osr, isr, tx, rx, clk>>
  BY DEF PioInv, Sleep
<1>2. chip \in ChipSet /\ pc \in 0..13
  BY <1>1, TypeParts
<1>3. HeldAt \/ Sm!Stalled
  <2>1. CASE ~running
    BY <1>1, <2>1, HeldFacts
  <2>2. CASE pc <= 4
    <3>1. PhaseAt \in {"boot", "wait"}
      <4>1. pc \in 0..1 \/ pc \in 2..4
        BY <1>2, <2>2
      <4> QED
        BY <4>1, PhaseFacts
    <3> QED
      BY <1>1, <3>1, HeldFacts
  <2>3. CASE Stalled
    BY <2>3, PhaseFacts DEF Stalled, Sm!Stalled
  <2> QED
    BY <1>1, <2>1, <2>2, <2>3
<1>4. PhaseAt' = PhaseAt /\ XAt' = XAt
  BY <1>1 DEF PhaseAt, XAt
<1>5. HeldAt' = HeldAt
  BY <1>1, <1>4, Zenon DEF HeldAt
<1>6. ChipAt' = [ChipAt EXCEPT !.on = FALSE] /\ ChipAt.on
  <2>1. chip'.on = FALSE /\ chip'.gain = chip.gain /\ chip'.frame = chip.frame
    BY <1>1, <1>2 DEF ChipSet
  <2>2. ChipAt' = [on |-> FALSE, gain |-> chip.gain, frame |-> chip.frame]
    BY <2>1, ChipFacts
  <2>3. [ChipAt EXCEPT !.on = FALSE] = [on |-> FALSE, gain |-> chip.gain, frame |-> chip.frame]
    BY ChipEdits, Zenon
  <2> QED
    BY <1>1, <2>2, <2>3, ChipFacts
<1> QED
  BY <1>1, <1>3, <1>4, <1>5, <1>6 DEF Sm!Sleep

\* What a core does to the FIFOs alone.
LEMMA FifoSm ==
  ASSUME PioInv, Drain \/ Get \/ \E g \in Gains : Put(g)
  PROVE  Sm!SmNext
<1>1. UNCHANGED <<running, pc, x, osr, isr, clk, chip>>
  BY DEF Drain, Get, Put
<1>2. PhaseAt' = PhaseAt /\ XAt' = XAt
  BY <1>1 DEF PhaseAt, XAt
<1>3. HeldAt' = HeldAt /\ ChipAt' = ChipAt
  BY <1>1, <1>2, Zenon DEF HeldAt, ChipAt
<1>4. CASE Drain
  BY <1>1, <1>2, <1>3, <1>4 DEF Drain, Sm!Drain, Sm!SmNext
<1>5. CASE Get
  BY <1>1, <1>2, <1>3, <1>5 DEF Get, Sm!Get, Sm!SmNext
<1>6. ASSUME NEW g \in Gains, Put(g) PROVE Sm!SmNext
  <2>1. tx = <<>> /\ tx' = Append(tx, g)
    BY <1>6 DEF Put
  <2> QED
    BY <1>1, <1>2, <1>3, <1>6, <2>1 DEF Put, Sm!Put, Sm!SmNext
<1> QED
  BY <1>4, <1>5, <1>6

\* hx711_init's pulse does to the chip what ReaderSm lets it do.
LEMMA PrepareSm ==
  ASSUME PioInv, Prepare
  PROVE  Sm!Prepare
<1>1. /\ ~running /\ tx' = <<>> /\ rx' = <<>> /\ chip' \in Pulsed(chip)
      /\ UNCHANGED <<running, pc, x, osr, isr, clk>>
  BY DEF Prepare
<1>2. PhaseAt' = PhaseAt /\ XAt' = XAt
  BY <1>1 DEF PhaseAt, XAt
<1>3. HeldAt' = HeldAt
  BY <1>1, <1>2, Zenon DEF HeldAt
<1>4. HeldAt <=> clk
  BY <1>1, HeldFacts
<1>5. chip \in ChipSet
  BY TypeParts DEF PioInv
<1>6. ChipAt' \in Sm!Pulsed(ChipAt)
  <2>1. CASE ~clk
    BY <1>1, <1>4, <2>1, ChipFacts DEF Pulsed, Sm!Pulsed
  <2>2. CASE clk
    <3>1. PICK d \in Woken(chip) :
            chip' = CASE d.frame = "ready" -> [d EXCEPT !.frame = "clocked", !.pulses = 1]
                      [] d.frame \in {"clocked", "torn"} /\ d.pulses < MaxPulses ->
                           [d EXCEPT !.pulses = @ + 1]
                      [] OTHER -> d
      BY <1>1, <2>2 DEF Pulsed
    <3>2. d \in ChipSet
      BY <1>5, WokenFacts
    <3>3. /\ chip'.on = d.on /\ chip'.gain = d.gain
          /\ chip'.frame = IF d.frame = "ready" THEN "clocked" ELSE d.frame
      BY <3>1, <3>2 DEF ChipSet
    <3>4. PICK r : r = [on |-> d.on, gain |-> d.gain, frame |-> d.frame]
      OBVIOUS
    <3>5. r \in Sm!Woken(ChipAt)
      <4>1. CASE chip.on
        BY <3>4, <4>1, ChipFacts DEF Woken, Sm!Woken
      <4>2. CASE ~chip.on
        <5>1. PICK g \in {chip.gain, GainPulses(DefaultGain)} :
                d = [on |-> TRUE, gain |-> g, frame |-> "converting", pulses |-> 0]
          BY <4>2 DEF Woken
        <5>2. r = [on |-> TRUE, gain |-> g, frame |-> "converting"]
          BY <3>4, <5>1
        <5> QED
          BY <4>2, <5>1, <5>2, ChipFacts DEF Sm!Woken, Sm!GainPulses, GainPulses
      <4> QED
        BY <4>1, <4>2
    <3>6. PICK f : f = IF d.frame = "ready" THEN "clocked" ELSE d.frame
      OBVIOUS
    <3>7. ChipAt' = [on |-> d.on, gain |-> d.gain, frame |-> f]
      BY <3>3, <3>6, ChipFacts
    <3>8. ChipAt' = [r EXCEPT !.frame = IF @ = "ready" THEN "clocked" ELSE @]
      BY <3>4, <3>6, <3>7
    <3> QED
      BY <1>4, <2>2, <3>5, <3>8 DEF Sm!Pulsed
  <2> QED
    BY <2>1, <2>2
<1> QED
  BY <1>1, <1>2, <1>3, <1>6 DEF Sm!Prepare

\* A stopped SM leaves its pin where ReaderSm may find it.
LEMMA LatchSm ==
  ASSUME PioInv, NEW h, h = clk
  PROVE  h \in Sm!LatchAfterStop
<1>1. PioTypeOK /\ SleepsHigh /\ clk \in BOOLEAN /\ running \in BOOLEAN
  BY TypeParts DEF PioInv
<1>2. CASE ~running \/ PhaseAt \in {"boot", "wait"}
  <2>1. HeldAt = clk
    BY <1>1, <1>2, Zenon DEF HeldAt
  <2> QED
    BY <1>2, <2>1 DEF Sm!LatchAfterStop
<1>3. CASE ~(~running \/ PhaseAt \in {"boot", "wait"})
  <2>1. CASE ~chip.on
    BY <1>1, <1>3, <2>1, ChipFacts DEF SleepsHigh, Sm!LatchAfterStop
  <2>2. CASE chip.on
    BY <1>1, <1>3, <2>2, ChipFacts DEF Sm!LatchAfterStop
  <2> QED
    BY <2>1, <2>2
<1> QED
  BY <1>2, <1>3

LEMMA StartSm ==
  ASSUME PioInv, NEW g \in Gains, Start(g)
  PROVE  Sm!Start(g)
<1>1. /\ running' = TRUE /\ pc' = 0 /\ tx' = <<g>> /\ rx' = <<>> /\ UNCHANGED <<clk, chip>>
  BY DEF Start
<1>2. PhaseAt' = "boot"
  BY <1>1, PhaseFacts
<1>3. XAt' = DefaultGain
  BY <1>1 DEF XAt
<1>4. HeldAt' = clk
  <2>1. clk' \in BOOLEAN
    BY InvStep, TypeParts DEF PioInv, Next, Core
  <2> QED
    BY <1>1, <1>2, <2>1, Zenon DEF HeldAt
<1>5. HeldAt' \in Sm!LatchAfterStop
  BY <1>4, LatchSm
<1>6. ChipAt' = ChipAt
  BY <1>1, ChipFacts
<1> QED
  BY <1>1, <1>2, <1>3, <1>5, <1>6 DEF Sm!Start

LEMMA StopSm ==
  ASSUME PioInv, Stop
  PROVE  Sm!Stop
<1>1. running' = FALSE /\ UNCHANGED <<pc, x, y, osr, isr, tx, rx, clk, chip>>
  BY DEF Stop
<1>2. PhaseAt' = PhaseAt /\ XAt' = XAt
  BY <1>1 DEF PhaseAt, XAt
<1>3. HeldAt' = clk
  <2>1. clk \in BOOLEAN
    BY TypeParts DEF PioInv
  <2> QED
    BY <1>1, <2>1, Zenon DEF HeldAt
<1>4. HeldAt' \in Sm!LatchAfterStop
  BY <1>3, LatchSm
<1>5. ChipAt' = ChipAt
  BY <1>1, ChipFacts
<1> QED
  BY <1>1, <1>2, <1>4, <1>5 DEF Sm!Stop

LEMMA StepSm ==
  ASSUME PioInv, [Next]_vars
  PROVE  [Sm!SmNext]_(Sm!smVars)
<1>1. CASE UNCHANGED vars
  <2>1. UNCHANGED <<running, pc, x, osr, isr, tx, rx, clk, chip>>
    BY <1>1 DEF vars
  <2>2. PhaseAt' = PhaseAt /\ XAt' = XAt
    BY <2>1 DEF PhaseAt, XAt
  <2>3. HeldAt' = HeldAt /\ ChipAt' = ChipAt
    BY <2>1, <2>2, Zenon DEF HeldAt, ChipAt
  <2> QED
    BY <2>1, <2>2, <2>3 DEF Sm!smVars
<1>2. CASE SetX \/ OutX \/ SetY \/ WaitLow \/ MovYX
  BY <1>2, SetXSm, Zenon
<1>3. CASE InPins \/ BitLoop \/ (SetPins /\ ~BeforeBits) \/ ((JmpNotX \/ GainLoop) /\ pc' # 3)
  BY <1>3, LoopSm, Zenon
<1>4. CASE PullBoot \/ (SetPins /\ BeforeBits) \/ InPinsPush \/ PullGain
           \/ ((JmpNotX \/ GainLoop) /\ pc' = 3)
  BY <1>4, BootSm, BeginSm, PushSm, PullSm, PulseSm, Zenon DEF Sm!SmNext, Sm!SmProgram
<1>5. CASE Convert
  BY <1>5, ConvertSm, Zenon DEF Sm!SmNext
<1>6. CASE Sleep
  BY <1>6, SleepSm, Zenon DEF Sm!SmNext
<1>7. CASE Core
  <2>1. CASE Drain \/ Get \/ \E g \in Gains : Put(g)
    BY <2>1, FifoSm, Zenon
  <2>4. CASE Prepare
    BY <2>4, PrepareSm, Zenon DEF Sm!SmNext
  <2>2. CASE Stop
    BY <2>2, StopSm, Zenon DEF Sm!SmNext
  <2>3. ASSUME NEW g \in Gains, Start(g) PROVE Sm!SmNext
    BY <2>3, StartSm, Zenon DEF Sm!SmNext
  <2> QED
    BY <1>7, <2>1, <2>2, <2>3, <2>4, Zenon DEF Core
<1> QED
  BY <1>1, <1>2, <1>3, <1>4, <1>5, <1>6, <1>7, Zenon DEF Next, Exec

\* Whatever the registers, the pulses and the order of the core's calls, the
\* program (hx711_reader.pio:74-168) takes only the steps of ReaderSm: a word is
\* whole unless its frame was torn, a full FIFO holds the push back, and one pulse
\* follows the bits for code 0 and code + 2 for any other that was pulled last.
\* This is ImplementsReaderSm but for the fairness of ReaderSm.
THEOREM StepsOfReaderSm == Spec => Sm!SmInit /\ [][Sm!SmNext]_(Sm!smVars)
<1>1. PioInv /\ [Next]_vars => [Sm!SmNext]_(Sm!smVars)
  BY StepSm
<1> QED
  BY <1>1, InitSm, PioInvariant, PTL DEF Spec

=============================================================================

--------------------------- MODULE MultiPio_proofs ---------------------------
(***************************************************************************)
(* Proofs about MultiPio for any number of chips, any gain codes, any      *)
(* number of bits, any FIFO depth, any width of the registers and any      *)
(* ratio of the two clocks: a frame begins only when no chip converts, and *)
(* each step is one of MultiSm or none.                                    *)
(***************************************************************************)
EXTENDS MultiPio, SequenceFacts, SequenceTheorems, TLAPS

USE MultiPioAssumption

-----------------------------------------------------------------------------
(* Registers and chips. *)

\* `jmp y--` wraps at zero.
LEMMA DownFacts ==
  ASSUME NEW n \in 0..(WordMod - 1)
  PROVE  (n - 1) % WordMod = IF n = 0 THEN WordMod - 1 ELSE n - 1
  OBVIOUS

Frames == {"converting", "ready", "clocked", "torn", "asleep"}

ChipSet == [gain : PulseCounts, pulses : 0..MaxPulses, frame : Frames]

\* The program's pulses for its gain codes.
LEMMA CountFacts ==
  /\ \A g \in Gains : g \in Nat /\ GainPulses(g) \in PulseCounts
  /\ \A p \in PulseCounts : p \in Nat
  BY DEF PulseCounts, GainPulses

\* PioTypeOK, variable by variable.
LEMMA TypeParts ==
  /\ PioTypeOK <=>
       /\ en \in BOOLEAN /\ ready \in BOOLEAN /\ clk \in BOOLEAN /\ flag \in BOOLEAN
       /\ tick \in 0..Div /\ apc \in {0, 4, 6} /\ frame \in 0..1
       /\ rpc \in 0..18 /\ x \in Gains /\ osr \in Gains \cup {0} /\ y \in 0..(WordMod - 1)
       /\ isr \in Word /\ tx \in Seq(Gains) /\ Len(tx) <= 1
       /\ rx \in Seq(Word) /\ Len(rx) <= Depth
       /\ chip \in [Chips -> ChipSet]
  /\ PioTypeOK' <=>
       /\ en' \in BOOLEAN /\ ready' \in BOOLEAN /\ clk' \in BOOLEAN /\ flag' \in BOOLEAN
       /\ tick' \in 0..Div /\ apc' \in {0, 4, 6} /\ frame' \in 0..1
       /\ rpc' \in 0..18 /\ x' \in Gains /\ osr' \in Gains \cup {0} /\ y' \in 0..(WordMod - 1)
       /\ isr' \in Word /\ tx' \in Seq(Gains) /\ Len(tx') <= 1
       /\ rx' \in Seq(Word) /\ Len(rx') <= Depth
       /\ chip' \in [Chips -> ChipSet]
<1>1. Word' = Word
  BY DEF Word
<1> QED
  BY <1>1 DEF PioTypeOK, ChipSet, Frames

\* The fields of a chip.
LEMMA ChipTypes ==
  ASSUME chip \in [Chips -> ChipSet], NEW c \in Chips
  PROVE  /\ chip[c] \in ChipSet /\ chip[c].gain \in PulseCounts /\ chip[c].pulses \in Nat
         /\ chip[c].pulses \in 0..MaxPulses /\ chip[c].frame \in Frames
  BY DEF ChipSet, MaxPulses

\* The first edge of a frame begins it, or tears one that was left half clocked out.
LEMMA FirstEdgeFacts ==
  ASSUME chip \in [Chips -> ChipSet], NEW e, e = FirstSetHigh
  PROVE  /\ e \in [Chips -> ChipSet]
         /\ \A c \in Chips :
              /\ e[c].gain = chip[c].gain
              /\ chip[c].frame # "converting" => e[c].frame \in {"clocked", "torn"}
              /\ chip[c].frame # "converting" /\ e[c].frame = "clocked" =>
                   /\ e[c].pulses = 1
                   /\ chip[c].frame = IF clk THEN "clocked" ELSE "ready"
              /\ chip[c].frame = "ready" /\ ~clk => e[c].frame = "clocked"
<1>1. 0 \in 0..MaxPulses /\ 1 \in 0..MaxPulses /\ {"clocked", "torn"} \subseteq Frames
  BY DEF MaxPulses, Frames
<1>2. ASSUME NEW c \in Chips
      PROVE  /\ e[c] \in ChipSet /\ e[c].gain = chip[c].gain
             /\ chip[c].frame # "converting" => e[c].frame \in {"clocked", "torn"}
             /\ chip[c].frame # "converting" /\ e[c].frame = "clocked" =>
                  /\ e[c].pulses = 1
                  /\ chip[c].frame = IF clk THEN "clocked" ELSE "ready"
             /\ chip[c].frame = "ready" /\ ~clk => e[c].frame = "clocked"
  <2>1. chip[c] \in ChipSet /\ chip[c].frame \in Frames
    BY ChipTypes
  <2>2. CASE chip[c].frame = "ready" /\ ~clk
    <3>1. e[c] = [chip[c] EXCEPT !.frame = "clocked", !.pulses = 1]
      BY <2>2 DEF FirstSetHigh
    <3> QED
      BY <1>1, <2>1, <2>2, <3>1 DEF ChipSet
  <2>3. CASE chip[c].frame = "clocked" /\ chip[c].pulses = 1 /\ clk
    <3>1. e[c] = chip[c]
      BY <2>3 DEF FirstSetHigh
    <3> QED
      BY <2>1, <2>3, <3>1
  <2>4. CASE chip[c].frame = "converting"
    <3>1. e[c] = chip[c]
      BY <2>4 DEF FirstSetHigh
    <3> QED
      BY <2>1, <2>4, <3>1
  <2>5. CASE /\ ~(chip[c].frame = "ready" /\ ~clk)
             /\ ~(chip[c].frame = "clocked" /\ chip[c].pulses = 1 /\ clk)
             /\ chip[c].frame # "converting"
    <3>1. e[c] = [chip[c] EXCEPT !.frame = "torn", !.pulses = 0]
      BY <2>5 DEF FirstSetHigh
    <3> QED
      BY <1>1, <2>1, <2>5, <3>1 DEF ChipSet
  <2> QED
    BY <2>2, <2>3, <2>4, <2>5
<1>3. e = [c \in Chips |-> e[c]]
  BY DEF FirstSetHigh
<1> QED
  BY <1>2, <1>3

\* A later edge only counts.
LEMMA LaterEdgeFacts ==
  ASSUME chip \in [Chips -> ChipSet], NEW e, e = RisingEdge,
         \A c \in Chips : chip[c].frame = "clocked" => chip[c].pulses < MaxPulses
  PROVE  /\ e \in [Chips -> ChipSet]
         /\ \A c \in Chips :
              /\ e[c].gain = chip[c].gain /\ e[c].frame = chip[c].frame
              /\ chip[c].frame = "clocked" => e[c].pulses = chip[c].pulses + 1
<1>1. MaxPulses \in Nat
  BY DEF MaxPulses
<1>2. ASSUME NEW c \in Chips
      PROVE  /\ e[c] \in ChipSet
             /\ e[c].gain = chip[c].gain /\ e[c].frame = chip[c].frame
             /\ chip[c].frame = "clocked" => e[c].pulses = chip[c].pulses + 1
  <2>1. chip[c] \in ChipSet /\ chip[c].pulses \in 0..MaxPulses
    BY ChipTypes
  <2>2. CASE chip[c].frame = "clocked"
    <3>1. e[c] = [chip[c] EXCEPT !.pulses = @ + 1]
      BY <2>2 DEF RisingEdge
    <3>2. chip[c].pulses + 1 \in 0..MaxPulses
      BY <1>1, <2>1, <2>2
    <3> QED
      BY <2>1, <2>2, <3>1, <3>2 DEF ChipSet
  <2>3. CASE chip[c].frame # "clocked"
    <3>1. e[c] = chip[c]
      BY <2>3 DEF RisingEdge
    <3> QED
      BY <2>1, <2>3, <3>1
  <2> QED
    BY <2>2, <2>3
<1>3. e = [c \in Chips |-> e[c]]
  BY DEF RisingEdge
<1> QED
  BY <1>2, <1>3

\* After the last pulse all chips convert, the ones that were not torn with the
\* gain their pulses select.
LEMMA EndFacts ==
  ASSUME NEW e \in FrameEnds,
         \A c \in Chips : chip[c].frame = "clocked" => chip[c].pulses - Bits \in PulseCounts
  PROVE  /\ e \in [Chips -> ChipSet]
         /\ \A c \in Chips :
              /\ e[c].frame = "converting" /\ e[c].gain \in PulseCounts
              /\ chip[c].frame = "clocked" => e[c].gain = chip[c].pulses - Bits
<1>1. 0 \in 0..MaxPulses /\ "converting" \in Frames
  BY DEF MaxPulses, Frames
<1>2. PICK g \in [Chips -> PulseCounts] :
        e = [c \in Chips |-> [gain |-> IF chip[c].frame = "clocked" THEN chip[c].pulses - Bits
                                       ELSE g[c],
                              pulses |-> 0, frame |-> "converting"]]
  BY DEF FrameEnds
<1>3. ASSUME NEW c \in Chips
      PROVE  /\ e[c] \in ChipSet /\ e[c].frame = "converting" /\ e[c].gain \in PulseCounts
             /\ chip[c].frame = "clocked" => e[c].gain = chip[c].pulses - Bits
  <2>1. PICK p : p = IF chip[c].frame = "clocked" THEN chip[c].pulses - Bits ELSE g[c]
    OBVIOUS
  <2>2. e[c] = [gain |-> p, pulses |-> 0, frame |-> "converting"]
    BY <1>2, <2>1
  <2>3. p \in PulseCounts
    BY <1>2, <2>1
  <2> QED
    BY <1>1, <2>1, <2>2, <2>3 DEF ChipSet
<1> QED
  BY <1>2, <1>3

-----------------------------------------------------------------------------
(* The invariant. *)

LEMMA InitInv == Init => PioInv
<1> SUFFICES ASSUME Init PROVE PioInv
  OBVIOUS
<1>1. chip \in [Chips -> ChipSet]
  <2>1. 0 \in 0..MaxPulses /\ 1 \in 0..MaxPulses
    BY DEF MaxPulses
  <2>2. CASE chip \in [Chips -> [gain : {GainPulses(DefaultGain)}, pulses : {0},
                                 frame : {"converting", "ready"}]]
    <3>1. ASSUME NEW c \in Chips PROVE chip[c] \in ChipSet
      <4>1. chip[c] \in [gain : {GainPulses(DefaultGain)}, pulses : {0},
                         frame : {"converting", "ready"}]
        BY <2>2
      <4> QED
        BY <2>1, <4>1, CountFacts DEF ChipSet, Frames
    <3> QED
      BY <2>2, <3>1
  <2>3. CASE chip = [c \in Chips |-> [gain |-> GainPulses(DefaultGain), pulses |-> 1,
                                      frame |-> "clocked"]]
    BY <2>1, <2>3, CountFacts DEF ChipSet, Frames
  <2> QED
    BY <2>2, <2>3 DEF Init
<1>2. isr \in Word
  BY CountFacts DEF Init, NullWord, Word, TornBit
<1>3. tx \in Seq(Gains) /\ Len(tx) <= 1 /\ rx \in Seq(Word) /\ Len(rx) <= Depth
  BY EmptyFacts DEF Init
<1>4. /\ en \in BOOLEAN /\ ready \in BOOLEAN /\ clk \in BOOLEAN /\ flag \in BOOLEAN
      /\ tick \in 0..Div /\ apc \in {0, 4, 6} /\ frame \in 0..1
      /\ rpc \in 0..18 /\ x \in Gains /\ osr \in Gains \cup {0} /\ y \in 0..(WordMod - 1)
  <2>1. en \in BOOLEAN /\ ready \in BOOLEAN /\ clk \in BOOLEAN /\ flag \in BOOLEAN
    BY Zenon DEF Init
  <2>2. /\ tick = 0 /\ apc = 0 /\ frame = 0 /\ rpc = 0 /\ x = DefaultGain /\ osr = 0 /\ y = 0
    BY DEF Init
  <2>3. /\ tick \in 0..Div /\ apc \in {0, 4, 6} /\ frame \in 0..1 /\ rpc \in 0..18
        /\ x \in Gains /\ osr \in Gains \cup {0} /\ y \in 0..(WordMod - 1)
    BY <2>2
  <2> QED
    BY <2>1, <2>3
<1>5. PioTypeOK
  BY <1>1, <1>2, <1>3, <1>4, TypeParts
<1> QED
  BY <1>5 DEF Init, PioInv

\* The awaiter, between two instructions of the reader: it comes nearer to the
\* step that lowers the flag as fast as the reader comes nearer to its wait.
LEMMA AwaiterInv ==
  ASSUME PioInv, Awaiter
  PROVE  PioInv'
<1>1. /\ PioTypeOK /\ en /\ (rpc \in {2, 14} => osr \in Gains)
      /\ AwaiterInTime /\ FrameFits /\ RegistersFit /\ PulsesCounted /\ ClockLow
  BY DEF PioInv, Awaiter, Sample, ClearReady, SetReady, AwaiterAt
<1>2. /\ UNCHANGED <<en, readerVars, flag, chip, frame>>
      /\ tick' = (IF tick < Div THEN tick + 1 ELSE tick)
  BY DEF Awaiter, Sample, ClearReady, SetReady, AwaiterAt
<1>3. UNCHANGED <<rpc, x, y, osr, isr, tx, rx, clk>>
  BY <1>2 DEF readerVars
<1>4. tick \in 0..Div /\ apc \in {0, 4, 6} /\ rpc \in 0..18
  BY <1>1, TypeParts
<1>5. tick' \in 0..Div
  BY <1>2, <1>4
<1>6. /\ apc' \in {0, 4, 6}
      /\ ready' \in BOOLEAN
  <2>1. apc' \in {0, 4, 6}
    BY DEF Awaiter, Sample, ClearReady, SetReady
  <2>2. ready' \in BOOLEAN
    <3>1. ready \in BOOLEAN /\ ready' \in {ready, TRUE, FALSE}
      BY <1>1, TypeParts, Zenon DEF Awaiter, Sample, ClearReady, SetReady
    <3> QED
      BY <3>1, Zenon
  <2> QED
    BY <2>1, <2>2
<1>7. PioTypeOK'
  BY <1>1, <1>2, <1>3, <1>5, <1>6, TypeParts
<1>8. AwaiterInTime'
  <2>1. High' = High
    BY <1>2 DEF High
  <2>2. CASE High = {}
    BY <2>1, <2>2 DEF AwaiterInTime
  <2>3. CASE High # {} /\ Sample
    <3>1. apc = 0 /\ apc' = 4 /\ ready' = ready
      <4>1. \A pins \in PinLevels : pins # {}
        BY <2>3 DEF PinLevels
      <4> QED
        BY <2>3, <4>1 DEF Sample, AwaiterAt
    <3>2. rpc <= 6 /\ ready => Margin' >= Margin - 1 /\ Lag = 2 /\ Lag' = 1
      BY <1>2, <1>3, <1>4, <3>1 DEF Margin, Lag
    <3>3. rpc <= 6 /\ ready => Lag <= Margin
      BY <1>1, <2>3 DEF AwaiterInTime
    <3>4. rpc <= 6 /\ ready => Lag' <= Margin'
      BY <1>2, <1>3, <1>4, <3>1, <3>3 DEF Margin, Lag
    <3> QED
      BY <1>3, <3>1, <3>4 DEF AwaiterInTime
  <2>4. CASE ClearReady
    <3>1. ready' = FALSE /\ apc' = 0
      BY <2>4 DEF ClearReady
    <3> QED
      BY <3>1 DEF AwaiterInTime
  <2>5. CASE High # {} /\ SetReady
    <3>1. apc = 6 /\ apc' = 0
      BY <2>5 DEF SetReady, AwaiterAt
    <3>2. rpc <= 6 => Lag <= Margin
      BY <1>1, <2>5, <3>1 DEF AwaiterInTime
    <3>3. rpc <= 6 => Lag' <= Margin'
      BY <1>2, <1>3, <1>4, <3>1, <3>2 DEF Margin, Lag
    <3> QED
      BY <1>3, <3>3 DEF AwaiterInTime
  <2> QED
    BY <2>2, <2>3, <2>4, <2>5 DEF Awaiter
<1>9. FrameFits' /\ PulsesCounted' /\ ClockLow'
  BY <1>1, <1>2, <1>3 DEF FrameFits, PulsesCounted, FirstEdge, Pulses, ClockLow
<1>10. RegistersFit'
  <2>1. \A c \in Chips : DataBit(c)' = DataBit(c)
    BY <1>2 DEF DataBit
  <2> QED
    BY <1>1, <1>2, <1>3, <2>1 DEF RegistersFit, NullWord
<1> QED
  BY <1>1, <1>3, <1>7, <1>8, <1>9, <1>10 DEF PioInv

\* An instruction of the reader, if it is the next one, or the end of a frame.
LEMMA ReaderInTime ==
  ASSUME PioTypeOK, AwaiterInTime, tick = Div, tick' = 0, apc' = apc,
         ready' = ready \/ ready' = FALSE, rpc' \in 0..18,
         rpc' > 6 \/ rpc' = 3 \/ (rpc' \in {rpc, rpc + 1} /\ chip' = chip)
  PROVE  AwaiterInTime'
<1>1. tick \in 0..Div /\ apc \in {0, 4, 6} /\ rpc \in 0..18
  BY TypeParts
<1>2. CASE rpc' > 6
  BY <1>1, <1>2 DEF AwaiterInTime
<1>3. CASE rpc' = 3
  <2>1. Lag' <= 3 /\ Margin' = 4
    BY <1>1, <1>3 DEF Lag, Margin
  <2>2. Lag' <= Margin'
    BY <1>1, <2>1 DEF Lag
  <2> QED
    BY <2>2 DEF AwaiterInTime
<1>4. CASE rpc' \in {rpc, rpc + 1} /\ chip' = chip /\ rpc' <= 6
  <2>1. Lag' = Lag /\ Margin' >= Margin /\ Lag \in 1..3 /\ Margin \in Int /\ Margin' \in Int
    BY <1>1, <1>4 DEF Lag, Margin
  <2>2. High' = High
    BY <1>4 DEF High
  <2>3. rpc <= 6
    BY <1>1, <1>4
  <2>4. (ready' \/ apc' = 6) => High' = {} \/ Lag' <= Margin'
    <3>1. SUFFICES ASSUME ready' \/ apc' = 6, High # {} PROVE Lag' <= Margin'
      BY <2>2
    <3>2. Lag <= Margin
      BY <2>3, <3>1 DEF AwaiterInTime
    <3> QED
      BY <2>1, <3>2
  <2> QED
    BY <2>4 DEF AwaiterInTime
<1> QED
  BY <1>1, <1>2, <1>3, <1>4

\* A word of bits is one.
LEMMA InBitsType ==
  ASSUME PioTypeOK
  PROVE  /\ NullWord \in Word
         /\ [bit |-> [c \in Chips |-> DataBit(c)], frame |-> frame,
             gain |-> [c \in Chips |-> chip[c].gain]] \in Word
<1>1. /\ chip \in [Chips -> ChipSet] /\ frame \in 0..1
  BY TypeParts
<1>2. ASSUME NEW c \in Chips PROVE DataBit(c) \in 0..TornBit
  <2>1. chip[c].pulses \in Nat
    BY <1>1, ChipTypes
  <2> QED
    BY <2>1 DEF DataBit, TornBit
<1>3. \A c \in Chips : chip[c].gain \in PulseCounts
  BY <1>1, ChipTypes
<1>4. [c \in Chips |-> DataBit(c)] \in [Chips -> 0..TornBit]
  BY <1>2
<1>5. [c \in Chips |-> chip[c].gain] \in [Chips -> PulseCounts]
  BY <1>3
<1>6. NullWord \in Word
  BY CountFacts DEF NullWord, Word, TornBit
<1> QED
  BY <1>1, <1>4, <1>5, <1>6 DEF Word

\* What all instructions of the reader have in common.
LEMMA ReaderFacts ==
  ASSUME PioInv, Reader
  PROVE  /\ PioTypeOK /\ en /\ en' = en /\ tick = Div /\ tick' = 0 /\ apc' = apc
         /\ rpc \in {2, 14} => osr \in Gains
         /\ AwaiterInTime /\ FrameFits /\ RegistersFit /\ PulsesCounted /\ ClockLow
<1>1. en /\ en' = en /\ tick = Div /\ tick' = 0 /\ apc' = apc
  BY Zenon DEF Reader, SetX, PullBoot, OutX, SetY, InNull, PushNoblock, WaitReady, WaitStalls,
     ClearDone, SetPins, InBits, BitLoop, SetDone, PullGain, JmpNotX, MovYX, GainLoop,
     LoopY, PullNoblock, ReaderAt
<1> QED
  BY <1>1 DEF PioInv

\* The instructions that change neither a FIFO nor a chip, but for the bit loop.
LEMMA PlainInv ==
  ASSUME PioInv, SetX \/ OutX \/ SetY \/ InNull \/ WaitReady \/ WaitStalls \/ ClearDone
                 \/ InBits \/ SetDone \/ MovYX
  PROVE  PioInv'
<1>1. /\ PioTypeOK /\ en /\ en' = en /\ tick = Div /\ tick' = 0 /\ apc' = apc
      /\ rpc \in {2, 14} => osr \in Gains
      /\ AwaiterInTime /\ FrameFits /\ RegistersFit /\ PulsesCounted /\ ClockLow
  BY ReaderFacts DEF Reader
<1>2. UNCHANGED <<chip, clk, tx, rx>>
  BY DEF SetX, OutX, SetY, InNull, WaitReady, WaitStalls, ClearDone, InBits, SetDone, MovYX,
     readerVars
<1>3. /\ tick \in 0..Div /\ apc \in {0, 4, 6} /\ frame \in 0..1
      /\ rpc \in 0..18 /\ x \in Gains /\ osr \in Gains \cup {0} /\ y \in 0..(WordMod - 1)
      /\ isr \in Word
  BY <1>1, TypeParts
<1>4. rpc' \in {rpc, rpc + 1} /\ rpc \in {0, 2, 3, 4, 6, 7, 9, 12, 14, 16}
  BY DEF SetX, OutX, SetY, InNull, WaitReady, WaitStalls, ClearDone, InBits, SetDone, MovYX,
     ReaderAt, readerVars
<1>5. ready' = ready \/ ready' = FALSE
  BY Zenon DEF SetX, OutX, SetY, InNull, WaitReady, WaitStalls, ClearDone, InBits, SetDone, MovYX
<1>6. rpc' \in 0..18
  BY <1>3, <1>4
<1>7. PioTypeOK'
  <2>1. ready' \in BOOLEAN /\ flag' \in BOOLEAN
    <3>1. ready \in BOOLEAN /\ flag \in BOOLEAN
      BY <1>1, TypeParts
    <3>2. flag' \in {flag, TRUE, FALSE}
      BY Zenon DEF SetX, OutX, SetY, InNull, WaitReady, WaitStalls, ClearDone, InBits, SetDone,
         MovYX
    <3> QED
      BY <1>5, <3>1, <3>2, Zenon
  <2>2. frame' \in 0..1
    BY <1>3 DEF SetX, OutX, SetY, InNull, WaitReady, WaitStalls, ClearDone, InBits, SetDone, MovYX
  <2>3. x' \in Gains /\ osr' \in Gains \cup {0} /\ y' \in 0..(WordMod - 1)
    BY <1>1, <1>3 DEF SetX, OutX, SetY, InNull, WaitReady, WaitStalls, ClearDone, InBits, SetDone,
       MovYX, ReaderAt, readerVars
  <2>4. isr' \in Word
    BY <1>1, <1>3, InBitsType DEF SetX, OutX, SetY, InNull, WaitReady, WaitStalls, ClearDone,
       InBits, SetDone, MovYX, readerVars
  <2> QED
    BY <1>1, <1>2, <1>3, <1>6, <2>1, <2>2, <2>3, <2>4, TypeParts
<1>8. AwaiterInTime'
  BY <1>1, <1>2, <1>4, <1>5, <1>6, ReaderInTime
<1>9. RegistersFit'
  <2>1. \A c \in Chips : DataBit(c)' = DataBit(c)
    BY <1>2 DEF DataBit
  <2>2. /\ rpc' = 1 => x' = DefaultGain
        /\ rpc' \in 4..7 => y' = Bits - 1
        /\ rpc' \in 8..11 => y' <= Bits - 1
        /\ rpc' \in 16..18 => x' # 0
        /\ rpc' \in 17..18 => y' <= x'
    BY <1>1, <1>3 DEF RegistersFit, SetX, OutX, SetY, InNull, WaitReady, WaitStalls, ClearDone,
       InBits, SetDone, MovYX, ReaderAt, readerVars
  <2>3. rpc' = 5 => isr' = NullWord
    BY <1>3 DEF SetX, OutX, SetY, InNull, WaitReady, WaitStalls, ClearDone,
       InBits, SetDone, MovYX, ReaderAt, readerVars
  <2>4. rpc' = 10 => /\ frame' = frame
                     /\ isr' = [bit |-> [c \in Chips |-> DataBit(c)], frame |-> frame,
                                gain |-> [c \in Chips |-> chip[c].gain]]
    BY <1>3 DEF SetX, OutX, SetY, InNull, WaitReady, WaitStalls, ClearDone,
       InBits, SetDone, MovYX, ReaderAt, readerVars
  <2>5. NullWord' = NullWord
    BY DEF NullWord
  <2> QED
    BY <1>2, <2>1, <2>2, <2>3, <2>4, <2>5 DEF RegistersFit
<1>10. FrameFits'
  <2>1. WaitReady => High = {}
    <3>1. WaitReady => rpc = 6 /\ ready
      BY DEF WaitReady, ReaderAt
    <3>2. rpc = 6 => Margin = 0 /\ Lag >= 1
      BY <1>1, <1>3 DEF Margin, Lag
    <3> QED
      BY <1>1, <1>3, <3>1, <3>2 DEF AwaiterInTime, Lag
  <2>2. rpc' = 7 => rpc = 6 /\ \A c \in Chips : chip[c].frame # "converting"
    <3>1. rpc' = 7 => WaitReady /\ rpc = 6
      BY <1>3 DEF SetX, OutX, SetY, InNull, WaitReady, WaitStalls, ClearDone, InBits, SetDone,
         MovYX, ReaderAt, readerVars
    <3> QED
      BY <2>1, <3>1 DEF High
  <2>3. rpc' = 8 => rpc = 7 /\ y' = Bits - 1
    BY <1>1, <1>4 DEF RegistersFit, SetX, OutX, SetY, InNull, WaitReady, WaitStalls, ClearDone,
       InBits, SetDone, MovYX, ReaderAt
  <2> QED
    BY <1>1, <1>2, <1>4, <2>2, <2>3 DEF FrameFits, FirstEdge
<1>11. PulsesCounted'
  <2>1. rpc' = 8 => rpc = 7 /\ y' = Bits - 1
    BY <1>1, <1>4 DEF RegistersFit, SetX, OutX, SetY, InNull, WaitReady, WaitStalls, ClearDone,
       InBits, SetDone, MovYX, ReaderAt
  <2>2. rpc' \in 9..18 => rpc \in 9..18 /\ Pulses' = Pulses
    BY <1>3, <1>4 DEF Pulses, SetX, OutX, SetY, InNull, WaitReady, WaitStalls, ClearDone,
       InBits, SetDone, MovYX, ReaderAt
  <2> QED
    BY <1>1, <1>2, <1>6, <2>1, <2>2 DEF PulsesCounted, FirstEdge
<1>12. rpc' \in {2, 14} => osr' \in Gains
  BY <1>4 DEF SetX, OutX, SetY, InNull, WaitReady, WaitStalls, ClearDone, InBits, SetDone,
     MovYX, ReaderAt
<1>13. ClockLow'
  BY <1>1, <1>2, <1>4 DEF ClockLow
<1> QED
  BY <1>7, <1>8, <1>9, <1>10, <1>11, <1>12, <1>13 DEF PioInv

\* What `pull noblock` leaves in the OSR and the FIFO.
LEMMA PullFacts ==
  ASSUME PioTypeOK, PullNoblock
  PROVE  /\ osr' \in Gains /\ tx' \in Seq(Gains) /\ Len(tx') <= 1
         /\ osr' = (IF tx = <<>> THEN x ELSE Head(tx))
         /\ tx' = (IF tx = <<>> THEN tx ELSE Tail(tx))
         /\ rpc' = rpc + 1 /\ UNCHANGED <<x, y, isr, rx>>
<1>1. x \in Gains /\ tx \in Seq(Gains) /\ Len(tx) <= 1
  BY TypeParts
<1>2. CASE tx = <<>>
  BY <1>1, <1>2 DEF PullNoblock
<1>3. CASE tx # <<>>
  BY <1>1, <1>3, TailFacts DEF PullNoblock
<1> QED
  BY <1>2, <1>3

LEMMA PullBootInv ==
  ASSUME PioInv, PullBoot
  PROVE  PioInv'
<1>1. /\ PioTypeOK /\ en /\ en' = en /\ tick = Div /\ tick' = 0 /\ apc' = apc
      /\ AwaiterInTime /\ FrameFits /\ RegistersFit /\ PulsesCounted /\ ClockLow
  BY ReaderFacts DEF Reader
<1>2. rpc = 1 /\ PullNoblock /\ UNCHANGED <<chip, clk, ready, flag, frame>>
  BY DEF PullBoot, ReaderAt, PullNoblock
<1>3. rpc' = 2 /\ osr' \in Gains /\ tx' \in Seq(Gains) /\ Len(tx') <= 1
      /\ UNCHANGED <<x, y, isr, rx>>
  BY <1>1, <1>2, PullFacts
<1>4. PioTypeOK'
  <2>1. tick' \in 0..Div /\ rpc' \in 0..18
    BY <1>1, <1>3
  <2> QED
    BY <1>1, <1>2, <1>3, <2>1, TypeParts
<1>5. AwaiterInTime'
  BY <1>1, <1>2, <1>3, ReaderInTime
<1>6. FrameFits' /\ RegistersFit' /\ PulsesCounted' /\ ClockLow'
  BY <1>3 DEF FrameFits, RegistersFit, PulsesCounted, FirstEdge, ClockLow
<1> QED
  BY <1>3, <1>4, <1>5, <1>6 DEF PioInv

\* A push leaves the FIFO within its limit.
LEMMA PushInv ==
  ASSUME PioInv, PushNoblock
  PROVE  PioInv'
<1>1. /\ PioTypeOK /\ en /\ en' = en /\ tick = Div /\ tick' = 0 /\ apc' = apc
      /\ AwaiterInTime /\ FrameFits /\ RegistersFit /\ PulsesCounted /\ ClockLow
  BY ReaderFacts DEF Reader
<1>2. /\ rpc \in {5, 10} /\ rpc' = rpc + 1
      /\ rx' = (IF Len(rx) < Depth THEN Append(rx, isr) ELSE rx) /\ isr' = NullWord
      /\ UNCHANGED <<x, y, osr, tx, chip, clk, ready, flag, frame>>
  BY DEF PushNoblock, ReaderAt
<1>3. rx \in Seq(Word) /\ Len(rx) <= Depth /\ isr \in Word /\ y \in 0..(WordMod - 1)
  BY <1>1, TypeParts
<1>4. rx' \in Seq(Word) /\ Len(rx') <= Depth
  BY <1>2, <1>3, AppendFacts
<1>5. PioTypeOK'
  <2>1. tick' \in 0..Div /\ rpc' \in 0..18
    BY <1>1, <1>2
  <2>2. isr' \in Word
    BY <1>1, <1>2, InBitsType
  <2> QED
    BY <1>1, <1>2, <1>4, <2>1, <2>2, TypeParts
<1>6. AwaiterInTime'
  BY <1>1, <1>2, ReaderInTime
<1>7. RegistersFit'
  BY <1>1, <1>2, <1>3 DEF RegistersFit
<1>8. FrameFits' /\ PulsesCounted'
  <2>1. CASE rpc = 5
    BY <1>2, <2>1 DEF FrameFits, FirstEdge, PulsesCounted
  <2>2. CASE rpc = 10
    <3>1. Pulses' = Pulses /\ rpc' = 11 /\ rpc \in 8..18 /\ ~FirstEdge
      BY <1>2, <2>2 DEF Pulses, FirstEdge
    <3> QED
      BY <1>1, <1>2, <3>1 DEF FrameFits, PulsesCounted, FirstEdge
  <2> QED
    BY <1>2, <2>1, <2>2
<1>9. ClockLow'
  BY <1>2 DEF ClockLow
<1> QED
  BY <1>1, <1>2, <1>5, <1>6, <1>7, <1>8, <1>9 DEF PioInv

LEMMA BitLoopInv ==
  ASSUME PioInv, BitLoop
  PROVE  PioInv'
<1>1. /\ PioTypeOK /\ en /\ en' = en /\ tick = Div /\ tick' = 0 /\ apc' = apc
      /\ AwaiterInTime /\ FrameFits /\ RegistersFit /\ PulsesCounted /\ ClockLow
  BY ReaderFacts DEF Reader
<1>2. y \in 0..(WordMod - 1) /\ y <= Bits - 1
  BY <1>1, TypeParts DEF RegistersFit, BitLoop, ReaderAt
<1>3. /\ rpc = 11 /\ rpc' = (IF y # 0 THEN 8 ELSE 12)
      /\ y' = (IF y = 0 THEN WordMod - 1 ELSE y - 1)
      /\ clk' = FALSE /\ UNCHANGED <<x, osr, isr, tx, rx, chip, ready, flag, frame>>
  BY <1>2, DownFacts DEF BitLoop, LoopY, ReaderAt
<1>4. PioTypeOK'
  <2>1. tick' \in 0..Div /\ rpc' \in 0..18
    BY <1>1, <1>3
  <2>2. y' \in 0..(WordMod - 1)
    BY <1>2, <1>3
  <2>3. clk' \in BOOLEAN
    BY <1>3, Zenon
  <2> QED
    BY <1>1, <1>3, <2>1, <2>2, <2>3, TypeParts
<1>5. AwaiterInTime'
  BY <1>1, <1>3, <1>4, ReaderInTime
<1>6. RegistersFit'
  BY <1>1, <1>2, <1>3 DEF RegistersFit
<1>7. FrameFits'
  BY <1>1, <1>2, <1>3 DEF FrameFits, FirstEdge
<1>8. PulsesCounted'
  <2>1. Pulses' = Pulses
    BY <1>2, <1>3 DEF Pulses
  <2> QED
    BY <1>1, <1>3, <2>1 DEF PulsesCounted, FirstEdge
<1>9. ClockLow'
  BY <1>3 DEF ClockLow
<1> QED
  BY <1>1, <1>3, <1>4, <1>5, <1>6, <1>7, <1>8, <1>9 DEF PioInv

\* A later edge of a frame finds each chip clocked or torn, with room for a pulse.
LEMMA PulseRoom ==
  ASSUME PioInv, SetPins \/ PullGain, ~FirstEdge
  PROVE  \A c \in Chips : /\ chip[c].frame \in {"clocked", "torn"}
                          /\ chip[c].frame = "clocked" =>
                               chip[c].pulses = Pulses /\ chip[c].pulses < MaxPulses
<1>1. PioTypeOK /\ FrameFits /\ RegistersFit /\ PulsesCounted
  BY ReaderFacts DEF Reader
<1>2. rpc \in {8, 13, 17}
  BY DEF SetPins, PullGain, ReaderAt
<1>3. x \in Gains /\ x \in Nat /\ x < WordMod /\ y \in 0..(WordMod - 1)
  BY <1>1, TypeParts
<1>4. Pulses < MaxPulses
  BY <1>2, <1>3 DEF Pulses, MaxPulses
<1>5. rpc \in 8..18
  BY <1>2
<1>6. \A c \in Chips : /\ chip[c].frame \in {"clocked", "torn"}
                       /\ chip[c].frame = "clocked" => chip[c].pulses = Pulses
  BY <1>1, <1>5, Zenon DEF FrameFits, PulsesCounted
<1> QED
  BY <1>4, <1>6

\* The rising edges of the clock.
LEMMA EdgeInv ==
  ASSUME PioInv, SetPins \/ PullGain
  PROVE  PioInv'
<1>1. /\ PioTypeOK /\ en /\ en' = en /\ tick = Div /\ tick' = 0 /\ apc' = apc
      /\ AwaiterInTime /\ FrameFits /\ RegistersFit /\ PulsesCounted /\ ClockLow
  BY ReaderFacts DEF Reader
<1>2. x \in Gains /\ x \in Nat /\ y \in 0..(WordMod - 1) /\ chip \in [Chips -> ChipSet]
  BY <1>1, TypeParts
<1>3. /\ rpc \in {8, 13, 17} /\ rpc' = rpc + 1 /\ clk' = TRUE
      /\ UNCHANGED <<x, y, isr, rx, ready, flag, frame>>
  BY DEF SetPins, PullGain, PullNoblock, ReaderAt
<1>4. osr' \in Gains \cup {0} /\ tx' \in Seq(Gains) /\ Len(tx') <= 1
      /\ (rpc' = 14 => osr' \in Gains)
  <2>1. CASE SetPins
    BY <1>1, <2>1, TypeParts DEF SetPins, ReaderAt
  <2>2. CASE PullGain
    BY <1>1, <2>2, PullFacts DEF PullGain
  <2> QED
    BY <2>1, <2>2
<1>5. /\ chip' \in [Chips -> ChipSet]
      /\ \A c \in Chips : /\ chip'[c].frame \in {"clocked", "torn"}
                          /\ chip'[c].frame = "clocked" => chip'[c].pulses = Pulses'
  <2>1. CASE FirstEdge
    <3>1. SetPins /\ chip' = FirstSetHigh
      <4>1. SetPins
        BY <2>1 DEF FirstEdge, PullGain, ReaderAt
      <4> QED
        BY <2>1, <4>1, Zenon DEF SetPins, FirstEdge
    <3>2. Pulses' = 1
      BY <1>2, <1>3, <2>1 DEF FirstEdge, Pulses
    <3>3. \A c \in Chips : chip[c].frame # "converting"
      BY <1>1, <1>2, <2>1 DEF FrameFits
    <3> QED
      BY <1>2, <3>1, <3>2, <3>3, FirstEdgeFacts
  <2>2. CASE ~FirstEdge
    <3>1. chip' = RisingEdge
      BY <2>2, Zenon DEF SetPins, PullGain, FirstEdge
    <3>2. \A c \in Chips : /\ chip[c].frame \in {"clocked", "torn"}
                           /\ chip[c].frame = "clocked" =>
                                chip[c].pulses = Pulses /\ chip[c].pulses < MaxPulses
      BY <2>2, PulseRoom
    <3>3. Pulses' = Pulses + 1
      BY <1>2, <1>3 DEF Pulses
    <3> QED
      BY <1>2, <3>1, <3>2, <3>3, LaterEdgeFacts
  <2> QED
    BY <2>1, <2>2
<1>6. PioTypeOK'
  <2>1. tick' \in 0..Div /\ rpc' \in 0..18
    BY <1>1, <1>3
  <2>2. clk' \in BOOLEAN
    BY <1>3, Zenon
  <2> QED
    BY <1>1, <1>3, <1>4, <1>5, <2>1, <2>2, TypeParts
<1>7. AwaiterInTime'
  BY <1>1, <1>3, <1>6, ReaderInTime
<1>8. RegistersFit'
  BY <1>1, <1>3 DEF RegistersFit
<1>9. FrameFits' /\ PulsesCounted' /\ ClockLow'
  BY <1>3, <1>5 DEF FrameFits, FirstEdge, PulsesCounted, ClockLow
<1> QED
  BY <1>1, <1>3, <1>4, <1>6, <1>7, <1>8, <1>9 DEF PioInv

\* At the end of the pulses, a chip that was not torn has counted those of x.
LEMMA PulseFacts ==
  ASSUME PioInv, en, (rpc = 15 /\ x = 0) \/ (rpc = 18 /\ y = 0)
  PROVE  \A c \in Chips : /\ chip[c].frame \in {"clocked", "torn"}
                          /\ chip[c].frame = "clocked" =>
                               chip[c].pulses - Bits = GainPulses(x)
<1>1. PioTypeOK /\ FrameFits /\ RegistersFit /\ PulsesCounted
  BY DEF PioInv
<1>2. rpc \in 8..18 /\ ~FirstEdge
  BY DEF FirstEdge
<1>3. x \in Nat /\ (rpc = 18 => x # 0)
  <2>1. x \in Gains
    BY <1>1, TypeParts
  <2>2. rpc = 18 => x # 0
    BY <1>1 DEF RegistersFit
  <2> QED
    BY <2>1, <2>2
<1>4. Pulses - Bits = GainPulses(x)
  BY <1>3 DEF GainPulses, Pulses
<1>5. \A c \in Chips : /\ chip[c].frame \in {"clocked", "torn"}
                       /\ chip[c].frame = "clocked" => chip[c].pulses = Pulses
  BY <1>1, <1>2, Zenon DEF FrameFits, PulsesCounted
<1> QED
  BY <1>4, <1>5

\* The gain loop, and the ends of a frame.
LEMMA GainInv ==
  ASSUME PioInv, JmpNotX \/ GainLoop
  PROVE  PioInv'
<1>1. /\ PioTypeOK /\ en /\ en' = en /\ tick = Div /\ tick' = 0 /\ apc' = apc
      /\ AwaiterInTime /\ FrameFits /\ RegistersFit /\ PulsesCounted /\ ClockLow
  BY ReaderFacts DEF Reader
<1>2. x \in Nat /\ y \in 0..(WordMod - 1) /\ chip \in [Chips -> ChipSet]
  BY <1>1, TypeParts
<1>3. clk' = FALSE /\ UNCHANGED <<x, osr, isr, tx, rx, ready, flag, frame>> /\ rpc \in {15, 18}
  BY DEF JmpNotX, GainLoop, LoopY, ReaderAt
<1>4. y' \in 0..(WordMod - 1)
  BY <1>2, DownFacts DEF JmpNotX, GainLoop, LoopY
<1>5. CASE chip' \in FrameEnds /\ rpc' = 3
  <2>1. chip' \in [Chips -> ChipSet]
    <3>1. (rpc = 15 /\ x = 0) \/ (rpc = 18 /\ y = 0)
      BY <1>5 DEF JmpNotX, GainLoop, LoopY, ReaderAt
    <3>2. \A c \in Chips : chip[c].frame = "clocked" => chip[c].pulses - Bits = GainPulses(x)
      BY <1>1, <3>1, PulseFacts
    <3>3. GainPulses(x) \in PulseCounts
      BY <1>1, TypeParts, CountFacts
    <3> QED
      BY <1>5, <3>2, <3>3, EndFacts
  <2>2. PioTypeOK'
    <3>1. tick' \in 0..Div /\ rpc' \in 0..18
      BY <1>1, <1>5
    <3>2. clk' \in BOOLEAN
      BY <1>3, Zenon
    <3> QED
      BY <1>1, <1>3, <1>4, <2>1, <3>1, <3>2, TypeParts
  <2>3. AwaiterInTime'
    BY <1>1, <1>3, <1>5, ReaderInTime
  <2>4. FrameFits' /\ RegistersFit' /\ PulsesCounted' /\ ClockLow'
    BY <1>5 DEF FrameFits, FirstEdge, RegistersFit, PulsesCounted, ClockLow
  <2> QED
    BY <1>5, <2>2, <2>3, <2>4 DEF PioInv
<1>6. CASE chip' = chip /\ rpc' \in {16, 17}
  <2>1. PioTypeOK'
    <3>1. tick' \in 0..Div /\ rpc' \in 0..18
      BY <1>1, <1>6
    <3>2. clk' \in BOOLEAN
      BY <1>3, Zenon
    <3> QED
      BY <1>1, <1>3, <1>4, <1>6, <3>1, <3>2, TypeParts
  <2>2. AwaiterInTime'
    BY <1>1, <1>3, <1>6, <2>1, ReaderInTime
  <2>3. \/ rpc = 15 /\ rpc' = 16 /\ x # 0
        \/ rpc = 18 /\ rpc' = 17 /\ x # 0 /\ y' = y - 1 /\ y <= x
    BY <1>1, <1>2, <1>6, DownFacts DEF JmpNotX, GainLoop, LoopY, ReaderAt, RegistersFit
  <2>4. RegistersFit'
    BY <1>2, <1>3, <2>3 DEF RegistersFit
  <2>5. rpc \in 8..18 /\ ~FirstEdge /\ Pulses' = Pulses
    BY <1>2, <1>3, <2>3 DEF FirstEdge, Pulses
  <2>6. FrameFits' /\ PulsesCounted' /\ ClockLow'
    BY <1>1, <1>6, <2>5 DEF FrameFits, FirstEdge, PulsesCounted, ClockLow
  <2> QED
    BY <1>6, <2>1, <2>2, <2>4, <2>6 DEF PioInv
<1> QED
  BY <1>5, <1>6 DEF JmpNotX, GainLoop, LoopY

\* A conversion completes, and chips fall asleep, only where the program is at rest.
LEMMA AnyChipInv ==
  ASSUME PioInv, AnyChip
  PROVE  PioInv'
<1>1. chip \in [Chips -> ChipSet] /\ rpc \in 0..18 /\ PioTypeOK
  BY TypeParts DEF PioInv
<1>2. /\ en => rpc <= 6
      /\ UNCHANGED <<en, tick, apc, ready, readerVars, flag, frame>>
  <2>1. CASE Sleep
    <3>1. ~en \/ rpc = 6
      BY <2>1 DEF Sleep
    <3>2. en => rpc <= 6
      BY <3>1
    <3>3. UNCHANGED <<en, tick, apc, ready, readerVars, flag, frame>>
      BY <2>1 DEF Sleep
    <3> QED
      BY <3>2, <3>3, Zenon
  <2>2. ASSUME NEW c \in Chips, Convert(c)
        PROVE  /\ en => rpc <= 6
               /\ UNCHANGED <<en, tick, apc, ready, readerVars, flag, frame>>
    BY <2>2 DEF Convert, AtRest
  <2> QED
    BY <2>1, <2>2 DEF AnyChip
<1>3. UNCHANGED <<rpc, x, y, osr, isr, tx, rx, clk>>
  BY <1>2 DEF readerVars
<1>4. /\ chip' \in [Chips -> ChipSet]
      /\ \A d \in Chips : chip'[d] = chip[d] \/ chip'[d].frame \in {"ready", "asleep"}
  <2>1. 0 \in 0..MaxPulses /\ {"ready", "asleep"} \subseteq Frames
    BY DEF MaxPulses, Frames
  <2>2. ASSUME NEW c \in Chips, Convert(c)
        PROVE  /\ chip' \in [Chips -> ChipSet]
               /\ \A d \in Chips : chip'[d] = chip[d] \/ chip'[d].frame = "ready"
    <3>1. chip' = [chip EXCEPT ![c].frame = "ready", ![c].pulses = 0]
      BY <2>2 DEF Convert
    <3>2. ASSUME NEW d \in Chips
          PROVE  chip'[d] \in ChipSet /\ (chip'[d] = chip[d] \/ chip'[d].frame = "ready")
      BY <1>1, <2>1, <3>1 DEF ChipSet
    <3> QED
      BY <1>1, <3>1, <3>2
  <2>3. CASE Sleep
    <3>1. chip' = [d \in Chips |-> [chip[d] EXCEPT !.frame = "asleep", !.pulses = 0]]
      BY <2>3 DEF Sleep
    <3>2. ASSUME NEW d \in Chips
          PROVE  chip'[d] \in ChipSet /\ chip'[d].frame = "asleep"
      BY <1>1, <2>1, <3>1 DEF ChipSet
    <3> QED
      BY <3>1, <3>2
  <2> QED
    BY <2>2, <2>3 DEF AnyChip
<1>5. PioTypeOK'
  BY <1>1, <1>2, <1>3, <1>4, TypeParts
<1>6. High' \subseteq High
  BY <1>4 DEF High
<1>7. en => AwaiterInTime'
  <2>1. Lag' = Lag /\ Margin' = Margin
    BY <1>2, <1>3 DEF Lag, Margin
  <2> QED
    BY <1>2, <1>3, <1>6, <2>1 DEF PioInv, AwaiterInTime
<1>8. en => FrameFits' /\ RegistersFit' /\ PulsesCounted' /\ ClockLow'
  BY <1>1, <1>2, <1>3
     DEF PioInv, FrameFits, FirstEdge, RegistersFit, PulsesCounted, NullWord, ClockLow
<1> QED
  BY <1>2, <1>3, <1>5, <1>7, <1>8 DEF PioInv

\* What a core does to the TX FIFO, and the DMA channel to the RX FIFO.
LEMMA FifoInv ==
  ASSUME PioInv, Drain \/ Take \/ \E g \in Gains : Put(g)
  PROVE  PioInv'
<1>1. UNCHANGED <<en, tick, apc, ready, rpc, x, y, osr, isr, clk, flag, chip, frame>>
  BY DEF Drain, Take, Put
<1>2. PioTypeOK
  BY DEF PioInv
<1>3. tx' \in Seq(Gains) /\ Len(tx') <= 1 /\ rx' \in Seq(Word) /\ Len(rx') <= Depth
  <2>1. tx \in Seq(Gains) /\ Len(tx) <= 1 /\ rx \in Seq(Word) /\ Len(rx) <= Depth
    BY <1>2, TypeParts
  <2>2. CASE Drain
    BY <2>1, <2>2, EmptyFacts DEF Drain
  <2>3. CASE Take
    BY <2>1, <2>3, TailFacts DEF Take
  <2>4. CASE \E g \in Gains : Put(g)
    BY <2>1, <2>4 DEF Put
  <2> QED
    BY <2>2, <2>3, <2>4
<1>4. PioTypeOK'
  BY <1>1, <1>2, <1>3, TypeParts
<1>5. Lag' = Lag /\ Margin' = Margin /\ High' = High /\ \A c \in Chips : DataBit(c)' = DataBit(c)
  BY <1>1 DEF Lag, Margin, High, DataBit
<1>6. en => AwaiterInTime'
  BY <1>1, <1>5 DEF PioInv, AwaiterInTime
<1>7. en => RegistersFit'
  BY <1>1, <1>5 DEF PioInv, RegistersFit, NullWord
<1>8. en => FrameFits' /\ PulsesCounted' /\ ClockLow'
  BY <1>1 DEF PioInv, FrameFits, FirstEdge, PulsesCounted, Pulses, ClockLow
<1> QED
  BY <1>1, <1>4, <1>6, <1>7, <1>8 DEF PioInv

\* The flag may still be set from before: the awaiter is in time for the first frame.
LEMMA StartInv ==
  ASSUME PioInv, NEW g \in Gains, StartSms(g)
  PROVE  PioInv'
<1>1. /\ en' = TRUE /\ tick' = 0 /\ apc' = 0 /\ rpc' = 0 /\ isr' = NullWord
      /\ tx' = <<g>> /\ rx' = <<>> /\ UNCHANGED <<ready, x, y, osr, clk, flag, chip, frame>>
  BY DEF StartSms
<1>2. PioTypeOK
  BY DEF PioInv
<1>3. isr' \in Word /\ tx' \in Seq(Gains) /\ Len(tx') <= 1
  BY <1>1, <1>2, InBitsType
<1>4. rx' \in Seq(Word) /\ Len(rx') <= Depth
  <2>1. <<>> \in Seq(Word) /\ Len(<<>>) = 0
    BY EmptyFacts
  <2> QED
    BY <1>1, <2>1
<1>5. tick' \in 0..Div /\ apc' \in {0, 4, 6} /\ rpc' \in 0..18
  BY <1>1
<1>6. en' \in BOOLEAN
  BY <1>1, Zenon
<1>7. PioTypeOK'
  BY <1>1, <1>2, <1>3, <1>4, <1>5, <1>6, TypeParts
<1>8. Lag' = 2 /\ Margin' = 7
  BY <1>1 DEF Lag, Margin
<1>9. AwaiterInTime' /\ FrameFits' /\ RegistersFit' /\ PulsesCounted' /\ ClockLow'
  BY <1>1, <1>8 DEF AwaiterInTime, FrameFits, FirstEdge, RegistersFit, PulsesCounted, ClockLow
<1> QED
  BY <1>1, <1>7, <1>9 DEF PioInv

LEMMA StopInv ==
  ASSUME PioInv, StopSms
  PROVE  PioInv'
<1>1. /\ en' = FALSE /\ tick' = 0 /\ apc' = 0 /\ rpc' = 0 /\ isr' = NullWord /\ y' = 0
      /\ UNCHANGED <<ready, x, osr, tx, rx, clk, flag, chip, frame>>
  BY DEF StopSms
<1>2. en' \in BOOLEAN
  BY <1>1, Zenon
<1>3. /\ tick' \in 0..Div /\ apc' \in {0, 4, 6} /\ rpc' \in 0..18 /\ y' \in 0..(WordMod - 1)
      /\ isr' \in Word
  BY <1>1, InBitsType DEF PioInv
<1>4. PioTypeOK'
  BY <1>1, <1>2, <1>3, TypeParts DEF PioInv
<1> QED
  BY <1>1, <1>4 DEF PioInv

LEMMA InvStep ==
  ASSUME PioInv, [Next]_vars
  PROVE  PioInv'
<1>1. CASE UNCHANGED vars
  <2>1. UNCHANGED <<en, tick, apc, ready, rpc, x, y, osr, isr, tx, rx, clk, flag, chip, frame>>
    BY <1>1 DEF vars, readerVars
  <2>2. Lag' = Lag /\ Margin' = Margin /\ High' = High /\ \A c \in Chips : DataBit(c)' = DataBit(c)
    BY <2>1 DEF Lag, Margin, High, DataBit
  <2>3. PioTypeOK'
    BY <2>1, TypeParts DEF PioInv
  <2>4. en => AwaiterInTime' /\ RegistersFit'
    BY <2>1, <2>2 DEF PioInv, AwaiterInTime, RegistersFit, NullWord
  <2>5. en => FrameFits' /\ PulsesCounted' /\ ClockLow'
    BY <2>1 DEF PioInv, FrameFits, FirstEdge, PulsesCounted, Pulses, ClockLow
  <2> QED
    BY <2>1, <2>3, <2>4, <2>5 DEF PioInv
<1>2. CASE Reader
  BY <1>2, PlainInv, PullBootInv, PushInv, BitLoopInv, EdgeInv, GainInv, Zenon DEF Reader
<1>3. CASE Core
  BY <1>3, FifoInv, StartInv, StopInv, Zenon DEF Core
<1> QED
  BY <1>1, <1>2, <1>3, AnyChipInv, AwaiterInv, Zenon DEF Next

\* The inductive invariant of the two programs: where the reader is, its registers
\* and the pulses of each chip agree, and the awaiter lowers the flag in time.
THEOREM PioInvariant == Spec => []PioInv
<1>1. PioInv /\ [Next]_vars => PioInv'
  BY InvStep
<1> QED
  BY <1>1, InitInv, PTL DEF Spec

\* All variables keep to their sets: no FIFO has more words than entries, whatever
\* the reader pushes into it.
THEOREM PioTypeCorrect == Spec => []PioTypeOK
<1>1. PioInv => PioTypeOK
  BY DEF PioInv
<1> QED
  BY <1>1, PioInvariant, PTL

\* A frame begins only when no chip is converting: hx711_multi_awaiter.pio:43-45.
\* That the awaiter's turn takes one of the reader's instructions at most is all
\* that is needed of the clocks.
THEOREM FramesBeginTogether == Spec => BeginsTogether
<1>1. PioInv /\ [Next]_vars => [frame' # frame => High = {}]_vars
  <2> SUFFICES ASSUME PioInv, [Next]_vars, frame' # frame PROVE High = {}
    OBVIOUS
  <2>1. WaitReady
    BY Zenon DEF Next, vars, readerVars, Awaiter, Sample, ClearReady, SetReady, Reader, SetX, PullBoot, OutX,
       SetY, InNull, PushNoblock, WaitStalls, ClearDone, SetPins, InBits, BitLoop, SetDone,
       PullGain, JmpNotX, MovYX, GainLoop, LoopY, PullNoblock, AnyChip, Sleep, Convert, Core,
       Put, Drain, Take,
       StartSms, StopSms
  <2>2. rpc = 6 /\ ready /\ tick = Div /\ AwaiterInTime /\ PioTypeOK
    BY <2>1, ReaderFacts DEF Reader, WaitReady, ReaderAt
  <2>3. Margin = 0 /\ Lag >= 1
    BY <2>2, TypeParts DEF Margin, Lag
  <2>4. Lag \in 1..3
    BY <2>2, TypeParts DEF Lag
  <2> QED
    BY <2>2, <2>3, <2>4 DEF AwaiterInTime
<1> QED
  BY <1>1, PioInvariant, PTL DEF Spec, BeginsTogether

-----------------------------------------------------------------------------
(* Each step is one of MultiSm, or none. *)

\* The words of the FIFO as one chip sees them.
LEMMA ColumnType ==
  ASSUME NEW w \in Word
  PROVE  ColumnOf(Seen, w) \in Sm!Word
<1>1. Sm!PulseCounts = PulseCounts
  BY DEF PulseCounts, GainPulses, Sm!PulseCounts, Sm!GainPulses
<1>2. PICK P : P = PulseCounts
  OBVIOUS
<1>3. w \in [bit : [Chips -> 0..TornBit], frame : 0..1, gain : [Chips -> P]]
  BY <1>2, Zenon DEF Word
<1>4. w.bit[Seen] \in 0..TornBit /\ w.frame \in 0..1 /\ w.gain[Seen] \in P
  BY <1>3
<1>5. ColumnOf(Seen, w) \in [bit : 0..TornBit, frame : 0..1, gain : P]
  BY <1>4 DEF ColumnOf
<1> QED
  BY <1>1, <1>2, <1>5 DEF Sm!Word, TornBit, Sm!TornBit

LEMMA ColumnsFacts ==
  ASSUME NEW s \in Seq(Word)
  PROVE  /\ Columns(s) \in Seq(Sm!Word) /\ Len(Columns(s)) = Len(s)
         /\ \A i \in 1..Len(s) : Columns(s)[i] = ColumnOf(Seen, s[i])
<1>1. DOMAIN s = 1..Len(s) /\ Len(s) \in Nat /\ \A i \in 1..Len(s) : s[i] \in Word
  OBVIOUS
<1>2. \A i \in 1..Len(s) : ColumnOf(Seen, s[i]) \in Sm!Word
  BY <1>1, ColumnType
<1>3. Columns(s) = [i \in 1..Len(s) |-> ColumnOf(Seen, s[i])]
  BY <1>1 DEF Columns
<1>4. Columns(s) \in [1..Len(s) -> Sm!Word]
  BY <1>2, <1>3
<1> QED
  BY <1>1, <1>3, <1>4

\* What happens to the FIFO happens to each column of it.
LEMMA ColumnsOfAppend ==
  ASSUME NEW s \in Seq(Word), NEW w \in Word
  PROVE  Columns(Append(s, w)) = Append(Columns(s), ColumnOf(Seen, w))
<1>1. /\ Append(s, w) \in Seq(Word) /\ Len(Append(s, w)) = Len(s) + 1 /\ Len(s) \in Nat
      /\ \A i \in 1..Len(s) : Append(s, w)[i] = s[i]
      /\ Append(s, w)[Len(s) + 1] = w
  BY AppendFacts
<1>2. /\ Columns(s) \in Seq(Sm!Word) /\ Len(Columns(s)) = Len(s)
      /\ \A i \in 1..Len(s) : Columns(s)[i] = ColumnOf(Seen, s[i])
  BY ColumnsFacts
<1>3. /\ Columns(Append(s, w)) \in Seq(Sm!Word) /\ Len(Columns(Append(s, w))) = Len(s) + 1
      /\ \A i \in 1..(Len(s) + 1) : Columns(Append(s, w))[i] = ColumnOf(Seen, Append(s, w)[i])
  BY <1>1, ColumnsFacts
<1>4. /\ Append(Columns(s), ColumnOf(Seen, w)) \in Seq(Sm!Word)
      /\ Len(Append(Columns(s), ColumnOf(Seen, w))) = Len(s) + 1
      /\ \A i \in 1..Len(s) : Append(Columns(s), ColumnOf(Seen, w))[i] = Columns(s)[i]
      /\ Append(Columns(s), ColumnOf(Seen, w))[Len(s) + 1] = ColumnOf(Seen, w)
  BY <1>2, AppendFacts, ColumnType
<1>5. ASSUME NEW i \in 1..(Len(s) + 1)
      PROVE  Columns(Append(s, w))[i] = Append(Columns(s), ColumnOf(Seen, w))[i]
  <2>1. CASE i \in 1..Len(s)
    BY <1>1, <1>2, <1>3, <1>4, <2>1
  <2>2. CASE i = Len(s) + 1
    BY <1>1, <1>3, <1>4, <2>2
  <2>3. Len(s) \in Nat
    BY <1>1
  <2>4. i \in 1..Len(s) \/ i = Len(s) + 1
    BY <2>3
  <2> QED
    BY <2>1, <2>2, <2>4
<1> QED
  BY <1>3, <1>4, <1>5, SeqEqual

LEMMA ColumnsOfTail ==
  ASSUME NEW s \in Seq(Word), s # <<>>
  PROVE  Columns(Tail(s)) = Tail(Columns(s)) /\ Columns(s) # <<>>
<1>1. /\ Tail(s) \in Seq(Word) /\ Len(Tail(s)) = Len(s) - 1 /\ Len(s) \in Nat \ {0}
      /\ \A i \in 1..(Len(s) - 1) : Tail(s)[i] = s[i + 1]
  BY TailFacts
<1>2. /\ Columns(s) \in Seq(Sm!Word) /\ Len(Columns(s)) = Len(s)
      /\ \A i \in 1..Len(s) : Columns(s)[i] = ColumnOf(Seen, s[i])
  BY ColumnsFacts
<1>3. /\ Columns(Tail(s)) \in Seq(Sm!Word) /\ Len(Columns(Tail(s))) = Len(s) - 1
      /\ \A i \in 1..(Len(s) - 1) : Columns(Tail(s))[i] = ColumnOf(Seen, Tail(s)[i])
  BY <1>1, ColumnsFacts
<1>4. Columns(s) # <<>>
  BY <1>1, <1>2, EmptyFacts
<1>5. /\ Tail(Columns(s)) \in Seq(Sm!Word) /\ Len(Tail(Columns(s))) = Len(s) - 1
      /\ \A i \in 1..(Len(s) - 1) : Tail(Columns(s))[i] = Columns(s)[i + 1]
  BY <1>2, <1>4, TailFacts
<1>6. ASSUME NEW i \in 1..(Len(s) - 1)
      PROVE  Columns(Tail(s))[i] = Tail(Columns(s))[i]
  <2>1. i + 1 \in 1..Len(s)
    BY <1>1
  <2> QED
    BY <1>1, <1>2, <1>3, <1>5, <2>1
<1> QED
  BY <1>3, <1>4, <1>5, <1>6, SeqEqual

LEMMA ColumnsOfEmpty == Columns(<<>>) = <<>>
<1>1. <<>> \in Seq(Word) /\ Len(<<>>) = 0
  BY EmptyFacts
<1>2. Columns(<<>>) \in Seq(Sm!Word) /\ Len(Columns(<<>>)) = 0
  BY <1>1, ColumnsFacts
<1> QED
  BY <1>2, EmptyFacts

LEMMA InitSm == Init => Sm!SmInit
<1> SUFFICES ASSUME Init PROVE Sm!SmInit
  OBVIOUS
<1>1. PhaseAt = "boot" /\ CountAt = 0 /\ XAt = DefaultGain
  BY DEF Init, PhaseAt, CountAt, XAt
<1>2. chip \in [Chips -> ChipSet] /\ chip[Seen].frame \in {"converting", "ready", "clocked"}
  <2>1. chip \in [Chips -> ChipSet]
    BY InitInv, TypeParts DEF PioInv
  <2>2. CASE chip \in [Chips -> [gain : {GainPulses(DefaultGain)}, pulses : {0},
                                 frame : {"converting", "ready"}]]
    <3>1. chip[Seen] \in [gain : {GainPulses(DefaultGain)}, pulses : {0},
                          frame : {"converting", "ready"}]
      BY <2>2
    <3> QED
      BY <2>1, <3>1
  <2>3. CASE chip = [c \in Chips |-> [gain |-> GainPulses(DefaultGain), pulses |-> 1,
                                      frame |-> "clocked"]]
    BY <2>1, <2>3
  <2> QED
    BY <2>2, <2>3 DEF Init
<1>3. ChipAt \in [gain : Sm!PulseCounts, frame : {"converting", "ready", "clocked"}]
  <2>1. Sm!PulseCounts = PulseCounts
    BY DEF PulseCounts, GainPulses, Sm!PulseCounts, Sm!GainPulses
  <2> QED
    BY <1>2, <2>1, ChipTypes DEF ChipAt
<1>4. Columns(rx) = <<>>
  BY ColumnsOfEmpty DEF Init
<1>5. HeldAt = FALSE
  BY DEF Init, HeldAt
<1> QED
  BY <1>1, <1>3, <1>4, <1>5 DEF Init, Sm!SmInit

\* The phase of each instruction, and the words of the frame it has pushed, before
\* and after a step.
LEMMA PhaseFacts ==
  /\ rpc \in 0..1 => PhaseAt = "boot"
  /\ rpc \in 2..5 => PhaseAt = "null"
  /\ rpc = 6 => PhaseAt = "wait"
  /\ rpc = 7 => PhaseAt = "clear"
  /\ rpc = 8 /\ y = Bits - 1 => PhaseAt = "edge"
  /\ rpc = 12 \/ (rpc = 11 /\ y = 0) => PhaseAt = "done"
  /\ rpc = 13 => PhaseAt = "pull"
  /\ rpc \in 14..18 => PhaseAt = "gain"
  /\ (rpc = 8 /\ y # Bits - 1) \/ rpc \in 9..10 \/ (rpc = 11 /\ y # 0) => PhaseAt = "bits"
  /\ rpc \notin 8..11 => CountAt = 0
  /\ rpc \in 8..10 => CountAt = Bits - 1 - y
  /\ rpc = 11 => CountAt = (Bits - y) % Bits
  /\ rpc' \in 0..1 => PhaseAt' = "boot"
  /\ rpc' \in 2..5 => PhaseAt' = "null"
  /\ rpc' = 6 => PhaseAt' = "wait"
  /\ rpc' = 7 => PhaseAt' = "clear"
  /\ rpc' = 8 /\ y' = Bits - 1 => PhaseAt' = "edge"
  /\ rpc' = 12 \/ (rpc' = 11 /\ y' = 0) => PhaseAt' = "done"
  /\ rpc' = 13 => PhaseAt' = "pull"
  /\ rpc' \in 14..18 => PhaseAt' = "gain"
  /\ (rpc' = 8 /\ y' # Bits - 1) \/ rpc' \in 9..10 \/ (rpc' = 11 /\ y' # 0) => PhaseAt' = "bits"
  /\ rpc' \notin 8..11 => CountAt' = 0
  /\ rpc' \in 8..10 => CountAt' = Bits - 1 - y'
  /\ rpc' = 11 => CountAt' = (Bits - y') % Bits
<1>1. rpc \in 0..1 => PhaseAt = "boot"
  BY DEF PhaseAt
<1>2. rpc \in 2..5 => PhaseAt = "null"
  BY DEF PhaseAt
<1>3. rpc = 6 => PhaseAt = "wait"
  BY DEF PhaseAt
<1>4. rpc = 7 => PhaseAt = "clear"
  BY DEF PhaseAt
<1>5. rpc = 8 /\ y = Bits - 1 => PhaseAt = "edge"
  BY DEF PhaseAt
<1>6. rpc = 12 \/ (rpc = 11 /\ y = 0) => PhaseAt = "done"
  BY DEF PhaseAt
<1>7. rpc = 13 => PhaseAt = "pull"
  BY DEF PhaseAt
<1>8. rpc \in 14..18 => PhaseAt = "gain"
  BY DEF PhaseAt
<1>9. (rpc = 8 /\ y # Bits - 1) \/ rpc \in 9..10 \/ (rpc = 11 /\ y # 0) => PhaseAt = "bits"
  BY DEF PhaseAt
<1>10. rpc \notin 8..11 => CountAt = 0
  BY DEF CountAt
<1>11. rpc \in 8..10 => CountAt = Bits - 1 - y
  BY DEF CountAt
<1>12. rpc = 11 => CountAt = (Bits - y) % Bits
  BY DEF CountAt
<1>13. rpc' \in 0..1 => PhaseAt' = "boot"
  BY DEF PhaseAt
<1>14. rpc' \in 2..5 => PhaseAt' = "null"
  BY DEF PhaseAt
<1>15. rpc' = 6 => PhaseAt' = "wait"
  BY DEF PhaseAt
<1>16. rpc' = 7 => PhaseAt' = "clear"
  BY DEF PhaseAt
<1>17. rpc' = 8 /\ y' = Bits - 1 => PhaseAt' = "edge"
  BY DEF PhaseAt
<1>18. rpc' = 12 \/ (rpc' = 11 /\ y' = 0) => PhaseAt' = "done"
  BY DEF PhaseAt
<1>19. rpc' = 13 => PhaseAt' = "pull"
  BY DEF PhaseAt
<1>20. rpc' \in 14..18 => PhaseAt' = "gain"
  BY DEF PhaseAt
<1>21. (rpc' = 8 /\ y' # Bits - 1) \/ rpc' \in 9..10 \/ (rpc' = 11 /\ y' # 0) => PhaseAt' = "bits"
  BY DEF PhaseAt
<1>22. rpc' \notin 8..11 => CountAt' = 0
  BY DEF CountAt
<1>23. rpc' \in 8..10 => CountAt' = Bits - 1 - y'
  BY DEF CountAt
<1>24. rpc' = 11 => CountAt' = (Bits - y') % Bits
  BY DEF CountAt
<1> QED
  BY <1>1, <1>2, <1>3, <1>4, <1>5, <1>6, <1>7, <1>8, <1>9, <1>10, <1>11, <1>12,
     <1>13, <1>14, <1>15, <1>16, <1>17, <1>18, <1>19, <1>20, <1>21, <1>22, <1>23, <1>24

\* The gain register of MultiSm, and the chip that it tells of.
LEMMA XFacts ==
  /\ rpc = 0 => XAt = DefaultGain
  /\ rpc \in {2, 14} => XAt = osr
  /\ rpc \notin {0, 2, 14} => XAt = x
  /\ rpc' = 0 => XAt' = DefaultGain
  /\ rpc' \in {2, 14} => XAt' = osr'
  /\ rpc' \notin {0, 2, 14} => XAt' = x'
  BY DEF XAt

LEMMA ChipFacts ==
  /\ ChipAt.gain = chip[Seen].gain /\ ChipAt.frame = chip[Seen].frame
  /\ ChipAt' = [gain |-> chip'[Seen].gain, frame |-> chip'[Seen].frame]
  /\ chip'[Seen].gain = chip[Seen].gain /\ chip'[Seen].frame = chip[Seen].frame => ChipAt' = ChipAt
  BY DEF ChipAt

LEMMA ChipEdits ==
  ASSUME NEW n
  PROVE  [ChipAt EXCEPT !.frame = n] = [gain |-> chip[Seen].gain, frame |-> n]
<1>1. PICK r : r = ChipAt
  OBVIOUS
<1>2. PICK g, f : g = chip[Seen].gain /\ f = chip[Seen].frame
  OBVIOUS
<1>3. r = [gain |-> g, frame |-> f]
  BY <1>1, <1>2, Zenon DEF ChipAt
<1>4. PICK q : q = [r EXCEPT !.frame = n]
  OBVIOUS
<1>5. q = [gain |-> g, frame |-> n]
  BY <1>3, <1>4
<1> QED
  BY <1>1, <1>2, <1>4, <1>5, Zenon

\* Where the program drives the clock pin, and where the pin rests.
Driven == {"bits", "done", "pull", "gain"}
Rested == {"boot", "null", "wait", "clear", "edge"}

LEMMA HeldFacts ==
  /\ clk \in BOOLEAN /\ (~en \/ PhaseAt \in Rested) => HeldAt = clk
  /\ en /\ PhaseAt \in Driven => HeldAt = FALSE
  /\ clk' \in BOOLEAN /\ (~en' \/ PhaseAt' \in Rested) => HeldAt' = clk'
  /\ (en' /\ PhaseAt' \in Driven) \/ clk' = FALSE => HeldAt' = FALSE
<1>1. clk \in BOOLEAN /\ (~en \/ PhaseAt \in Rested) => HeldAt = clk
  BY DEF HeldAt, Rested
<1>2. en /\ PhaseAt \in Driven => HeldAt = FALSE
  BY DEF HeldAt, Driven
<1>3. clk' \in BOOLEAN /\ (~en' \/ PhaseAt' \in Rested) => HeldAt' = clk'
  BY DEF HeldAt, Rested
<1>4. (en' /\ PhaseAt' \in Driven) \/ clk' = FALSE => HeldAt' = FALSE
  BY DEF HeldAt, Driven
<1> QED
  BY <1>1, <1>2, <1>3, <1>4

LEMMA HeldSame ==
  ASSUME PioTypeOK, en' = en,
         \/ clk' = clk /\ PhaseAt' = PhaseAt
         \/ clk' = clk /\ PhaseAt \in Rested /\ PhaseAt' \in Rested
         \/ en /\ PhaseAt \in Driven /\ PhaseAt' \in Driven
  PROVE  HeldAt' = HeldAt
<1>1. clk \in BOOLEAN
  BY TypeParts
<1>2. CASE clk' = clk /\ PhaseAt' = PhaseAt
  BY <1>2 DEF HeldAt
<1>3. CASE clk' = clk /\ PhaseAt \in Rested /\ PhaseAt' \in Rested
  <2>1. clk' \in BOOLEAN
    BY <1>1, <1>3, Zenon
  <2> QED
    BY <1>1, <1>3, <2>1, HeldFacts, Zenon
<1>4. CASE en /\ PhaseAt \in Driven /\ PhaseAt' \in Driven
  BY <1>4, HeldFacts, Zenon
<1> QED
  BY <1>2, <1>3, <1>4

\* The instructions that MultiSm does not see, but for the bit loop.
LEMMA PlainSm ==
  ASSUME PioInv, SetX \/ OutX \/ SetY \/ InNull \/ WaitStalls \/ InBits \/ MovYX
  PROVE  UNCHANGED Sm!smVars
<1>1. PioTypeOK /\ UNCHANGED <<en, tx, rx, clk, flag, chip, frame>>
  BY ReaderFacts, Zenon DEF Reader, SetX, OutX, SetY, InNull, WaitStalls, InBits, MovYX, readerVars
<1>2. rpc \in {0, 2, 3, 4, 6, 9, 14, 16}
  BY DEF SetX, OutX, SetY, InNull, WaitStalls, InBits, MovYX, ReaderAt
<1>3. /\ rpc \in {0, 2, 3, 4, 9, 14, 16} => rpc' = rpc + 1
      /\ rpc = 6 => rpc' = 6
      /\ rpc = 9 => y' = y
  BY DEF SetX, OutX, SetY, InNull, WaitStalls, InBits, MovYX, ReaderAt, readerVars
<1>4. PhaseAt' = PhaseAt /\ CountAt' = CountAt
  BY <1>2, <1>3, PhaseFacts
<1>5. XAt' = XAt
  <2>1. /\ rpc = 0 => x' = DefaultGain
        /\ rpc \in {2, 14} => x' = osr
        /\ rpc \in {3, 4, 6, 9, 16} => x' = x
    BY DEF SetX, OutX, SetY, InNull, WaitStalls, InBits, MovYX, ReaderAt, readerVars
  <2> QED
    BY <1>2, <1>3, <2>1, XFacts
<1>6. ChipAt' = ChipAt
  BY <1>1, ChipFacts
<1>7. Columns(rx)' = Columns(rx)
  BY <1>1 DEF Columns, ColumnOf
<1>8. HeldAt' = HeldAt
  BY <1>1, <1>4, HeldSame
<1> QED
  BY <1>1, <1>4, <1>5, <1>6, <1>7, <1>8 DEF Sm!smVars

LEMMA BitLoopSm ==
  ASSUME PioInv, BitLoop
  PROVE  UNCHANGED Sm!smVars
<1>1. /\ PioTypeOK /\ en /\ en' = en /\ RegistersFit
  BY ReaderFacts DEF Reader
<1>2. y \in 0..(WordMod - 1) /\ y <= Bits - 1
  BY <1>1, TypeParts DEF RegistersFit, BitLoop, ReaderAt
<1>3. /\ rpc = 11 /\ rpc' = (IF y # 0 THEN 8 ELSE 12)
      /\ y' = (IF y = 0 THEN WordMod - 1 ELSE y - 1)
      /\ UNCHANGED <<x, tx, rx, flag, chip, frame>>
  BY <1>2, DownFacts DEF BitLoop, LoopY, ReaderAt
<1>4. PhaseAt' = PhaseAt /\ PhaseAt \in Driven
  BY <1>2, <1>3, PhaseFacts DEF Driven
<1>5. CountAt' = CountAt
  <2>1. CASE y = 0
    <3>1. Bits % Bits = 0
      OBVIOUS
    <3>2. CountAt = 0
      BY <1>3, <2>1, <3>1, PhaseFacts
    <3>3. CountAt' = 0
      BY <1>3, <2>1, PhaseFacts
    <3> QED
      BY <3>2, <3>3
  <2>2. CASE y # 0
    <3>1. CountAt = (Bits - y) % Bits /\ CountAt' = Bits - 1 - y' /\ y' = y - 1
      BY <1>3, <2>2, PhaseFacts
    <3>2. (Bits - y) % Bits = Bits - y
      BY <1>2, <2>2
    <3> QED
      BY <1>2, <3>1, <3>2
  <2> QED
    BY <2>1, <2>2
<1>6. XAt' = XAt
  BY <1>3, XFacts
<1>7. ChipAt' = ChipAt
  BY <1>3, ChipFacts
<1>8. Columns(rx)' = Columns(rx)
  BY <1>3 DEF Columns, ColumnOf
<1>9. HeldAt' = HeldAt
  BY <1>1, <1>4, HeldSame
<1> QED
  BY <1>1, <1>3, <1>4, <1>5, <1>6, <1>7, <1>8, <1>9 DEF Sm!smVars

\* The edges within a frame, and the pulses before the last one.
LEMMA PulsesSm ==
  ASSUME PioInv, (SetPins /\ ~FirstEdge) \/ ((JmpNotX \/ GainLoop) /\ rpc' # 3)
  PROVE  UNCHANGED Sm!smVars
<1>1. en /\ en' = en /\ PioTypeOK
  BY ReaderFacts DEF Reader
<1>2. UNCHANGED <<x, tx, rx, flag, frame>>
  BY DEF SetPins, JmpNotX, GainLoop, LoopY
<1>3. \/ rpc = 8 /\ rpc' = 9 /\ y' = y /\ y # Bits - 1
      \/ rpc \in 14..18 /\ rpc' \in 15..18 /\ rpc # 14
  BY DEF SetPins, JmpNotX, GainLoop, LoopY, ReaderAt, FirstEdge
<1>4. PhaseAt' = PhaseAt /\ PhaseAt \in Driven /\ CountAt' = CountAt /\ XAt' = XAt
  <2>1. CASE rpc = 8 /\ rpc' = 9 /\ y' = y /\ y # Bits - 1
    <3>1. PhaseAt' = PhaseAt /\ PhaseAt \in Driven /\ CountAt' = CountAt
      BY <2>1, PhaseFacts DEF Driven
    <3>2. XAt' = XAt
      BY <1>2, <2>1, XFacts
    <3> QED
      BY <3>1, <3>2
  <2>2. CASE rpc \in 14..18 /\ rpc' \in 15..18 /\ rpc # 14
    <3>1. PhaseAt' = PhaseAt /\ PhaseAt \in Driven /\ CountAt' = CountAt
      BY <2>2, PhaseFacts DEF Driven
    <3>2. XAt' = XAt
      BY <1>2, <2>2, XFacts
    <3> QED
      BY <3>1, <3>2
  <2> QED
    BY <1>3, <2>1, <2>2
<1>5. ChipAt' = ChipAt
  <2>1. CASE SetPins /\ ~FirstEdge
    <3>1. chip' = RisingEdge
      BY <2>1, Zenon DEF SetPins, FirstEdge
    <3>2. \A c \in Chips : chip[c].frame = "clocked" => chip[c].pulses < MaxPulses
      BY <2>1, PulseRoom
    <3>3. chip \in [Chips -> ChipSet]
      BY <1>1, TypeParts
    <3>4. chip'[Seen].gain = chip[Seen].gain /\ chip'[Seen].frame = chip[Seen].frame
      BY <3>1, <3>2, <3>3, LaterEdgeFacts
    <3> QED
      BY <3>4, ChipFacts
  <2>2. CASE (JmpNotX \/ GainLoop) /\ rpc' # 3
    <3>1. chip' = chip
      BY <2>2 DEF JmpNotX, GainLoop, LoopY
    <3> QED
      BY <3>1, ChipFacts
  <2> QED
    BY <2>1, <2>2
<1>6. Columns(rx)' = Columns(rx)
  BY <1>2 DEF Columns, ColumnOf
<1>7. HeldAt' = HeldAt
  BY <1>1, <1>4, HeldSame
<1> QED
  BY <1>1, <1>2, <1>4, <1>5, <1>6, <1>7 DEF Sm!smVars

LEMMA BootSm == ASSUME PioInv, PullBoot PROVE Sm!ReaderBoot
<1>1. /\ PioTypeOK /\ en /\ en' = en /\ RegistersFit
  BY ReaderFacts DEF Reader
<1>2. rpc = 1 /\ PullNoblock /\ UNCHANGED <<clk, chip, flag, frame>>
  BY DEF PullBoot, ReaderAt, PullNoblock
<1>3. x = DefaultGain
  BY <1>1, <1>2 DEF RegistersFit
<1>4. /\ osr' = (IF tx = <<>> THEN x ELSE Head(tx))
      /\ tx' = (IF tx = <<>> THEN tx ELSE Tail(tx))
      /\ rpc' = 2 /\ rx' = rx
  BY <1>1, <1>2, PullFacts
<1>5. PhaseAt = "boot" /\ PhaseAt' = "null" /\ CountAt' = CountAt
  BY <1>2, <1>4, PhaseFacts
<1>6. XAt' = osr'
  BY <1>4, XFacts
<1>7. ChipAt' = ChipAt /\ Columns(rx)' = Columns(rx)
  BY <1>2, <1>4, ChipFacts DEF Columns, ColumnOf
<1>8. HeldAt' = HeldAt
  BY <1>1, <1>2, <1>5, HeldSame DEF Rested
<1> QED
  BY <1>1, <1>2, <1>3, <1>4, <1>5, <1>6, <1>7, <1>8 DEF Sm!ReaderBoot, Sm!At, Sm!PullInto

\* `push noblock` of a word is one of its column.
LEMMA PushSmFacts ==
  ASSUME PioInv, PushNoblock
  PROVE  /\ isr \in Word
         /\ Columns(rx)' = IF Len(Columns(rx)) < Depth
                           THEN Append(Columns(rx), ColumnOf(Seen, isr)) ELSE Columns(rx)
<1>1. rx \in Seq(Word) /\ isr \in Word
  BY TypeParts DEF PioInv
<1>2. rx' = IF Len(rx) < Depth THEN Append(rx, isr) ELSE rx
  BY DEF PushNoblock
<1>3. Columns(rx)' = Columns(rx')
  BY DEF Columns, ColumnOf
<1>4. Len(Columns(rx)) = Len(rx)
  BY <1>1, ColumnsFacts
<1>5. Columns(Append(rx, isr)) = Append(Columns(rx), ColumnOf(Seen, isr))
  BY <1>1, ColumnsOfAppend
<1>6. CASE Len(rx) < Depth
  <2>1. rx' = Append(rx, isr)
    BY <1>2, <1>6
  <2>2. Columns(rx)' = Append(Columns(rx), ColumnOf(Seen, isr))
    BY <1>3, <1>5, <2>1, Zenon
  <2> QED
    BY <1>1, <1>4, <1>6, <2>2
<1>7. CASE ~(Len(rx) < Depth)
  <2>1. rx' = rx
    BY <1>2, <1>7
  <2>2. Columns(rx)' = Columns(rx)
    BY <1>3, <2>1, Zenon
  <2> QED
    BY <1>1, <1>4, <1>7, <2>2
<1> QED
  BY <1>6, <1>7

LEMMA NullSm == ASSUME PioInv, PushNoblock, rpc = 5 PROVE Sm!ReaderNull
<1>1. /\ PioTypeOK /\ en /\ en' = en /\ RegistersFit
  BY ReaderFacts DEF Reader
<1>2. rpc' = 6 /\ UNCHANGED <<x, tx, clk, chip, flag, frame>>
  BY DEF PushNoblock
<1>3. ColumnOf(Seen, isr) = Sm!NullWord
  <2>1. isr = NullWord
    BY <1>1 DEF RegistersFit
  <2>2. GainPulses(DefaultGain) = Sm!GainPulses(DefaultGain)
    BY DEF GainPulses, Sm!GainPulses
  <2> QED
    BY <2>1, <2>2 DEF NullWord, ColumnOf, Sm!NullWord
<1>4. PhaseAt = "null" /\ PhaseAt' = "wait" /\ CountAt' = CountAt
  BY <1>2, PhaseFacts
<1>5. XAt' = XAt
  BY <1>2, XFacts
<1>6. ChipAt' = ChipAt
  BY <1>2, ChipFacts
<1>7. HeldAt' = HeldAt
  BY <1>1, <1>2, <1>4, HeldSame DEF Rested
<1> QED
  BY <1>1, <1>2, <1>3, <1>4, <1>5, <1>6, <1>7, PushSmFacts
     DEF Sm!ReaderNull, Sm!At, Sm!PushNoblock

\* The word of a turn of the bit loop has the next bit of each chip that was not torn.
LEMMA BitSm == ASSUME PioInv, PushNoblock, rpc = 10 PROVE Sm!ReaderBit
<1>1. /\ PioTypeOK /\ en /\ en' = en /\ RegistersFit /\ FrameFits /\ PulsesCounted
  BY ReaderFacts DEF Reader
<1>2. rpc' = 11 /\ UNCHANGED <<x, y, tx, chip, flag, frame>>
  BY DEF PushNoblock
<1>3. y \in 0..(Bits - 1)
  <2>1. y \in 0..(WordMod - 1)
    BY <1>1, TypeParts
  <2> QED
    BY <1>1, <2>1 DEF RegistersFit
<1>4. /\ chip[Seen].frame \in {"clocked", "torn"}
      /\ chip[Seen].frame = "clocked" => chip[Seen].pulses = Bits - y
  <2>1. rpc \in 8..18 /\ ~FirstEdge /\ Pulses = Bits - y
    BY DEF FirstEdge, Pulses
  <2> QED
    BY <1>1, <2>1 DEF FrameFits, PulsesCounted
<1>5. CountAt = Bits - 1 - y /\ PhaseAt = "bits"
  BY PhaseFacts
<1>6. DataBit(Seen) = IF ChipAt.frame = "clocked" THEN CountAt + 1 ELSE Sm!TornBit
  BY <1>3, <1>4, <1>5, ChipFacts DEF DataBit, TornBit, Sm!TornBit
<1>7. ColumnOf(Seen, isr) = [bit |-> IF ChipAt.frame = "clocked" THEN CountAt + 1 ELSE Sm!TornBit,
                             frame |-> frame, gain |-> ChipAt.gain]
  <2>1. isr = [bit |-> [c \in Chips |-> DataBit(c)], frame |-> frame,
               gain |-> [c \in Chips |-> chip[c].gain]]
    BY <1>1 DEF RegistersFit
  <2>2. isr.bit[Seen] = DataBit(Seen) /\ isr.frame = frame /\ isr.gain[Seen] = ChipAt.gain
    BY <2>1, ChipFacts
  <2> QED
    BY <1>6, <2>2, Zenon DEF ColumnOf
<1>8. CountAt' = (CountAt + 1) % Bits
  <2>1. CountAt' = (Bits - y) % Bits /\ CountAt + 1 = Bits - y
    BY <1>2, <1>3, <1>5, PhaseFacts
  <2> QED
    BY <2>1
<1>9. PhaseAt' = IF CountAt' = 0 THEN "done" ELSE "bits"
  <2>1. CASE y = 0
    <3>1. Bits % Bits = 0
      OBVIOUS
    <3>2. CountAt' = 0
      BY <1>2, <2>1, <3>1, PhaseFacts
    <3> QED
      BY <1>2, <2>1, <3>2, PhaseFacts
  <2>2. CASE y # 0
    <3>1. (Bits - y) % Bits = Bits - y
      BY <1>3, <2>2
    <3>2. CountAt' # 0
      BY <1>2, <1>3, <3>1, PhaseFacts
    <3> QED
      BY <1>2, <2>2, <3>2, PhaseFacts
  <2> QED
    BY <2>1, <2>2
<1>10. XAt' = XAt
  BY <1>2, XFacts
<1>11. ChipAt' = ChipAt
  BY <1>2, ChipFacts
<1>12. HeldAt' = HeldAt
  <2>1. PhaseAt' \in Driven /\ PhaseAt \in Driven
    BY <1>5, <1>9 DEF Driven
  <2> QED
    BY <1>1, <2>1, HeldSame
<1> QED
  BY <1>1, <1>2, <1>5, <1>7, <1>8, <1>9, <1>10, <1>11, <1>12, PushSmFacts
     DEF Sm!ReaderBit, Sm!At, Sm!PushNoblock

\* The frame begins for all chips together.
LEMMA BeginSm == ASSUME PioInv, WaitReady PROVE Sm!ReaderBegin
<1>1. /\ PioTypeOK /\ en /\ en' = en /\ tick = Div /\ AwaiterInTime
  BY ReaderFacts DEF Reader
<1>2. /\ rpc = 6 /\ rpc' = 7 /\ ready /\ frame' = (frame + 1) % 2
      /\ UNCHANGED <<x, y, tx, rx, clk, chip, flag>>
  BY DEF WaitReady, ReaderAt
<1>3. High = {}
  <2>1. Margin = 0 /\ Lag \in 1..3
    BY <1>1, <1>2, TypeParts DEF Margin, Lag
  <2> QED
    BY <1>1, <1>2, <2>1 DEF AwaiterInTime
<1>4. ChipAt.frame # "converting" /\ ChipAt' = ChipAt
  BY <1>2, <1>3, ChipFacts DEF High
<1>5. PhaseAt = "wait" /\ PhaseAt' = "clear" /\ CountAt' = CountAt
  BY <1>2, PhaseFacts
<1>6. XAt' = XAt /\ Columns(rx)' = Columns(rx)
  BY <1>2, XFacts DEF Columns, ColumnOf
<1>7. HeldAt' = HeldAt
  BY <1>1, <1>2, <1>5, HeldSame DEF Rested
<1> QED
  BY <1>1, <1>2, <1>4, <1>5, <1>6, <1>7 DEF Sm!ReaderBegin, Sm!At

LEMMA ClearSm == ASSUME PioInv, ClearDone PROVE Sm!ReaderClear
<1>1. /\ PioTypeOK /\ en /\ en' = en /\ RegistersFit
  BY ReaderFacts DEF Reader
<1>2. rpc = 7 /\ rpc' = 8 /\ flag' = FALSE /\ UNCHANGED <<x, y, tx, rx, clk, chip, frame>>
  BY DEF ClearDone, ReaderAt
<1>3. y = Bits - 1
  BY <1>1, <1>2 DEF RegistersFit
<1>4. PhaseAt = "clear" /\ PhaseAt' = "edge" /\ CountAt' = CountAt
  BY <1>2, <1>3, PhaseFacts
<1>5. XAt' = XAt /\ Columns(rx)' = Columns(rx) /\ ChipAt' = ChipAt
  BY <1>2, XFacts, ChipFacts DEF Columns, ColumnOf
<1>6. HeldAt' = HeldAt
  BY <1>1, <1>2, <1>4, HeldSame DEF Rested
<1> QED
  BY <1>1, <1>2, <1>4, <1>5, <1>6 DEF Sm!ReaderClear, Sm!At

LEMMA EdgeSm == ASSUME PioInv, SetPins, FirstEdge PROVE Sm!ReaderEdge
<1>1. /\ PioTypeOK /\ en /\ en' = en /\ FrameFits
  BY ReaderFacts DEF Reader
<1>2. rpc = 8 /\ y = Bits - 1 /\ rpc' = 9 /\ UNCHANGED <<x, y, tx, rx, flag, frame>>
  BY DEF SetPins, FirstEdge
<1>3. PhaseAt = "edge" /\ PhaseAt' = "bits" /\ CountAt' = CountAt
  BY <1>2, PhaseFacts
<1>4. XAt' = XAt /\ Columns(rx)' = Columns(rx)
  BY <1>2, XFacts DEF Columns, ColumnOf
<1>5. chip \in [Chips -> ChipSet] /\ clk \in BOOLEAN /\ chip[Seen].frame # "converting"
  BY <1>1, TypeParts DEF FrameFits
<1>6. HeldAt = clk /\ HeldAt' = FALSE
  BY <1>1, <1>3, <1>5, HeldFacts DEF Rested, Driven
<1>7. PICK f : f = chip'[Seen].frame
  OBVIOUS
<1>8. /\ chip'[Seen].gain = chip[Seen].gain /\ f \in {"clocked", "torn"}
      /\ f = "clocked" => chip[Seen].frame = IF clk THEN "clocked" ELSE "ready"
      /\ chip[Seen].frame = "ready" /\ ~clk => f = "clocked"
  <2>1. chip' = FirstSetHigh
    BY Zenon DEF SetPins, FirstEdge
  <2> QED
    BY <1>5, <1>7, <2>1, FirstEdgeFacts
<1>9. ChipAt' = [ChipAt EXCEPT !.frame = f]
  <2>1. ChipAt' = [gain |-> chip[Seen].gain, frame |-> f]
    BY <1>7, <1>8, ChipFacts
  <2> QED
    BY <2>1, ChipEdits, Zenon
<1>10. /\ ~HeldAt => (f = "clocked") = (ChipAt.frame = "ready")
       /\ HeldAt /\ f = "clocked" => ChipAt.frame = "clocked"
  BY <1>5, <1>6, <1>8, ChipFacts
<1> QED
  BY <1>1, <1>2, <1>3, <1>4, <1>6, <1>8, <1>9, <1>10 DEF Sm!ReaderEdge, Sm!At

LEMMA DoneSm == ASSUME PioInv, SetDone PROVE Sm!ReaderDone
<1>1. PioTypeOK /\ en /\ en' = en
  BY ReaderFacts DEF Reader
<1>2. rpc = 12 /\ rpc' = 13 /\ flag' = TRUE /\ UNCHANGED <<x, tx, rx, chip, frame>>
  BY DEF SetDone, ReaderAt
<1>3. PhaseAt = "done" /\ PhaseAt' = "pull" /\ CountAt' = CountAt
  BY <1>2, PhaseFacts
<1>4. XAt' = XAt /\ Columns(rx)' = Columns(rx) /\ ChipAt' = ChipAt
  BY <1>2, XFacts, ChipFacts DEF Columns, ColumnOf
<1>5. HeldAt' = HeldAt
  BY <1>1, <1>3, HeldSame DEF Driven
<1> QED
  BY <1>1, <1>2, <1>3, <1>4, <1>5 DEF Sm!ReaderDone, Sm!At

LEMMA PullSm == ASSUME PioInv, PullGain PROVE Sm!ReaderPull
<1>1. PioTypeOK /\ en /\ en' = en
  BY ReaderFacts DEF Reader
<1>2. rpc = 13 /\ PullNoblock /\ chip' = RisingEdge /\ UNCHANGED <<flag, frame>>
  BY DEF PullGain, ReaderAt, PullNoblock
<1>3. /\ osr' = (IF tx = <<>> THEN x ELSE Head(tx))
      /\ tx' = (IF tx = <<>> THEN tx ELSE Tail(tx))
      /\ rpc' = 14 /\ rx' = rx
  BY <1>1, <1>2, PullFacts
<1>4. PhaseAt = "pull" /\ PhaseAt' = "gain" /\ CountAt' = CountAt
  BY <1>2, <1>3, PhaseFacts
<1>5. XAt = x /\ XAt' = osr' /\ Columns(rx)' = Columns(rx)
  BY <1>2, <1>3, XFacts DEF Columns, ColumnOf
<1>6. ChipAt' = ChipAt
  <2>1. \A c \in Chips : chip[c].frame = "clocked" => chip[c].pulses < MaxPulses
    <3>1. ~FirstEdge
      BY <1>2 DEF FirstEdge
    <3> QED
      BY <3>1, PulseRoom
  <2>2. chip \in [Chips -> ChipSet]
    BY <1>1, TypeParts
  <2>3. chip'[Seen].gain = chip[Seen].gain /\ chip'[Seen].frame = chip[Seen].frame
    BY <1>2, <2>1, <2>2, LaterEdgeFacts
  <2> QED
    BY <2>3, ChipFacts
<1>7. HeldAt' = HeldAt
  BY <1>1, <1>4, HeldSame DEF Driven
<1> QED
  BY <1>1, <1>2, <1>3, <1>4, <1>5, <1>6, <1>7 DEF Sm!ReaderPull, Sm!At, Sm!PullInto

\* The pulses of the frame that ends are those of the gain code in x.
LEMMA GainSm == ASSUME PioInv, JmpNotX \/ GainLoop, rpc' = 3 PROVE Sm!ReaderGain
<1>1. PioTypeOK /\ en /\ en' = en
  BY ReaderFacts DEF Reader
<1>2. /\ (rpc = 15 /\ x = 0) \/ (rpc = 18 /\ y = 0)
      /\ chip' \in FrameEnds /\ clk' = FALSE /\ UNCHANGED <<x, tx, rx, flag, frame>>
  <2>1. CASE JmpNotX
    BY <2>1 DEF JmpNotX, ReaderAt
  <2>2. CASE GainLoop
    BY <2>2 DEF GainLoop, LoopY, ReaderAt
  <2> QED
    BY <2>1, <2>2
<1>3. PhaseAt = "gain" /\ PhaseAt' = "null" /\ CountAt' = CountAt
  BY <1>2, PhaseFacts
<1>4. XAt = x /\ XAt' = x /\ Columns(rx)' = Columns(rx)
  BY <1>2, XFacts DEF Columns, ColumnOf
<1>5. /\ chip'[Seen].frame = "converting" /\ chip'[Seen].gain \in Sm!PulseCounts
      /\ chip[Seen].frame = "clocked" => chip'[Seen].gain = Sm!GainPulses(x)
  <2>1. \A c \in Chips : chip[c].frame = "clocked" => chip[c].pulses - Bits = GainPulses(x)
    BY <1>1, <1>2, PulseFacts
  <2>2. GainPulses(x) \in PulseCounts
    BY <1>1, TypeParts, CountFacts
  <2>3. /\ chip'[Seen].frame = "converting" /\ chip'[Seen].gain \in PulseCounts
        /\ chip[Seen].frame = "clocked" => chip'[Seen].gain = chip[Seen].pulses - Bits
    BY <1>2, <2>1, <2>2, EndFacts
  <2>4. PulseCounts = Sm!PulseCounts /\ GainPulses(x) = Sm!GainPulses(x)
    BY DEF PulseCounts, GainPulses, Sm!PulseCounts, Sm!GainPulses
  <2> QED
    BY <2>1, <2>3, <2>4
<1>6. ChipAt' = [gain |-> chip'[Seen].gain, frame |-> "converting"] /\ ChipAt.frame = chip[Seen].frame
  BY <1>5, ChipFacts
<1>7. HeldAt' = HeldAt
  BY <1>1, <1>2, <1>3, HeldFacts, Zenon DEF Driven
<1> QED
  BY <1>1, <1>2, <1>3, <1>4, <1>5, <1>6, <1>7 DEF Sm!ReaderGain, Sm!At

\* A conversion of the chip that MultiSm tells of, or of another one.
LEMMA ConvertSm ==
  ASSUME PioInv, NEW c \in Chips, Convert(c)
  PROVE  Sm!Convert \/ UNCHANGED Sm!smVars
<1>1. /\ PioTypeOK /\ (~en \/ rpc <= 6) /\ chip[c].frame \notin {"ready", "asleep"}
      /\ chip' = [chip EXCEPT ![c].frame = "ready", ![c].pulses = 0]
      /\ UNCHANGED <<en, tick, apc, ready, readerVars, flag, frame>>
  BY DEF PioInv, Convert, AtRest
<1>2. UNCHANGED <<rpc, x, y, osr, isr, tx, rx, clk>>
  BY <1>1 DEF readerVars
<1>3. rpc \in 0..18 /\ chip \in [Chips -> ChipSet]
  BY <1>1, TypeParts
<1>4. PhaseAt' = PhaseAt /\ CountAt' = CountAt /\ XAt' = XAt /\ HeldAt' = HeldAt
  BY <1>1, <1>2 DEF PhaseAt, CountAt, XAt, HeldAt
<1>5. Columns(rx)' = Columns(rx)
  BY <1>2 DEF Columns, ColumnOf
<1>6. CASE c = Seen
  <2>1. ~en \/ PhaseAt \in {"boot", "null", "wait"}
    <3>1. rpc <= 6 => rpc \in 0..1 \/ rpc \in 2..5 \/ rpc = 6
      BY <1>3
    <3> QED
      BY <1>1, <3>1, PhaseFacts
  <2>2. chip'[Seen].gain = chip[Seen].gain /\ chip'[Seen].frame = "ready"
    BY <1>1, <1>3, <1>6 DEF ChipSet
  <2>3. ChipAt' = [gain |-> chip[Seen].gain, frame |-> "ready"]
    BY <2>2, ChipFacts
  <2>4. ChipAt' = [ChipAt EXCEPT !.frame = "ready"]
    BY <2>3, ChipEdits, Zenon
  <2>5. ChipAt.frame \notin {"ready", "asleep"}
    BY <1>1, <1>6, ChipFacts
  <2> QED
    BY <1>1, <1>2, <1>4, <1>5, <2>1, <2>4, <2>5 DEF Sm!Convert, Sm!Resting
<1>7. CASE c # Seen
  <2>1. chip'[Seen] = chip[Seen]
    BY <1>1, <1>3, <1>7
  <2>2. ChipAt' = ChipAt
    BY <2>1, ChipFacts
  <2> QED
    BY <1>1, <1>2, <1>4, <1>5, <2>2 DEF Sm!smVars
<1> QED
  BY <1>6, <1>7

\* The chips fall asleep together, if the one that MultiSm tells of is not asleep yet.
LEMMA SleepSm ==
  ASSUME PioInv, Sleep
  PROVE  Sm!Sleep \/ UNCHANGED Sm!smVars
<1>1. /\ PioTypeOK /\ (~en \/ rpc = 6) /\ clk
      /\ chip' = [d \in Chips |-> [chip[d] EXCEPT !.frame = "asleep", !.pulses = 0]]
      /\ UNCHANGED <<en, tick, apc, ready, readerVars, flag, frame>>
  BY DEF PioInv, Sleep
<1>2. UNCHANGED <<rpc, x, y, osr, isr, tx, rx, clk>>
  BY <1>1 DEF readerVars
<1>3. rpc \in 0..18 /\ chip \in [Chips -> ChipSet] /\ clk \in BOOLEAN
  BY <1>1, TypeParts
<1>4. PhaseAt' = PhaseAt /\ CountAt' = CountAt /\ XAt' = XAt /\ HeldAt' = HeldAt
  BY <1>1, <1>2 DEF PhaseAt, CountAt, XAt, HeldAt
<1>5. Columns(rx)' = Columns(rx)
  BY <1>2 DEF Columns, ColumnOf
<1>6. (~en \/ PhaseAt = "wait") /\ HeldAt
  <2>1. ~en \/ PhaseAt = "wait"
    BY <1>1, PhaseFacts
  <2>2. HeldAt = clk
    BY <1>3, <2>1, HeldFacts DEF Rested
  <2> QED
    BY <1>1, <2>1, <2>2
<1>7. chip'[Seen].gain = chip[Seen].gain /\ chip'[Seen].frame = "asleep"
  BY <1>1, <1>3 DEF ChipSet
<1>8. CASE chip[Seen].frame = "asleep"
  <2>1. ChipAt' = ChipAt
    BY <1>7, <1>8, ChipFacts
  <2> QED
    BY <1>1, <1>2, <1>4, <1>5, <2>1 DEF Sm!smVars
<1>9. CASE chip[Seen].frame # "asleep"
  <2>1. ChipAt' = [gain |-> chip[Seen].gain, frame |-> "asleep"]
    BY <1>7, ChipFacts
  <2>2. ChipAt' = [ChipAt EXCEPT !.frame = "asleep"]
    BY <2>1, ChipEdits, Zenon
  <2>3. ChipAt.frame # "asleep"
    BY <1>9, ChipFacts
  <2> QED
    BY <1>1, <1>2, <1>4, <1>5, <1>6, <2>2, <2>3 DEF Sm!Sleep, Sm!Resting
<1> QED
  BY <1>8, <1>9

LEMMA CoreSm ==
  ASSUME PioInv, Core
  PROVE  Sm!SmCore
<1>1. PioTypeOK
  BY DEF PioInv
<1>2. CASE Drain \/ Take \/ \E g \in Gains : Put(g)
  <2>1. UNCHANGED <<en, rpc, x, y, osr, clk, flag, chip, frame>>
    BY <1>2 DEF Drain, Take, Put
  <2>2. /\ PhaseAt' = PhaseAt /\ CountAt' = CountAt /\ XAt' = XAt /\ ChipAt' = ChipAt
        /\ HeldAt' = HeldAt
    BY <2>1 DEF PhaseAt, CountAt, XAt, ChipAt, HeldAt
  <2>3. CASE Drain
    <3>1. tx' = <<>> /\ Columns(rx)' = Columns(rx)
      BY <2>3 DEF Drain, Columns, ColumnOf
    <3> QED
      BY <2>1, <2>2, <3>1 DEF Sm!Drain, Sm!SmCore
  <2>4. CASE Take
    <3>1. tx' = tx /\ rx # <<>> /\ rx' = Tail(rx) /\ rx \in Seq(Word)
      BY <1>1, <2>4, TypeParts DEF Take
    <3>2. Columns(Tail(rx)) = Tail(Columns(rx)) /\ Columns(rx) # <<>>
      BY <3>1, ColumnsOfTail
    <3>3. Columns(rx)' = Columns(rx')
      BY DEF Columns, ColumnOf
    <3>4. Columns(rx)' = Tail(Columns(rx))
      BY <3>1, <3>2, <3>3, Zenon
    <3> QED
      BY <2>1, <2>2, <3>1, <3>2, <3>4 DEF Sm!Take, Sm!SmCore
  <2>5. ASSUME NEW g \in Gains, Put(g) PROVE Sm!SmCore
    <3>1. tx = <<>> /\ tx' = Append(tx, g) /\ Columns(rx)' = Columns(rx)
      BY <2>5 DEF Put, Columns, ColumnOf
    <3>2. Sm!Put(g)
      BY <2>1, <2>2, <2>5, <3>1 DEF Sm!Put
    <3> QED
      BY <3>1, <3>2 DEF Sm!SmCore
  <2> QED
    BY <1>2, <2>3, <2>4, <2>5
<1>3. ASSUME NEW g \in Gains, StartSms(g) PROVE Sm!SmCore
  <2>1. /\ ~en /\ en' = TRUE /\ rpc' = 0 /\ tx' = <<g>> /\ rx' = <<>>
        /\ UNCHANGED <<clk, flag, chip, frame>>
    BY <1>3 DEF StartSms
  <2>2. PhaseAt' = "boot" /\ CountAt' = 0
    BY <2>1, PhaseFacts
  <2>3. XAt' = DefaultGain /\ ChipAt' = ChipAt
    BY <2>1, XFacts, ChipFacts
  <2>4. Columns(rx)' = <<>>
    <3>1. Columns(rx)' = Columns(rx')
      BY DEF Columns, ColumnOf
    <3> QED
      BY <2>1, <3>1, ColumnsOfEmpty, Zenon
  <2>5. HeldAt' \in Sm!LatchAfterStop
    <3>1. clk \in BOOLEAN /\ clk' \in BOOLEAN
      BY <1>1, <2>1, TypeParts, Zenon
    <3>2. HeldAt' = HeldAt
      BY <2>1, <2>2, <3>1, HeldFacts, Zenon DEF Rested
    <3> QED
      BY <2>1, <3>2 DEF Sm!LatchAfterStop
  <2>6. Sm!StartSms(g)
    BY <2>1, <2>2, <2>3, <2>4, <2>5 DEF Sm!StartSms
  <2> QED
    BY <2>6 DEF Sm!SmCore
<1>4. CASE StopSms
  <2>1. en /\ en' = FALSE /\ rpc' = 0 /\ UNCHANGED <<tx, rx, clk, flag, chip, frame>>
    BY <1>4 DEF StopSms
  <2>2. PhaseAt' = "boot" /\ CountAt' = 0 /\ XAt' = DefaultGain /\ ChipAt' = ChipAt
    BY <2>1, PhaseFacts, XFacts, ChipFacts
  <2>3. Columns(rx)' = Columns(rx)
    BY <2>1 DEF Columns, ColumnOf
  <2>4. HeldAt' \in Sm!LatchAfterStop
    <3>1. clk \in BOOLEAN /\ clk' \in BOOLEAN
      BY <1>1, <2>1, TypeParts, Zenon
    <3>2. HeldAt' = clk
      BY <2>1, <3>1, HeldFacts, Zenon
    <3>3. CASE PhaseAt \in {"bits", "done", "gain"}
      BY <2>1, <3>1, <3>2, <3>3 DEF Sm!LatchAfterStop
    <3>4. CASE PhaseAt = "pull"
      <4>1. rpc = 13
        <5>1. rpc \in 0..18 /\ y \in 0..(WordMod - 1)
          BY <1>1, TypeParts
        <5> QED
          BY <3>4, <5>1 DEF PhaseAt
      <4>2. clk = FALSE
        BY <2>1, <3>1, <4>1 DEF PioInv, ClockLow
      <4>3. HeldAt = FALSE
        BY <4>2 DEF HeldAt
      <4> QED
        BY <3>2, <3>4, <4>2, <4>3 DEF Sm!LatchAfterStop
    <3>5. CASE PhaseAt \in Rested
      <4>1. HeldAt = clk
        BY <3>1, <3>5, HeldFacts
      <4> QED
        BY <3>2, <3>5, <4>1 DEF Sm!LatchAfterStop, Rested
    <3>6. PhaseAt \in {"bits", "done", "gain"} \/ PhaseAt = "pull" \/ PhaseAt \in Rested
      BY DEF PhaseAt, Rested
    <3> QED
      BY <3>3, <3>4, <3>5, <3>6
  <2> QED
    BY <2>1, <2>2, <2>3, <2>4 DEF Sm!StopSms, Sm!SmCore
<1> QED
  BY <1>2, <1>3, <1>4 DEF Core

LEMMA StepSm ==
  ASSUME PioInv, [Next]_vars
  PROVE  [Sm!SmNext]_(Sm!smVars)
<1>1. CASE UNCHANGED vars \/ Awaiter
  <2>1. UNCHANGED <<en, rpc, x, y, osr, tx, rx, clk, flag, chip, frame>>
    BY <1>1 DEF vars, readerVars, Awaiter, Sample, ClearReady, SetReady, AwaiterAt
  <2>2. /\ PhaseAt' = PhaseAt /\ CountAt' = CountAt /\ XAt' = XAt /\ ChipAt' = ChipAt
        /\ HeldAt' = HeldAt
    BY <2>1 DEF PhaseAt, CountAt, XAt, ChipAt, HeldAt
  <2>3. Columns(rx)' = Columns(rx)
    BY <2>1 DEF Columns, ColumnOf
  <2> QED
    BY <2>1, <2>2, <2>3 DEF Sm!smVars
<1>2. CASE SetX \/ OutX \/ SetY \/ InNull \/ WaitStalls \/ InBits \/ MovYX
  BY <1>2, PlainSm, Zenon
<1>3. CASE BitLoop \/ (SetPins /\ ~FirstEdge) \/ ((JmpNotX \/ GainLoop) /\ rpc' # 3)
  BY <1>3, BitLoopSm, PulsesSm, Zenon
<1>4. CASE PushNoblock
  <2>1. rpc = 5 \/ rpc = 10
    BY <1>4 DEF PushNoblock, ReaderAt
  <2> QED
    BY <1>4, <2>1, NullSm, BitSm, Zenon DEF Sm!SmNext, Sm!Reader
<1>5. CASE PullBoot \/ WaitReady \/ ClearDone \/ (SetPins /\ FirstEdge) \/ SetDone \/ PullGain
           \/ ((JmpNotX \/ GainLoop) /\ rpc' = 3)
  BY <1>5, BootSm, BeginSm, ClearSm, EdgeSm, DoneSm, PullSm, GainSm, Zenon
     DEF Sm!SmNext, Sm!Reader
<1>6. CASE AnyChip
  BY <1>6, SleepSm, ConvertSm, Zenon DEF AnyChip, Sm!SmNext
<1>7. CASE Core
  BY <1>7, CoreSm, Zenon DEF Sm!SmNext
<1> QED
  BY <1>1, <1>2, <1>3, <1>4, <1>5, <1>6, <1>7, Zenon DEF Next, Reader

\* Whatever the chips, the clocks and the order of the core's calls, the two
\* programs take only the steps of MultiSm, as any one of the chips sees them
\* (hx711_multi_reader.pio:81-125): the words of a frame are the bits of one
\* conversion in their order unless a restart tore it, one that finds no room is
\* lost whole, and the gain the chip takes from the pulses is the code that was
\* pulled last.  This is ImplementsMultiSm but for the fairness of MultiSm.
THEOREM StepsOfMultiSm == Spec => Sm!SmInit /\ [][Sm!SmNext]_(Sm!smVars)
<1>1. PioInv /\ [Next]_vars => [Sm!SmNext]_(Sm!smVars)
  BY StepSm
<1> QED
  BY <1>1, InitSm, PioInvariant, PTL DEF Spec

=============================================================================

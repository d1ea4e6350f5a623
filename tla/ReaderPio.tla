------------------------------ MODULE ReaderPio ------------------------------
(***************************************************************************)
(* src/src/hx711_reader.pio one instruction at a time: the scratch         *)
(* registers, the shift registers with autopush, the clock pin, and the    *)
(* pulses the HX711 counts.  It implements ReaderSm.                       *)
(***************************************************************************)
EXTENDS Integers, Sequences

CONSTANTS
  Gains,        \* gain codes, 0..2
  DefaultGain,  \* DEFAULT_GAIN
  Depth,        \* RX FIFO entries
  Bits,         \* HX711_READ_BITS, and READ_BITS + 1 of the program: 24
  WordMod       \* 2^32: the registers wrap

ASSUME PioAssumption ==
  /\ DefaultGain \in Gains /\ Gains \subseteq Nat
  /\ Depth \in Nat \ {0}
  /\ Bits \in Nat \ {0}
  /\ WordMod \in Nat /\ WordMod > Bits /\ \A g \in Gains : g < WordMod

VARIABLES
  running,  \* SM_ENABLE
  pc,       \* address of the next instruction, 0..13
  x, y,     \* scratch registers
  osr,      \* output shift register
  isr,      \* input shift register: for each bit, its place in the conversion
  tx, rx,   \* FIFOs
  clk,      \* the latch of the clock pin
  chip      \* the HX711, with the pulses it counted since DOUT went low

vars == <<running, pc, x, y, osr, isr, tx, rx, clk, chip>>

\* The pulses that follow the bits of a frame, for each gain code: see ReaderSm.
GainPulses(g) == IF g = 0 THEN 1 ELSE g + 2

PulseCounts == {GainPulses(g) : g \in Gains}

\* The most pulses of a frame are those of the largest gain code; a torn frame, and
\* only that, may have more.
MaxPulses == Bits + 2 + WordMod

PioTypeOK ==
  /\ running \in BOOLEAN
  /\ pc \in 0..13
  /\ {x, osr} \subseteq Gains
  /\ y \in 0..(WordMod - 1)
  /\ isr \in Seq(0..Bits) /\ Len(isr) < Bits
  /\ tx \in Seq(Gains) /\ Len(tx) <= 1
  /\ rx \in Seq([gain : PulseCounts, whole : BOOLEAN]) /\ Len(rx) <= Depth
  /\ clk \in BOOLEAN
  /\ chip \in [on : BOOLEAN, gain : PulseCounts, pulses : 0..MaxPulses,
               frame : {"converting", "ready", "clocked", "torn"}]

Init ==
  /\ running = FALSE
  /\ pc = 0
  /\ x = DefaultGain /\ y = 0 /\ osr = DefaultGain
  /\ isr = <<>> /\ tx = <<>> /\ rx = <<>>
  /\ clk = FALSE
  /\ chip \in {[on |-> TRUE, gain |-> g, pulses |-> 0, frame |-> f]
                 : g \in PulseCounts, f \in {"converting", "ready"}}
       \cup {[on |-> TRUE, gain |-> g, pulses |-> p, frame |-> "clocked"]
                 : g \in PulseCounts, p \in 1..(Bits - 1)}

-----------------------------------------------------------------------------
(* The chip. *)

\* The pulses after the clock pin is set high: no edge if it was high already.
PulsesNow == IF clk \/ chip.pulses = MaxPulses THEN chip.pulses ELSE chip.pulses + 1

\* The n-th rising edge after DOUT went low puts the n-th bit on DOUT.
SetHigh ==
  IF chip.frame = "converting" THEN chip ELSE [chip EXCEPT !.pulses = PulsesNow]

\* A frame is clocked out whole if the program finds its first bit there.
SetHighFirst ==
  IF chip.frame = "converting" THEN chip
  ELSE [chip EXCEPT !.pulses = PulsesNow,
                    !.frame = IF PulsesNow = 1 THEN "clocked" ELSE "torn"]

\* The place of the bit on DOUT; 0 when DOUT shows no bit of a conversion.
DataBit == IF chip.pulses <= Bits THEN chip.pulses ELSE 0

\* The pulses end and the chip starts to convert: those after the bits select the
\* gain.  What a chip makes of the pulses of a torn frame is not specified.
FrameEnds ==
  CASE chip.frame = "converting" -> {chip}
    [] chip.frame = "torn" ->
         {[chip EXCEPT !.frame = "converting", !.gain = g, !.pulses = 0]
            : g \in PulseCounts}
    [] OTHER -> {[chip EXCEPT !.frame = "converting",
                              !.gain = chip.pulses - Bits, !.pulses = 0]}

Woken(c) ==
  IF c.on THEN {c}
  ELSE {[on |-> TRUE, gain |-> g, frame |-> "converting", pulses |-> 0]
          : g \in {c.gain, GainPulses(DefaultGain)}}

AtRest == ~running \/ pc <= 4 \/ (pc = 5 /\ isr = <<>>)

Convert ==
  /\ chip.on /\ AtRest
  /\ chip' = [chip EXCEPT !.frame = "ready", !.pulses = 0]
  /\ UNCHANGED <<running, pc, x, y, osr, isr, tx, rx, clk>>

\* The `in` that completes the word finds the RX FIFO full.
Stalled == running /\ pc = 6 /\ Len(isr) = Bits - 1 /\ Len(rx) = Depth

Sleep ==
  /\ chip.on /\ clk
  /\ ~running \/ pc <= 4 \/ Stalled
  /\ chip' = [chip EXCEPT !.on = FALSE]
  /\ UNCHANGED <<running, pc, x, y, osr, isr, tx, rx, clk>>

-----------------------------------------------------------------------------
(* The instructions. *)

At(i) == running /\ pc = i

SetX ==
  /\ At(0)
  /\ x' = DefaultGain /\ pc' = 1
  /\ UNCHANGED <<running, y, osr, isr, tx, rx, clk, chip>>

\* Mutant of PullNoblock: nothing in the FIFO means the default gain.
PullDefault(side) ==
  /\ osr' = IF tx = <<>> THEN DefaultGain ELSE Head(tx)
  /\ tx' = IF tx = <<>> THEN tx ELSE Tail(tx)
  /\ clk' = side
  /\ pc' = pc + 1
  /\ UNCHANGED <<running, x, y, isr, rx>>

\* `pull noblock`: with nothing in the FIFO the OSR gets a copy of x.
PullNoblock(side) ==
  /\ osr' = IF tx = <<>> THEN x ELSE Head(tx)
  /\ tx' = IF tx = <<>> THEN tx ELSE Tail(tx)
  /\ clk' = side
  /\ pc' = pc + 1
  /\ UNCHANGED <<running, x, y, isr, rx>>

PullBoot == At(1) /\ PullNoblock(clk) /\ UNCHANGED chip

\* `side HIGH`: the rising edge of the 25th pulse.
PullGain == At(8) /\ PullNoblock(TRUE) /\ chip' = SetHigh

OutX ==
  /\ At(2) \/ At(9)
  /\ x' = osr /\ pc' = pc + 1
  /\ UNCHANGED <<running, y, osr, isr, tx, rx, clk, chip>>

\* Mutant of SetY: READ_BITS without the - 1 that `jmp y--` asks for.
SetYBits ==
  /\ At(3)
  /\ y' = Bits /\ pc' = 4
  /\ UNCHANGED <<running, x, osr, isr, tx, rx, clk, chip>>

SetY ==
  /\ At(3)
  /\ y' = Bits - 1 /\ pc' = 4
  /\ UNCHANGED <<running, x, osr, isr, tx, rx, clk, chip>>

\* DOUT is low; in the middle of a read-out it may be.
WaitLow ==
  /\ At(4)
  /\ chip.on /\ chip.frame # "converting"
  /\ pc' = 5
  /\ UNCHANGED <<running, x, y, osr, isr, tx, rx, clk, chip>>

\* `set pins, HIGH`, of the bit loop and of the gain loop.
SetPins ==
  /\ At(5) \/ At(12)
  /\ clk' = TRUE
  /\ chip' = IF pc = 5 /\ isr = <<>> THEN SetHighFirst ELSE SetHigh
  /\ pc' = pc + 1
  /\ UNCHANGED <<running, x, y, osr, isr, tx, rx>>

InPins ==
  /\ At(6) /\ Len(isr) < Bits - 1
  /\ isr' = Append(isr, DataBit)
  /\ pc' = 7
  /\ UNCHANGED <<running, x, y, osr, tx, rx, clk, chip>>

\* Mutant of InPinsPush: it does not wait for room in the FIFO.
InPinsPushAnyway ==
  /\ At(6) /\ Len(isr) = Bits - 1
  /\ rx' = Append(rx, [gain  |-> chip.gain,
                       whole |-> Append(isr, DataBit) = [i \in 1..Bits |-> i]])
  /\ isr' = <<>>
  /\ chip' \in Woken(chip)
  /\ pc' = 7
  /\ UNCHANGED <<running, x, y, osr, tx, clk>>

\* The `in` that autopushes.  It ends a stall, and the next instruction lowers
\* the clock: a chip that went to sleep meanwhile wakes.
InPinsPush ==
  /\ At(6) /\ Len(isr) = Bits - 1 /\ Len(rx) < Depth
  /\ rx' = Append(rx, [gain  |-> chip.gain,
                       whole |-> Append(isr, DataBit) = [i \in 1..Bits |-> i]])
  /\ isr' = <<>>
  /\ chip' \in Woken(chip)
  /\ pc' = 7
  /\ UNCHANGED <<running, x, y, osr, tx, clk>>

\* `jmp y-- loop side LOW`: y is tested before it is decremented, so a loop that
\* starts with y = n runs n + 1 times.
LoopY(loop, next) ==
  /\ y' = (y - 1) % WordMod
  /\ pc' = IF y # 0 THEN loop ELSE next
  /\ clk' = FALSE
  /\ UNCHANGED <<running, x, osr, isr, tx, rx>>

BitLoop == At(7) /\ LoopY(5, 8) /\ UNCHANGED chip

\* `jmp !x wrap_target side LOW`.
JmpNotX ==
  /\ At(10)
  /\ clk' = FALSE
  /\ IF x = 0 THEN pc' = 3 /\ chip' \in FrameEnds
     ELSE pc' = 11 /\ UNCHANGED chip
  /\ UNCHANGED <<running, x, y, osr, isr, tx, rx>>

MovYX ==
  /\ At(11)
  /\ y' = x /\ pc' = 12
  /\ UNCHANGED <<running, x, osr, isr, tx, rx, clk, chip>>

\* At the end the program wraps.
GainLoop ==
  /\ At(13) /\ LoopY(12, 3)
  /\ IF y = 0 THEN chip' \in FrameEnds ELSE UNCHANGED chip

Exec ==
  \/ SetX \/ PullBoot \/ OutX \/ SetY \/ WaitLow \/ SetPins \/ InPins
  \/ InPinsPush \/ BitLoop \/ PullGain \/ JmpNotX \/ MovYX \/ GainLoop

-----------------------------------------------------------------------------
(* What a core does to the SM. *)

Put(g) ==
  /\ tx = <<>> /\ tx' = <<g>>
  /\ UNCHANGED <<running, pc, x, y, osr, isr, rx, clk, chip>>

Drain ==
  /\ tx' = <<>>
  /\ UNCHANGED <<running, pc, x, y, osr, isr, rx, clk, chip>>

Get ==
  /\ rx' = IF rx = <<>> THEN rx ELSE Tail(rx)
  /\ UNCHANGED <<running, pc, x, y, osr, isr, tx, clk, chip>>

\* pio_sm_init clears the FIFOs and shift registers and jumps to the start; the
\* scratch registers and the pin latch keep their contents.
Start(g) ==
  /\ running' = TRUE
  /\ pc' = 0
  /\ isr' = <<>> /\ tx' = <<g>> /\ rx' = <<>>
  /\ UNCHANGED <<x, y, osr, clk, chip>>

Stop ==
  /\ running' = FALSE
  /\ UNCHANGED <<pc, x, y, osr, isr, tx, rx, clk, chip>>

\* hx711_init: a pin that rests high goes low and, with the PIO's latch, high.
Pulsed(c) ==
  IF ~clk THEN {c}
  ELSE {CASE d.frame = "ready" -> [d EXCEPT !.frame = "clocked", !.pulses = 1]
          [] d.frame \in {"clocked", "torn"} /\ d.pulses < MaxPulses ->
               [d EXCEPT !.pulses = @ + 1]
          [] OTHER -> d : d \in Woken(c)}

Prepare ==
  /\ ~running
  /\ tx' = <<>> /\ rx' = <<>>
  /\ chip' \in Pulsed(chip)
  /\ UNCHANGED <<running, pc, x, y, osr, isr, clk>>

Core ==
  \/ \E g \in Gains : Put(g) \/ Start(g)
  \/ Drain \/ Get \/ Stop \/ Prepare

Next == Exec \/ Convert \/ Sleep \/ Core

\* The SM executes unless an instruction stalls.  A power_up takes far longer
\* than the first two instructions, so no sequence of them keeps the SM there.
Spec == Init /\ [][Next]_vars /\ WF_vars(Exec) /\ SF_vars(PullBoot)

-----------------------------------------------------------------------------
(* The phase of ReaderSm each instruction belongs to. *)

PhaseAt ==
  CASE pc <= 1 -> "boot"
    [] pc \in 2..4 \/ (pc = 5 /\ isr = <<>>) -> "wait"
    [] pc = 8 \/ (pc = 7 /\ isr = <<>>) -> "pull"
    [] pc >= 9 -> "gain"
    [] OTHER -> "shift"

XAt == CASE pc = 0 -> DefaultGain
         [] pc \in {2, 9} -> osr
         [] OTHER -> x

\* The pin rests high, except where the program drives it.
HeldAt == clk /\ ~(running /\ PhaseAt \in {"shift", "pull", "gain"})

ChipAt == [on |-> chip.on, gain |-> chip.gain, frame |-> chip.frame]

Sm == INSTANCE ReaderSm WITH phase <- PhaseAt, x <- XAt, held <- HeldAt, chip <- ChipAt

\* The program does what the phases of ReaderSm say, including that it never
\* stays in one for ever: a word is 24 bits of one conversion unless the chip
\* was torn, the push waits for room, and the gain is selected by one pulse for
\* code 0 and code + 2 for the others, of the code pulled last
\* (hx711_reader.pio:87-166).
ImplementsReaderSm == Sm!SmSpec

\* The two counters of a frame agree: the bit loop's y, which decides when the
\* 25th pulse is due, and the shift count, which decides when the word is
\* pushed (hx711_reader.pio:79, 107, 297-301).  A restart in mid-frame, which
\* leaves y as it was, does not set them apart.
CountersAgree ==
  running =>
    /\ pc \in {5, 6} => y + Len(isr) = Bits - 1
    /\ pc = 7 => y + (IF isr = <<>> THEN Bits ELSE Len(isr)) = Bits
    /\ pc \notin 5..7 => isr = <<>>

(* The invariant behind the refinement.                                       *)

\* A chip that powered down found its clock high, where the SM rests with it.
SleepsHigh ==
  ~chip.on => /\ clk
              /\ running => pc <= 4 \/ (pc = 6 /\ Len(isr) = Bits - 1)

\* Its pulses begin with the first rising edge after DOUT went low.
PulsesBegin ==
  /\ chip.frame = "ready" => chip.pulses = 0
  /\ chip.frame = "clocked" => chip.pulses >= 1

\* The program lowered the clock before it raises it again within a frame.
ClockLow == pc \in {8, 11, 12} \/ (pc = 5 /\ isr # <<>>) => ~clk

\* Where the program is says what the chip does.
BeforeBits == pc = 5 /\ isr = <<>>
AmongBits  == pc = 6 \/ (pc \in {5, 7} /\ isr # <<>>)
AfterBits  == pc \in 8..13 \/ (pc = 7 /\ isr = <<>>)

FrameFits ==
  /\ pc = 1 => x = DefaultGain
  /\ pc = 4 => y = Bits - 1
  /\ BeforeBits => chip.on /\ chip.frame # "converting"
  /\ AmongBits => chip.frame \in {"clocked", "torn"}
  /\ AfterBits => chip.frame # "ready"

\* The pulses so far, of a frame that is not torn, are what the program's
\* counters say.
PulsesCounted ==
  chip.frame = "clocked" =>
    /\ pc \in {5, 7} /\ isr # <<>> => chip.pulses = Len(isr)
    /\ pc = 6 => chip.pulses = Len(isr) + 1
    /\ (pc = 7 /\ isr = <<>>) \/ pc = 8 => chip.pulses = Bits
    /\ pc \in 9..11 => chip.pulses = Bits + 1
    /\ pc = 12 => chip.pulses + y = Bits + 1 + x
    /\ pc = 13 => chip.pulses + y = Bits + 2 + x

\* Each bit is at its place; of a torn frame, the first one is not.
BitsPlaced ==
  /\ chip.frame = "clocked" => \A i \in DOMAIN isr : isr[i] = i
  /\ chip.frame = "torn" => /\ AmongBits /\ isr = <<>> => chip.pulses # 1
                            /\ isr # <<>> => isr[1] # 1

GainLoops == (pc = 11 => x # 0) /\ (pc \in {12, 13} => x # 0 /\ y <= x)

PioInv ==
  /\ PioTypeOK /\ CountersAgree /\ SleepsHigh /\ PulsesBegin
  /\ running => FrameFits /\ ClockLow /\ PulsesCounted /\ BitsPlaced /\ GainLoops

\* hx711.c:497-503 "gain = clock pulses - 24 - 1": the pulses of a frame are the
\* HX711_CLOCK_PULSES of the gain (hx711.c:44-48).
ClockPulses ==
  [][chip.frame = "clocked" /\ pc >= 10 /\ pc' = 3 => chip.pulses - Bits - 1 = x]_vars

=============================================================================

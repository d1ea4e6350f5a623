------------------------------ MODULE MultiPio ------------------------------
(***************************************************************************)
(* The two programs of a hx711_multi_t one instruction at a time:          *)
(* src/src/hx711_multi_awaiter.pio at the system clock and                 *)
(* src/src/hx711_multi_reader.pio at a fraction of it, with the interrupt  *)
(* flag between them and each of the HX711s on the common clock pin.  Seen *)
(* from any one chip, it implements MultiSm.                               *)
(***************************************************************************)
EXTENDS Integers, Sequences

CONSTANTS
  Chips,        \* the HX711s, chips_len of them
  Seen,         \* the one MultiSm tells of; the chips are all alike
  Gains,        \* gain codes, 0..2
  DefaultGain,  \* DEFAULT_GAIN
  Bits,         \* READ_BITS + 1 of the reader: 24
  Depth,        \* entries of a RX FIFO: 4
  WordMod,      \* 2^32: the registers wrap
  Div           \* the steps of the awaiter, a sample or what it does with it,
                \* that fit between two instructions of the reader

ASSUME MultiPioAssumption ==
  /\ Seen \in Chips
  /\ DefaultGain \in Gains /\ Gains \subseteq Nat
  /\ {Bits, Depth, Div} \subseteq Nat \ {0}
  /\ WordMod \in Nat /\ WordMod > Bits /\ \A g \in Gains : g < WordMod

VARIABLES
  en,              \* both SMs are enabled
  tick,            \* the awaiter's steps since the reader's last instruction,
                   \* counted up to Div
  apc,             \* the awaiter: address of its next instruction, 0, 4 or 6
  ready,           \* PIO interrupt flag 4: DATA_READY
  rpc,             \* the reader: address of its next instruction, 0..18
  x, y, osr,       \* its scratch registers and output shift register
  isr,             \* its ISR
  tx, rx,          \* its FIFOs
  clk,             \* the latch of the clock pin
  flag,            \* PIO interrupt flag 0: CONVERSION_DONE
  chip,            \* each chip: its gain, where it is, the pulses it counted
  frame            \* number of the current frame, modulo 2

readerVars  == <<rpc, x, y, osr, isr, tx, rx, clk>>
vars == <<en, tick, apc, ready, readerVars, flag, chip, frame>>

TornBit == Bits + 1

\* The pulses that follow the bits of a frame, for each gain code.
GainPulses(g) == IF g = 0 THEN 1 ELSE g + 2

PulseCounts == {GainPulses(g) : g \in Gains}

\* A word of the reader: the bit of each chip, and the number of pulses after the
\* bits that selected the gain it was converted at.
Word == [bit : [Chips -> 0..TornBit], frame : 0..1, gain : [Chips -> PulseCounts]]

\* The most pulses of a frame: those of the largest gain code.  The pulses of
\* a torn frame are not counted: it has no end of its own.
MaxPulses == Bits + 2 + WordMod

PioTypeOK ==
  /\ {en, ready, clk, flag} \subseteq BOOLEAN
  /\ tick \in 0..Div /\ apc \in {0, 4, 6}
  /\ rpc \in 0..18 /\ x \in Gains /\ osr \in Gains \cup {0} /\ y \in 0..(WordMod - 1)
  /\ isr \in Word
  /\ tx \in Seq(Gains) /\ Len(tx) <= 1
  /\ rx \in Seq(Word) /\ Len(rx) <= Depth
  /\ chip \in [Chips -> [gain : PulseCounts, pulses : 0..MaxPulses,
                         frame : {"converting", "ready", "clocked", "torn", "asleep"}]]
  /\ frame \in 0..1

\* An empty ISR: no chip's bits.
NullWord == [bit |-> [c \in Chips |-> 0], frame |-> 0,
             gain |-> [c \in Chips |-> GainPulses(DefaultGain)]]

\* After hx711_multi_init.  The chips convert, each on its own, or were left in
\* the middle of a read-out, which the common clock does to all of them.
Init ==
  /\ en = FALSE /\ tick = 0
  /\ apc = 0 /\ ready = FALSE
  /\ rpc = 0 /\ x = DefaultGain /\ y = 0 /\ osr = 0
  /\ isr = NullWord /\ tx = <<>> /\ rx = <<>> /\ clk = FALSE /\ flag = FALSE
  /\ \/ chip \in [Chips -> [gain : {GainPulses(DefaultGain)}, pulses : {0},
                            frame : {"converting", "ready"}]]
     \/ chip = [c \in Chips |->
                  [gain |-> GainPulses(DefaultGain), pulses |-> 1, frame |-> "clocked"]]
  /\ frame = 0

-----------------------------------------------------------------------------
(* The chips. *)

\* The n-th rising edge after DOUT went low puts the n-th bit on DOUT.
RisingEdge ==
  [c \in Chips |-> IF chip[c].frame = "clocked" THEN [chip[c] EXCEPT !.pulses = @ + 1]
                   ELSE chip[c]]

\* The first `set pins, HIGH` of a frame finds a chip ready, in a frame that was
\* left half clocked out, or asleep.  With the pin high already there is no edge,
\* and only a chip that shows its first bit has begun a frame.
FirstSetHigh ==
  [c \in Chips |->
     CASE chip[c].frame = "ready" /\ ~clk ->
            [chip[c] EXCEPT !.frame = "clocked", !.pulses = 1]
       [] chip[c].frame = "clocked" /\ chip[c].pulses = 1 /\ clk -> chip[c]
       [] chip[c].frame = "converting" -> chip[c]
       [] OTHER -> [chip[c] EXCEPT !.frame = "torn", !.pulses = 0]]

\* The bit on DOUT, if it is one of the frame that is being clocked out.
DataBit(c) ==
  CASE chip[c].frame = "clocked" /\ chip[c].pulses <= Bits -> chip[c].pulses
    [] chip[c].frame = "torn" -> TornBit
    [] OTHER -> 0

\* The levels of DOUT: high while a chip converts or is asleep, low when it is
\* ready, either while it shows a bit.
High == {c \in Chips : chip[c].frame = "converting"}

PinLevels ==
  LET asleep  == {c \in Chips : chip[c].frame = "asleep"}
      showing == {c \in Chips : chip[c].frame \in {"clocked", "torn"}}
  IN  {High \cup asleep \cup s : s \in SUBSET showing}

\* The pulses of a frame end: those after the bits select the gain.  What a chip
\* makes of the pulses of a torn frame is not specified.
FrameEnds ==
  {[c \in Chips |-> [gain |-> IF chip[c].frame = "clocked" THEN chip[c].pulses - Bits
                              ELSE g[c],
                     pulses |-> 0, frame |-> "converting"]] : g \in [Chips -> PulseCounts]}

\* No conversion completes while a frame is clocked out.
AtRest == ~en \/ rpc <= 6

Convert(c) ==
  /\ AtRest /\ chip[c].frame \notin {"ready", "asleep"}
  /\ chip' = [chip EXCEPT ![c].frame = "ready", ![c].pulses = 0]
  /\ UNCHANGED <<en, tick, apc, ready, readerVars, flag, frame>>

\* The clock pin has been high for HX711_POWER_DOWN_TIMEOUT, far longer than the
\* instructions before the wait take: the chips, all on this pin, are powered down.
Sleep ==
  /\ ~en \/ rpc = 6
  /\ clk /\ \E c \in Chips : chip[c].frame # "asleep"
  /\ chip' = [c \in Chips |-> [chip[c] EXCEPT !.frame = "asleep", !.pulses = 0]]
  /\ UNCHANGED <<en, tick, apc, ready, readerVars, flag, frame>>

-----------------------------------------------------------------------------
(* The awaiter runs at the system clock, 5 or 6 clocks for a turn of two     *)
(* steps; the reader has one instruction in 12 or 13 clocks at 125 MHz.      *)

AwaiterAt(i) ==
  /\ en /\ apc = i
  /\ tick' = IF tick < Div THEN tick + 1 ELSE tick

\* `in pins, chips_len; mov y, isr; push noblock; jmp !y signal_low`.
Sample ==
  /\ AwaiterAt(0)
  /\ \E pins \in PinLevels : apc' = IF pins = {} THEN 6 ELSE 4
  /\ UNCHANGED <<en, ready, readerVars, flag, chip, frame>>

\* Mutant of ClearReady: the flag stays once it was set.
ClearReadyNot ==
  /\ AwaiterAt(4) /\ apc' = 0
  /\ UNCHANGED <<en, ready, readerVars, flag, chip, frame>>

\* `irq clear DATA_READY; jmp wrap_target`.
ClearReady ==
  /\ AwaiterAt(4) /\ apc' = 0
  /\ ready' = FALSE
  /\ UNCHANGED <<en, readerVars, flag, chip, frame>>

\* `irq set DATA_READY`, and the wrap.
SetReady ==
  /\ AwaiterAt(6) /\ apc' = 0
  /\ ready' = TRUE
  /\ UNCHANGED <<en, readerVars, flag, chip, frame>>

Awaiter == Sample \/ ClearReady \/ SetReady

ReaderAt(i) ==
  /\ en /\ rpc = i /\ tick = Div
  /\ tick' = 0

SetX ==
  /\ ReaderAt(0)
  /\ x' = DefaultGain /\ rpc' = 1
  /\ UNCHANGED <<en, apc, ready, y, osr, isr, tx, rx, flag, clk, chip, frame>>

\* Mutant of PullNoblock: nothing in the FIFO means the default gain.
PullDefault ==
  /\ osr' = IF tx = <<>> THEN DefaultGain ELSE Head(tx)
  /\ tx' = IF tx = <<>> THEN tx ELSE Tail(tx)
  /\ rpc' = rpc + 1
  /\ UNCHANGED <<en, apc, ready, x, y, isr, rx, flag, frame>>

\* `pull noblock`: with nothing in the FIFO the OSR gets a copy of x.
PullNoblock ==
  /\ osr' = IF tx = <<>> THEN x ELSE Head(tx)
  /\ tx' = IF tx = <<>> THEN tx ELSE Tail(tx)
  /\ rpc' = rpc + 1
  /\ UNCHANGED <<en, apc, ready, x, y, isr, rx, flag, frame>>

PullBoot == ReaderAt(1) /\ PullNoblock /\ UNCHANGED <<clk, chip>>

\* `side HIGH`: the rising edge of the 25th pulse.
PullGain == ReaderAt(13) /\ PullNoblock /\ clk' = TRUE /\ chip' = RisingEdge

\* `out x, 32` leaves zeros in the OSR.
OutX ==
  /\ ReaderAt(2) \/ ReaderAt(14)
  /\ x' = osr /\ osr' = 0 /\ rpc' = rpc + 1
  /\ UNCHANGED <<en, apc, ready, y, isr, tx, rx, flag, clk, chip, frame>>

SetY ==
  /\ ReaderAt(3)
  /\ y' = Bits - 1 /\ rpc' = 4
  /\ UNCHANGED <<en, apc, ready, x, osr, isr, tx, rx, flag, clk, chip, frame>>

\* `in null, 32`.
InNull ==
  /\ ReaderAt(4)
  /\ isr' = NullWord /\ rpc' = 5
  /\ UNCHANGED <<en, apc, ready, x, y, osr, tx, rx, flag, clk, chip, frame>>

\* Mutant of PushNoblock: without the limit of the FIFO.
PushAnyway ==
  /\ ReaderAt(5) \/ ReaderAt(10)
  /\ rx' = Append(rx, isr)
  /\ isr' = NullWord /\ rpc' = rpc + 1
  /\ UNCHANGED <<en, apc, ready, x, y, osr, tx, flag, clk, chip, frame>>

PushNoblock ==
  /\ ReaderAt(5) \/ ReaderAt(10)
  /\ rx' = IF Len(rx) < Depth THEN Append(rx, isr) ELSE rx
  /\ isr' = NullWord /\ rpc' = rpc + 1
  /\ UNCHANGED <<en, apc, ready, x, y, osr, tx, flag, clk, chip, frame>>

\* `wait HIGH irq DATA_READY` clears the flag it waited for.
WaitReady ==
  /\ ReaderAt(6) /\ ready
  /\ ready' = FALSE /\ frame' = (frame + 1) % 2
  /\ rpc' = 7
  /\ UNCHANGED <<en, apc, x, y, osr, isr, tx, rx, flag, clk, chip>>

WaitStalls ==
  /\ ReaderAt(6) /\ ~ready
  /\ UNCHANGED <<en, apc, ready, readerVars, flag, chip, frame>>

\* `irq clear CONVERSION_DONE`.
ClearDone ==
  /\ ReaderAt(7)
  /\ flag' = FALSE /\ rpc' = 8
  /\ UNCHANGED <<en, apc, ready, x, y, osr, isr, tx, rx, clk, chip, frame>>

\* `set pins, HIGH`, of the bit loop and of the gain loop.
SetPins ==
  /\ ReaderAt(8) \/ ReaderAt(17)
  /\ clk' = TRUE
  /\ chip' = IF rpc = 8 /\ y = Bits - 1 THEN FirstSetHigh ELSE RisingEdge
  /\ rpc' = rpc + 1
  /\ UNCHANGED <<en, apc, ready, x, y, osr, isr, tx, rx, flag, frame>>

\* `in pins, chips_len`.
InBits ==
  /\ ReaderAt(9)
  /\ isr' = [bit |-> [c \in Chips |-> DataBit(c)], frame |-> frame,
             gain |-> [c \in Chips |-> chip[c].gain]]
  /\ rpc' = 10
  /\ UNCHANGED <<en, apc, ready, x, y, osr, tx, rx, flag, clk, chip, frame>>

\* `jmp y-- loop side LOW`: y is tested before it is decremented.
LoopY(loop, next) ==
  /\ y' = (y - 1) % WordMod
  /\ rpc' = IF y # 0 THEN loop ELSE next
  /\ clk' = FALSE
  /\ UNCHANGED <<en, apc, ready, x, osr, isr, tx, rx, flag, frame>>

BitLoop == ReaderAt(11) /\ LoopY(8, 12) /\ UNCHANGED chip

\* `irq set CONVERSION_DONE`.
SetDone ==
  /\ ReaderAt(12)
  /\ flag' = TRUE /\ rpc' = 13
  /\ UNCHANGED <<en, apc, ready, x, y, osr, isr, tx, rx, clk, chip, frame>>

\* `jmp !x wrap_target side LOW`.
JmpNotX ==
  /\ ReaderAt(15)
  /\ clk' = FALSE
  /\ IF x = 0 THEN rpc' = 3 /\ chip' \in FrameEnds
     ELSE rpc' = 16 /\ UNCHANGED chip
  /\ UNCHANGED <<en, apc, ready, x, y, osr, isr, tx, rx, flag, frame>>

MovYX ==
  /\ ReaderAt(16)
  /\ y' = x /\ rpc' = 17
  /\ UNCHANGED <<en, apc, ready, x, osr, isr, tx, rx, flag, clk, chip, frame>>

GainLoop ==
  /\ ReaderAt(18) /\ LoopY(17, 3)
  /\ IF y = 0 THEN chip' \in FrameEnds ELSE UNCHANGED chip

Reader ==
  \/ SetX \/ PullBoot \/ OutX \/ SetY \/ InNull \/ PushNoblock \/ WaitReady
  \/ WaitStalls \/ ClearDone \/ SetPins \/ InBits \/ BitLoop \/ SetDone
  \/ PullGain \/ JmpNotX \/ MovYX \/ GainLoop

-----------------------------------------------------------------------------
(* What cores and the DMA channel do to the SMs. *)

Put(g) ==
  /\ tx = <<>> /\ tx' = <<g>>
  /\ UNCHANGED <<en, tick, apc, ready, rpc, x, y, osr, isr, rx, flag, clk, chip, frame>>

Drain ==
  /\ tx # <<>> /\ tx' = <<>>
  /\ UNCHANGED <<en, tick, apc, ready, rpc, x, y, osr, isr, rx, flag, clk, chip, frame>>

Take ==
  /\ rx # <<>> /\ rx' = Tail(rx)
  /\ UNCHANGED <<en, tick, apc, ready, rpc, x, y, osr, isr, tx, flag, clk, chip, frame>>

\* pio_sm_init of both SMs and the gain, then both are enabled.  The scratch
\* registers and the PIO's interrupt flags keep their contents.  pio_sm_init
\* first disables a SM that runs, which is StopSms.  The clock pin belongs to the PIO:
\* gpio_put does not reach it, and its latch keeps its level.
StartSms(g) ==
  /\ ~en /\ en' = TRUE /\ tick' = 0
  /\ apc' = 0 /\ rpc' = 0 /\ isr' = NullWord /\ tx' = <<g>> /\ rx' = <<>>
  /\ UNCHANGED <<ready, x, y, osr, flag, clk, chip, frame>>

\* Only pio_sm_init starts a stopped SM again, at its first instruction and with
\* an empty ISR, and y is set before it is read: where it stopped does not matter.
StopSms ==
  /\ en /\ en' = FALSE
  /\ tick' = 0 /\ apc' = 0 /\ rpc' = 0 /\ isr' = NullWord /\ y' = 0
  /\ UNCHANGED <<ready, x, osr, tx, rx, clk, flag, chip, frame>>

Core ==
  \/ \E g \in Gains : Put(g) \/ StartSms(g)
  \/ Drain \/ Take \/ StopSms

AnyChip == Sleep \/ \E c \in Chips : Convert(c)

Next == Awaiter \/ Reader \/ AnyChip \/ Core

Spec ==
  /\ Init /\ [][Next]_vars
  /\ WF_vars(Awaiter) /\ WF_vars(Reader) /\ WF_vars(AnyChip)

-----------------------------------------------------------------------------
(* The refinement, as one chip sees it. *)

PhaseAt ==
  CASE rpc <= 1 -> "boot"
    [] rpc \in 2..5 -> "null"
    [] rpc = 6 -> "wait"
    [] rpc = 7 -> "clear"
    [] rpc = 8 /\ y = Bits - 1 -> "edge"
    [] rpc = 12 \/ (rpc = 11 /\ y = 0) -> "done"
    [] rpc = 13 -> "pull"
    [] rpc >= 14 -> "gain"
    [] OTHER -> "bits"

CountAt == CASE rpc \in 8..10 -> Bits - 1 - y
             [] rpc = 11 -> (Bits - y) % Bits
             [] OTHER -> 0

XAt == CASE rpc = 0 -> DefaultGain
         [] rpc \in {2, 14} -> osr
         [] OTHER -> x

\* What a word says of chip c.
ColumnOf(c, w) == [bit |-> w.bit[c], frame |-> w.frame, gain |-> w.gain[c]]

Columns(s) == [i \in DOMAIN s |-> ColumnOf(Seen, s[i])]

\* The pin rests high, except where the program drives it.
HeldAt == clk /\ ~(en /\ PhaseAt \in {"bits", "done", "pull", "gain"})

ChipAt == [gain |-> chip[Seen].gain, frame |-> chip[Seen].frame]

Sm == INSTANCE MultiSm WITH
           phase <- PhaseAt, count <- CountAt, x <- XAt, rx <- Columns(rx),
           held <- HeldAt, chip <- ChipAt

\* The two programs together do what the phases of MultiSm say of one chip, with
\* the same fairness: neither SM waits for the other for ever, unless a stop left
\* the clock high and the chips fell asleep; a frame is 24 words of one conversion
\* unless it was torn by a restart; a word that has no room is lost whole; and the
\* gain is selected by one pulse for code 0 and code + 2 for the others, of the
\* code pulled last (hx711_multi_reader.pio:81-125).
ImplementsMultiSm == Sm!SmSpec

\* A frame begins only when no chip is converting: hx711_multi_awaiter.pio:43-45
\* "IRQ is set when all data pins become low. If any data pins are high, the IRQ is
\* cleared", and hx711_multi_reader.pio:93-98.  The flag, the pins and the
\* reader's clock pulses are seen at three different rates: what could go wrong
\* is a flag set for one frame that begins another.
BeginsTogether == [][frame' # frame => High = {}]_vars

-----------------------------------------------------------------------------
(* The invariant behind them. *)

\* The steps of the awaiter, at most, until it has lowered DATA_READY for chips
\* that convert, and the ones it has left, at least, before the reader waits for it.
Lag    == CASE apc = 6 -> 3 [] apc = 0 -> 2 [] OTHER -> 1
Margin == 6 - rpc + (IF tick < Div THEN 1 ELSE 0)

AwaiterInTime ==
  rpc <= 6 /\ (ready \/ apc = 6) => High = {} \/ Lag <= Margin

\* Where the program is says what the chips do.
FirstEdge == rpc = 8 /\ y = Bits - 1

FrameFits ==
  /\ rpc = 7 \/ FirstEdge => \A c \in Chips : chip[c].frame # "converting"
  /\ rpc \in 8..18 /\ ~FirstEdge => \A c \in Chips : chip[c].frame \in {"clocked", "torn"}

\* What the registers hold.
RegistersFit ==
  /\ rpc = 1 => x = DefaultGain
  /\ rpc \in 4..7 => y = Bits - 1
  /\ rpc \in 8..11 => y <= Bits - 1
  /\ rpc \in 16..18 => x # 0
  /\ rpc \in 17..18 => y <= x
  /\ rpc = 5 => isr = NullWord
  /\ rpc = 10 => isr = [bit |-> [c \in Chips |-> DataBit(c)], frame |-> frame,
                        gain |-> [c \in Chips |-> chip[c].gain]]

\* The pulses so far of a frame that is not torn.
Pulses ==
  CASE rpc = 8 -> Bits - 1 - y
    [] rpc \in 9..11 -> Bits - y
    [] rpc \in 12..13 -> Bits
    [] rpc \in 14..16 -> Bits + 1
    [] rpc = 17 -> Bits + 1 + x - y
    [] OTHER -> Bits + 2 + x - y

PulsesCounted ==
  rpc \in 8..18 /\ ~FirstEdge =>
    \A c \in Chips : chip[c].frame = "clocked" => chip[c].pulses = Pulses

\* The program lowered the clock, whoever stops it here.
ClockLow == rpc \in 12..13 => ~clk

PioInv ==
  /\ PioTypeOK
  /\ rpc \in {2, 14} => osr \in Gains
  /\ en => AwaiterInTime /\ FrameFits /\ RegistersFit /\ PulsesCounted /\ ClockLow

\* hx711.c:498-499 "gain = clock pulses - 24 - 1": the pulses of a frame are the
\* HX711_CLOCK_PULSES of the gain (hx711.c:44-48), for this reader as well.
ClockPulses ==
  [][rpc >= 15 /\ rpc' = 3 =>
       \A c \in Chips : chip[c].frame = "clocked" => chip[c].pulses - Bits - 1 = x]_vars

=============================================================================

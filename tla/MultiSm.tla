------------------------------ MODULE MultiSm ------------------------------
(***************************************************************************)
(* The multi-chip reader: the SM that runs                                 *)
(* src/src/hx711_multi_reader.pio, its FIFOs, and the HX711s, seen from    *)
(* one of them.  One action per phase of the program.  MultiPio.tla        *)
(* refines the phases to instructions, with the awaiter SM and each chip;  *)
(* HxMulti.tla composes this module with the driver.                       *)
(***************************************************************************)
EXTENDS Integers, Sequences

CONSTANTS
  Gains,        \* gain codes, 0..2
  DefaultGain,  \* DEFAULT_GAIN
  Bits,         \* HX711_READ_BITS: 24
  Depth         \* entries of the RX FIFO: 4

ASSUME MultiSmAssumption ==
  /\ DefaultGain \in Gains /\ Gains \subseteq Nat
  /\ Bits \in Nat \ {0} /\ Depth \in Nat \ {0}

VARIABLES
  en,      \* both SMs are enabled
  phase,   \* where the reader is
  count,   \* words of this frame it has pushed
  x, tx,   \* its gain register and TX FIFO
  rx,      \* its RX FIFO
  flag,    \* PIO interrupt flag 0: CONVERSION_DONE
  held,    \* a stopped reader left its clock-pin latch high
  chip,    \* the HX711
  frame    \* number of the current frame, modulo 2

smVars == <<en, phase, count, x, tx, rx, flag, held, chip, frame>>

\* The pulses that follow the bits of a frame and select the next gain: one, and
\* for a code that is not 0 those of a loop that runs code + 1 times.
GainPulses(g) == IF g = 0 THEN 1 ELSE g + 2

PulseCounts == {GainPulses(g) : g \in Gains}

\* A word holds one bit of each chip: its place in the frame, 0 for the null
\* word that the reader pushes itself, TornBit for a bit of a torn frame.  Its
\* gain is the number of pulses that selected it.
TornBit == Bits + 1

Word == [bit : 0..TornBit, frame : 0..1, gain : PulseCounts]

NullWord == [bit |-> 0, frame |-> 0, gain |-> GainPulses(DefaultGain)]

Phases == {"boot", "null", "wait", "clear", "edge", "bits", "done", "pull", "gain"}

SmTypeOK ==
  /\ {en, flag, held} \subseteq BOOLEAN
  /\ phase \in Phases /\ count \in 0..(Bits - 1) /\ x \in Gains
  /\ tx \in Seq(Gains) /\ Len(tx) <= 1
  /\ rx \in Seq(Word) /\ Len(rx) <= Depth
  /\ chip \in [gain : PulseCounts,
               frame : {"converting", "ready", "clocked", "torn", "asleep"}]
  /\ frame \in 0..1

SmInit ==
  /\ en = FALSE /\ phase = "boot" /\ count = 0
  /\ x = DefaultGain /\ tx = <<>> /\ rx = <<>>
  /\ flag = FALSE /\ held = FALSE
  /\ chip \in [gain : PulseCounts, frame : {"converting", "ready", "clocked"}]
  /\ frame = 0

-----------------------------------------------------------------------------
(* The program. *)

\* Mutant of PullInto: nothing in the TX FIFO means the default gain.
PullReloads(default) ==
  /\ x' = IF tx = <<>> THEN DefaultGain ELSE Head(tx)
  /\ tx' = IF tx = <<>> THEN tx ELSE Tail(tx)

\* `pull noblock; out x, 32`.
PullInto(default) ==
  /\ x' = IF tx = <<>> THEN default ELSE Head(tx)
  /\ tx' = IF tx = <<>> THEN tx ELSE Tail(tx)

\* Mutant of PushNoblock: without the limit of the FIFO.
PushAnyway(w) == rx' = Append(rx, w)

\* `push noblock`: a word for which there is no room is lost.
PushNoblock(w) == rx' = IF Len(rx) < Depth THEN Append(rx, w) ELSE rx

At(p) == en /\ phase = p

ReaderBoot ==
  /\ At("boot") /\ PullInto(DefaultGain) /\ phase' = "null"
  /\ UNCHANGED <<en, count, rx, flag, held, chip, frame>>

\* `in null, 32; push noblock`.
ReaderNull ==
  /\ At("null") /\ PushNoblock(NullWord) /\ phase' = "wait"
  /\ UNCHANGED <<en, count, x, tx, flag, held, chip, frame>>

\* `wait HIGH irq DATA_READY`: all data pins are low, or one bit of each chip is
\* when a frame is half clocked out.  A chip that is asleep holds DOUT high; the
\* flag that the reader finds may be from just before.
ReaderBegin ==
  /\ At("wait") /\ chip.frame # "converting"
  /\ phase' = "clear" /\ frame' = (frame + 1) % 2
  /\ UNCHANGED <<en, count, x, tx, rx, flag, held, chip>>

\* `irq clear CONVERSION_DONE`.
ReaderClear ==
  /\ At("clear") /\ flag' = FALSE /\ phase' = "edge"
  /\ UNCHANGED <<en, count, x, tx, rx, held, chip, frame>>

\* The first `set pins, HIGH` of the frame is a rising edge, unless the pin is high
\* already: then only a chip that shows its first bit is clocked out whole.
ReaderEdge ==
  /\ At("edge") /\ phase' = "bits"
  /\ held' = FALSE
  /\ \E f \in {"clocked", "torn"} :
       /\ ~held => (f = "clocked") = (chip.frame = "ready")
       /\ held /\ f = "clocked" => chip.frame = "clocked"
       /\ chip' = [chip EXCEPT !.frame = f]
  /\ UNCHANGED <<en, count, x, tx, rx, flag, frame>>

\* One turn of the bit loop, and what it pushes.
ReaderBit ==
  /\ At("bits")
  /\ PushNoblock([bit   |-> IF chip.frame = "clocked" THEN count + 1 ELSE TornBit,
                  frame |-> frame, gain |-> chip.gain])
  /\ count' = (count + 1) % Bits
  /\ phase' = IF count' = 0 THEN "done" ELSE "bits"
  /\ UNCHANGED <<en, x, tx, flag, held, chip, frame>>

\* `irq set CONVERSION_DONE`.
ReaderDone ==
  /\ At("done") /\ flag' = TRUE /\ phase' = "pull"
  /\ UNCHANGED <<en, count, x, tx, rx, held, chip, frame>>

\* `pull noblock side HIGH; out x, 32`.
ReaderPull ==
  /\ At("pull") /\ PullInto(x) /\ phase' = "gain"
  /\ UNCHANGED <<en, count, rx, flag, held, chip, frame>>

\* The 25th pulse and the gain loop; a torn frame ends at an unknown pulse.
ReaderGain ==
  /\ At("gain") /\ phase' = "null"
  /\ \E p \in PulseCounts :
       /\ chip.frame = "clocked" => p = GainPulses(x)
       /\ chip' = [gain |-> p, frame |-> "converting"]
  /\ UNCHANGED <<en, count, x, tx, rx, flag, held, frame>>

Reader ==
  \/ ReaderBoot \/ ReaderNull \/ ReaderBegin \/ ReaderClear \/ ReaderEdge
  \/ ReaderBit \/ ReaderDone \/ ReaderPull \/ ReaderGain

Resting == ~en \/ phase \in {"boot", "null", "wait"}

\* A conversion is ready.  None completes while a frame is clocked out, and none
\* in a chip that is asleep.
Convert ==
  /\ Resting /\ chip.frame \notin {"ready", "asleep"}
  /\ chip' = [chip EXCEPT !.frame = "ready"]
  /\ UNCHANGED <<en, phase, count, x, tx, rx, flag, held, frame>>

\* The clock pin has been high for HX711_POWER_DOWN_TIMEOUT.
Sleep ==
  /\ Resting /\ held /\ chip.frame # "asleep"
  /\ chip' = [chip EXCEPT !.frame = "asleep"]
  /\ UNCHANGED <<en, phase, count, x, tx, rx, flag, held, frame>>

-----------------------------------------------------------------------------
(* What cores and the DMA channel do to the SMs. *)

\* The level a stopped reader leaves on its clock pin.  Nothing lowers it before
\* the reader itself does: the pin is the PIO's, where gpio_put does not reach it.
LatchAfterStop ==
  IF en /\ phase \in {"bits", "done", "gain"} THEN BOOLEAN ELSE {held}

\* pio_sm_put; its callers empty the FIFO first.
Put(g) ==
  /\ tx' = Append(tx, g)
  /\ UNCHANGED <<en, phase, count, x, rx, flag, held, chip, frame>>

\* pio_sm_drain_tx_fifo.
Drain ==
  /\ tx' = <<>>
  /\ UNCHANGED <<en, phase, count, x, rx, flag, held, chip, frame>>

\* The oldest word leaves the RX FIFO.
Take ==
  /\ rx # <<>> /\ rx' = Tail(rx)
  /\ UNCHANGED <<en, phase, count, x, tx, flag, held, chip, frame>>

\* util_pio_sm_clear_rx_fifo: its loop empties the FIFO, whatever the reader
\* still pushes meanwhile; what counts is the moment it sees the FIFO empty.
ClearRx ==
  /\ rx' = <<>>
  /\ UNCHANGED <<en, phase, count, x, tx, flag, held, chip, frame>>

\* pio_interrupt_clear.
ClearFlag ==
  /\ flag' = FALSE
  /\ UNCHANGED <<en, phase, count, x, tx, rx, held, chip, frame>>

\* pio_sm_init of both SMs, the put of the gain, and the enabling of both, with
\* the reader's `set x, DEFAULT_GAIN`; the PIO's interrupt flags stay.  A reader
\* that runs is stopped first.
StartSms(g) ==
  /\ held' \in LatchAfterStop
  /\ en' = TRUE /\ phase' = "boot" /\ count' = 0
  /\ x' = DefaultGain /\ tx' = <<g>> /\ rx' = <<>>
  /\ UNCHANGED <<flag, chip, frame>>

\* pio_set_sm_mask_enabled(false).  The SMs are enabled again only at their first
\* instructions: of where they stopped, the pin alone keeps something.
StopSms ==
  /\ held' \in LatchAfterStop
  /\ en' = FALSE /\ phase' = "boot" /\ count' = 0 /\ x' = DefaultGain
  /\ UNCHANGED <<tx, rx, flag, chip, frame>>

-----------------------------------------------------------------------------
(* The module on its own: what it promises to a driver that keeps at most    *)
(* one gain in the TX FIFO.                                                  *)

SmCore ==
  \/ \E g \in Gains : (tx = <<>> /\ Put(g)) \/ StartSms(g)
  \/ Drain \/ Take \/ ClearRx \/ ClearFlag \/ StopSms

SmNext == Reader \/ Convert \/ Sleep \/ SmCore

\* A reader that waits for a chip that is asleep may wait for ever.
Stuck == phase = "wait" /\ chip.frame = "asleep"

SmSpec ==
  /\ SmInit /\ [][SmNext]_smVars
  /\ WF_smVars(Reader /\ ~Stuck) /\ WF_smVars(Convert)

=============================================================================

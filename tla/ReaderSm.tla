------------------------------ MODULE ReaderSm ------------------------------
(***************************************************************************)
(* The single-chip reader: one PIO state machine (SM) running the program  *)
(* of src/src/hx711_reader.pio, its TX and RX FIFOs, and the HX711 wired   *)
(* to it.  One action per phase of the program; ReaderPio.tla refines the  *)
(* phases to single instructions.  Hx711.tla composes this module with the *)
(* driver that runs on the cores.                                          *)
(***************************************************************************)
EXTENDS Integers, Sequences

CONSTANTS
  Gains,        \* PIO gain codes, 0..2 in the code (HX711_PIO_MIN/MAX_GAIN)
  DefaultGain,  \* DEFAULT_GAIN of the program, and the chip's reset gain: 0
  Depth         \* entries of the RX FIFO: 4 on the RP2040

ASSUME ReaderAssumption ==
  /\ DefaultGain \in Gains /\ Gains \subseteq Nat
  /\ Depth \in Nat \ {0}

VARIABLES
  running,   \* the SM_ENABLE bit
  phase,     \* where the program counter is
  x,         \* scratch register x: the gain code to send
  tx, rx,    \* the FIFOs, oldest entry first
  held,      \* a stopped SM left its clock-pin latch high
  chip       \* the HX711

smVars == <<running, phase, x, tx, rx, held, chip>>

(***************************************************************************)
(* A word of the RX FIFO stands for a 24-bit value: the gain it was        *)
(* converted with, as the number of pulses that selected it, and whether   *)
(* all its bits come from one conversion.  Which gain the chip takes these *)
(* pulses for is a question for ReaderPio.tla.                             *)
(***************************************************************************)

\* The pulses that follow the bits of a frame: one, and for a code that is not 0
\* those of a loop that runs code + 1 times.
GainPulses(g) == IF g = 0 THEN 1 ELSE g + 2

PulseCounts == {GainPulses(g) : g \in Gains}

Word == [gain : PulseCounts, whole : BOOLEAN]

Phases == {"boot", "wait", "shift", "pull", "gain"}

(***************************************************************************)
(* frame: "converting" (DOUT high), "ready" (DOUT low, nothing clocked     *)
(* out), "clocked" (being clocked out from its first bit), "torn" (being   *)
(* clocked out, but the program did not start at the first bit).           *)
(***************************************************************************)
Chips == [on : BOOLEAN, gain : PulseCounts,
          frame : {"converting", "ready", "clocked", "torn"}]

SmTypeOK ==
  /\ running \in BOOLEAN
  /\ phase \in Phases
  /\ x \in Gains
  /\ tx \in Seq(Gains) /\ Len(tx) <= 1
  /\ rx \in Seq(Word) /\ Len(rx) <= Depth
  /\ held \in BOOLEAN
  /\ chip \in Chips

\* The program has just been reset: no state machine runs, and the chip, which
\* has its own supply, is anywhere in a conversion or a read-out.
SmInit ==
  /\ running = FALSE
  /\ phase = "boot"
  /\ x = DefaultGain
  /\ tx = <<>>
  /\ rx = <<>>
  /\ held = FALSE
  /\ chip \in [on : {TRUE}, gain : PulseCounts,
               frame : {"converting", "ready", "clocked"}]

-----------------------------------------------------------------------------
(* The program. *)

\* Mutants of PullInto: without the copy of x that `pull noblock` falls back
\* to, and with a plain `pull`.
PullReloads(default) ==
  /\ x' = IF tx = <<>> THEN DefaultGain ELSE Head(tx)
  /\ tx' = IF tx = <<>> THEN tx ELSE Tail(tx)

PullBlocks(default) ==
  /\ tx # <<>>
  /\ x' = Head(tx)
  /\ tx' = Tail(tx)

\* `pull noblock; out x, 32`: the TX word, or x again when there is none.
PullInto(default) ==
  /\ x' = IF tx = <<>> THEN default ELSE Head(tx)
  /\ tx' = IF tx = <<>> THEN tx ELSE Tail(tx)

\* Instructions 0-2: set x, pull noblock, out x.
Boot ==
  /\ running /\ phase = "boot"
  /\ PullInto(DefaultGain)
  /\ phase' = "wait"
  /\ UNCHANGED <<running, rx, held, chip>>

\* `wait LOW pin 0`, then the first `set pins, HIGH`.  The level of DOUT is not
\* known while some other frame is half clocked out: it may be low.  With the pin
\* high already there is no edge: a frame that was ready is torn, and one that
\* was left at its first bit is clocked out whole.
Begin ==
  /\ running /\ phase = "wait"
  /\ chip.on /\ chip.frame # "converting"
  /\ \E f \in {"clocked", "torn"} :
       /\ chip.frame = "ready" => (f = "clocked") = ~held
       /\ chip.frame = "clocked" /\ ~held => f = "torn"
       /\ chip' = [chip EXCEPT !.frame = f]
  /\ phase' = "shift"
  /\ held' = FALSE
  /\ UNCHANGED <<running, x, tx, rx>>

\* The last `in pins, 1` autopushes the word; it stalls while the RX FIFO is
\* full, with the clock pin high since `set pins, HIGH`.
Stalled == running /\ phase = "shift" /\ Len(rx) = Depth

\* What a chip that was powered down does when its clock goes low again.  The
\* README says it saved its gain, the datasheet that it resets: both.
Woken(c) ==
  IF c.on THEN {c}
  ELSE {[on |-> TRUE, gain |-> g, frame |-> "converting"]
          : g \in {c.gain, GainPulses(DefaultGain)}}

Push ==
  /\ running /\ phase = "shift" /\ Len(rx) < Depth
  /\ rx' = Append(rx, [gain |-> chip.gain, whole |-> chip.frame = "clocked"])
  /\ chip' \in Woken(chip)
  /\ phase' = "pull"
  /\ UNCHANGED <<running, x, tx, held>>

\* `pull noblock side HIGH; out x, 32`.
Pull ==
  /\ running /\ phase = "pull"
  /\ PullInto(x)
  /\ phase' = "gain"
  /\ UNCHANGED <<running, rx, held, chip>>

\* The 25th pulse and the gain loop: the chip starts the next conversion with
\* the gain these pulses select.  A chip that just woke is not being clocked
\* out and ignores them; a torn frame ends at an unknown pulse of the loop.
Pulse ==
  /\ running /\ phase = "gain"
  /\ \/ chip.frame = "converting" /\ UNCHANGED chip
     \/ /\ chip.frame = "torn"
        /\ \E g \in PulseCounts :
             chip' = [chip EXCEPT !.frame = "converting", !.gain = g]
     \/ /\ chip.frame \in {"ready", "clocked"}
        /\ chip' = [chip EXCEPT !.frame = "converting", !.gain = GainPulses(x)]
  /\ phase' = "wait"
  /\ UNCHANGED <<running, x, tx, rx, held>>

-----------------------------------------------------------------------------
(* The chip. *)

\* A conversion completes: DOUT is low.  An unread conversion is replaced by the
\* next one.  The SM takes some 30 us
\* from its first clock edge to its last and a conversion at least 12.5 ms, so
\* none completes in between.
Convert ==
  /\ chip.on
  /\ ~running \/ phase \in {"boot", "wait"}
  /\ chip' = [chip EXCEPT !.frame = "ready"]
  /\ UNCHANGED <<running, phase, x, tx, rx, held>>

\* The clock pin has been high for HX711_POWER_DOWN_TIMEOUT.
Sleep(clockHigh) ==
  /\ chip.on /\ clockHigh
  /\ chip' = [chip EXCEPT !.on = FALSE]
  /\ UNCHANGED <<running, phase, x, tx, rx, held>>

-----------------------------------------------------------------------------
(* What a core does to the SM through the SDK. *)

\* pio_sm_put: the TX FIFO was drained before.
Put(g) ==
  /\ tx' = Append(tx, g)
  /\ UNCHANGED <<running, phase, x, rx, held, chip>>

\* pio_sm_drain_tx_fifo.
Drain ==
  /\ tx' = <<>>
  /\ UNCHANGED <<running, phase, x, rx, held, chip>>

\* pio_sm_get: removes one word, if there is one.
Get ==
  /\ rx' = IF rx = <<>> THEN rx ELSE Tail(rx)
  /\ UNCHANGED <<running, phase, x, tx, held, chip>>

\* The level a disabled SM leaves on its clock pin: nothing drives the pin any
\* more, so it stays where the interrupted instruction had put it.
LatchAfterStop ==
  IF ~running \/ phase \in {"boot", "wait"} THEN {held}
  ELSE IF ~chip.on THEN {TRUE}
  ELSE BOOLEAN

\* pio_sm_init (which disables the SM first), drain, put and
\* pio_sm_set_enabled(true).  x keeps its old content until instruction 0 sets
\* it; nothing reads it before that.
Start(g) ==
  /\ held' \in LatchAfterStop
  /\ running' = TRUE
  /\ phase' = "boot"
  /\ x' = DefaultGain
  /\ tx' = <<g>>
  /\ rx' = <<>>
  /\ UNCHANGED chip

\* pio_sm_set_enabled(false).
Stop ==
  /\ held' \in LatchAfterStop
  /\ running' = FALSE
  /\ UNCHANGED <<phase, x, tx, rx, chip>>

\* A clock pin that rests high goes low and high again: a chip that was asleep
\* wakes, and one that is ready shows its first bit.
Pulsed(c) ==
  IF held THEN {[d EXCEPT !.frame = IF @ = "ready" THEN "clocked" ELSE @]
                  : d \in Woken(c)}
  ELSE {c}

\* hx711_init: gpio_init drives the clock pin low until pio_gpio_init gives it back
\* to the PIO, and pio_sm_clear_fifos.
Prepare ==
  /\ ~running
  /\ tx' = <<>>
  /\ rx' = <<>>
  /\ chip' \in Pulsed(chip)
  /\ UNCHANGED <<running, phase, x, held>>

-----------------------------------------------------------------------------
(* The reader by itself, with some core that may call anything at any time    *)
(* the driver's mutex and assertions would let it.                            *)

SmProgram == Boot \/ Begin \/ Push \/ Pull \/ Pulse

SmNext ==
  \/ SmProgram
  \/ Convert
  \/ Sleep(held \/ Stalled)
  \/ \E g \in Gains : (tx = <<>> /\ Put(g)) \/ Start(g)
  \/ Drain \/ Get \/ Stop \/ Prepare

SmSpec == SmInit /\ [][SmNext]_smVars /\ WF_smVars(SmProgram)

=============================================================================

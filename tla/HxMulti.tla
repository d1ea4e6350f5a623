------------------------------ MODULE HxMulti ------------------------------
(***************************************************************************)
(* The multi-chip driver, src/src/hx711_multi.c: one hx711_multi_t, the    *)
(* cores that call it, its PIO and DMA interrupt handlers and the DMA      *)
(* channel, composed with the state machines of MultiSm.  The chips are    *)
(* in step here, so that one stands for all.                               *)
(***************************************************************************)
EXTENDS MultiSm

CONSTANTS
  Cores,       \* the cores that use the hx711_multi_t
  IrqCore,     \* the one that called hx711_multi_init: handlers run there
  None,        \* no core
  Ops,         \* the API functions the application calls
  Overlap,     \* TRUE if it calls them from several cores at a time
  Asserts,     \* TRUE unless the build defines NDEBUG
  PioIndex,    \* config->pio: 0 or 1
  IrqIndex     \* config->pio_irq_index: 0 or 1

AllOps == {"set_gain", "get_values", "get_values_timeout", "async_start",
           "async_get_values", "power_up", "power_down"}

ASSUME MultiAssumption ==
  /\ IrqCore \in Cores /\ None \notin Cores
  /\ Ops \subseteq AllOps
  /\ {Overlap, Asserts} \subseteq BOOLEAN
  /\ {PioIndex, IrqIndex} \subseteq {0, 1}

VARIABLES
  \* DMA and interrupts.
  dma,     \* the channel is transferring
  buf,     \* the words it put into _buffer since it was triggered
  intr,    \* its completion, latched until acknowledged
  dmaEn,   \* that completion raises the DMA interrupt
  srcs,    \* the sources enabled in the PIO's interrupt
  pend,    \* the interrupts pending in IrqCore's NVIC
  isr,     \* where IrqCore is in a handler
  \* The driver.
  state,   \* _async_state
  mut,     \* _mut: a core, or None
  off,     \* the cores that have their interrupts disabled
  pc,      \* where each core is in a call
  op, arg, \* the call, and its gain
  \* History, read by properties only.
  clean,   \* the FIFO was seen empty, for this read, before the first word of a
           \* frame and after the reader's own null word
  asked,   \* the gain of the last set_gain that returned, unless superseded or
           \* its read was torn
  due      \* asked, when this read was triggered

irqVars  == <<dma, buf, intr, dmaEn, srcs>>
callVars == <<pc, op, arg>>
coreVars == <<state, mut, off, callVars>>
history  == <<clean, asked, due>>
vars     == <<smVars, irqVars, pend, isr, coreVars, history>>

NoGain == -1

NoOp == "none"

WholeFrame(b) ==
  Len(b) = Bits /\ \A i \in 1..Bits : b[i].bit = i /\ b[i].frame = b[1].frame

Torn(b) == \E i \in DOMAIN b : b[i].bit = TornBit

States == {"none", "waiting", "reading", "done"}

Isrs == {"idle", "pioStart", "pioTrigger", "pioEnd", "dmaFinish", "dmaEnd", "fault"}

Labels == {"idle", "drain", "put", "begin", "enter", "check", "start", "trigger",
           "restore", "spin", "copy", "disable", "finish", "unlock", "powerUp",
           "stop", "exit", "fault"}

TypeOK ==
  /\ SmTypeOK
  /\ {dma, intr, dmaEn, clean} \subseteq BOOLEAN
  /\ buf \in Seq(Word) /\ Len(buf) <= Bits
  /\ srcs \subseteq 7..10 /\ pend \subseteq {"pio", "dma"}
  /\ isr \in Isrs
  /\ state \in States
  /\ mut \in Cores \cup {None} /\ off \subseteq Cores
  /\ pc \in [Cores -> Labels] /\ op \in [Cores -> AllOps \cup {NoOp}]
  /\ arg \in [Cores -> Gains]
  /\ {asked, due} \subseteq Gains \cup {NoGain}

\* After hx711_multi_init: the DMA interrupt enabled, the PIO source not.
Init ==
  /\ SmInit
  /\ dma = FALSE /\ buf = <<>> /\ intr = FALSE
  /\ dmaEn = TRUE /\ srcs = {} /\ pend = {} /\ isr = "idle"
  /\ state = "none" /\ mut = None /\ off = {}
  /\ pc = [c \in Cores |-> "idle"] /\ op = [c \in Cores |-> NoOp]
  /\ arg = [c \in Cores |-> DefaultGain]
  /\ clean = FALSE /\ asked = NoGain /\ due = NoGain

-----------------------------------------------------------------------------
(* Interrupt routing (util.c). *)

\* util_pio_to_irq_map, from PIO0_IRQ_0 = 7 to PIO1_IRQ_1 = 10.
UtilPioToIrqMap(i) == 7 + i

\* util_pio_get_irq_from_index: where the handler is installed and enabled.
HandledIrq == UtilPioToIrqMap(PioIndex + IrqIndex)

\* The line this PIO's interrupt is wired to.
WiredIrq == 7 + 2 * PioIndex + IrqIndex

\* util_pio_get_pis_from_pio_interrupt_num(0): pis_interrupt0.
ConversionDoneSource == 8

\* hx711_multi_async_start enables the source with the number of the IRQ.
StartSource == HandledIrq

\* 7 is the TX FIFO of SM 3 having room; nothing sets interrupts 1 and 2.
SourceRaised(s) == s = 7 \/ (s = ConversionDoneSource /\ flag)

Raised(i) ==
  IF i = "dma" THEN dmaEn /\ intr
  ELSE HandledIrq = WiredIrq /\ \E s \in srcs : SourceRaised(s)

Handling(i) ==
  isr \in IF i = "dma" THEN {"dmaFinish", "dmaEnd"}
         ELSE {"pioStart", "pioTrigger", "pioEnd"}

\* A line that was raised stays pending until its handler is entered; the
\* handler's irq_clear and return leave it pending only if it is still raised.
\* Part of every step.
Nvic ==
  pend' = {i \in {"pio", "dma"} :
             ~Handling(i)' /\ ((i \in pend /\ ~Handling(i)) \/ Raised(i)')}

-----------------------------------------------------------------------------
(* The state machines. *)

\* Frames are 12.5 ms apart, so a pending PIO interrupt is taken before the next
\* one begins, unless IrqCore waits for the mutex with its interrupts disabled.
PioIsrPrompt == "pio" \in pend => IrqCore \in off /\ pc[IrqCore] = "enter"

\* Between the FIFO's clear and the trigger there are a few accesses.
Triggering == isr = "pioTrigger" \/ \E c \in Cores : pc[c] = "trigger"

\* The DMA channel takes a word in a fraction of a turn of the bit loop, and a
\* trigger comes before the words since the clear would have filled the FIFO.
ReaderStep ==
  /\ Reader
  /\ phase = "wait" => PioIsrPrompt
  /\ phase = "bits" /\ dma => rx = <<>>
  /\ phase = "bits" /\ Triggering => Len(rx) < Depth
  /\ UNCHANGED <<irqVars, isr, coreVars, history>>
  /\ Nvic

ChipConverts ==
  /\ Convert
  /\ UNCHANGED <<irqVars, isr, coreVars, history>>
  /\ Nvic

ChipSleeps ==
  /\ Sleep
  /\ UNCHANGED <<irqVars, isr, coreVars, history>>
  /\ Nvic

-----------------------------------------------------------------------------
(* The DMA channel. *)

DmaTransfer ==
  /\ dma /\ Take
  /\ buf' = Append(buf, Head(rx))
  /\ dma' = (Len(buf') < Bits)
  /\ intr' = (intr \/ Len(buf') = Bits)
  /\ UNCHANGED <<dmaEn, srcs, isr, coreVars, history>>
  /\ Nvic

(* hx711_multi__async_start_dma: the FIFO is cleared, and while the reader       *)
(* still pushes, the channel is triggered.                                   *)

BeforeFirstWord ==
  phase \in {"wait", "clear", "edge"} \/ (phase = "bits" /\ count = 0)

\* Mutant of ClearFifo: without util_pio_sm_clear_rx_fifo.
ClearFifoNot ==
  /\ clean' = BeforeFirstWord
  /\ UNCHANGED <<smVars, irqVars, state, asked, due>>

\* The last test of util_pio_sm_clear_rx_fifo, that finds the FIFO empty.
ClearFifo ==
  /\ ClearRx
  /\ clean' = BeforeFirstWord
  /\ UNCHANGED <<irqVars, state, asked, due>>

\* dma_irqn_set_channel_enabled, the state, and dma_channel_set_write_addr, one
\* step: no completion is latched yet, and waiting and reading both are running.
Trigger ==
  /\ dmaEn' = TRUE /\ state' = "reading" /\ dma' = TRUE /\ buf' = <<>>
  /\ due' = asked
  /\ UNCHANGED <<smVars, intr, srcs, clean, asked>>

\* hx711_multi__async_finish up to the mutex.
StopListening ==
  /\ dma' = FALSE /\ dmaEn' = FALSE
  /\ srcs' = srcs \ {ConversionDoneSource}
  /\ UNCHANGED buf

-----------------------------------------------------------------------------
(* The interrupt handlers. *)

Running == state \in {"waiting", "reading"}

\* An assertion that fails stops a build that has assertions.
AssertFails(a) == Asserts /\ ~a

Interrupted(i) == i \in pend /\ isr = "idle" /\ IrqCore \notin off

\* hx711_multi__async_pio_irq_handler; without the flag no requester is found.
PioIsr ==
  /\ Interrupted("pio")
  /\ isr' = IF ~flag \/ AssertFails(en /\ state = "waiting") THEN "fault"
            ELSE "pioStart"
  /\ UNCHANGED <<smVars, irqVars, coreVars, history>>
  /\ Nvic

PioIsrClear ==
  /\ isr = "pioStart"
  /\ ClearFifo
  /\ isr' = "pioTrigger"
  /\ UNCHANGED <<mut, off, callVars>>
  /\ Nvic

PioIsrTrigger ==
  /\ isr = "pioTrigger"
  /\ Trigger
  /\ isr' = "pioEnd"
  /\ UNCHANGED <<mut, off, callVars>>
  /\ Nvic

\* Mutant of PioIsrEnd: the source stays enabled.
PioIsrEndListening ==
  /\ isr = "pioEnd"
  /\ isr' = "idle"
  /\ UNCHANGED <<smVars, irqVars, coreVars, history>>
  /\ Nvic

\* The source is disabled until it is required again.
PioIsrEnd ==
  /\ isr = "pioEnd"
  /\ srcs' = srcs \ {ConversionDoneSource}
  /\ isr' = "idle"
  /\ UNCHANGED <<smVars, dma, buf, intr, dmaEn, coreVars, history>>
  /\ Nvic

\* hx711_multi__async_dma_irq_handler.
DmaIsr ==
  /\ Interrupted("dma")
  /\ IF ~Raised("dma") \/ AssertFails(en /\ state = "reading")
     THEN isr' = "fault" /\ UNCHANGED state
     ELSE isr' = "dmaFinish" /\ state' = "done"
  /\ UNCHANGED <<smVars, irqVars, mut, off, callVars, history>>
  /\ Nvic

\* Mutant of DmaIsrFinish: without dma_irqn_acknowledge_channel.
DmaIsrFinishUnacknowledged ==
  /\ isr = "dmaFinish"
  /\ StopListening
  /\ isr' = "dmaEnd"
  /\ UNCHANGED <<smVars, intr, coreVars, history>>
  /\ Nvic

\* Acknowledge, then hx711_multi__async_finish.
DmaIsrFinish ==
  /\ isr = "dmaFinish"
  /\ intr' = FALSE /\ StopListening
  /\ isr' = "dmaEnd"
  /\ UNCHANGED <<smVars, coreVars, history>>
  /\ Nvic

\* mutex_exit, on behalf of the core whose read it was.
DmaIsrEnd ==
  /\ isr = "dmaEnd"
  /\ mut' = None
  /\ isr' = "idle"
  /\ UNCHANGED <<smVars, irqVars, state, off, callVars, history>>
  /\ Nvic

-----------------------------------------------------------------------------
(* Calls. *)

\* An interrupt that is pending comes before the next step of the core.
Runs(c, l) ==
  pc[c] = l /\ (c = IrqCore => isr = "idle" /\ (pend = {} \/ c \in off))

\* The next statement; a call that returns forgets its arguments.
Goto(c, l) ==
  /\ pc' = [pc EXCEPT ![c] = l]
  /\ op' = IF l = "idle" THEN [op EXCEPT ![c] = NoOp] ELSE op
  /\ arg' = IF l = "idle" THEN [arg EXCEPT ![c] = DefaultGain] ELSE arg

Powers == {"power_up", "power_down"}

\* The assertions at the head of each function.
Asserted(o) ==
  CASE o \in Powers -> TRUE
    [] o = "async_get_values" -> state = "done"
    [] o = "set_gain" -> en
    [] OTHER -> en /\ ~Running

\* Where the body of a function starts.
Entry(o) ==
  CASE o = "set_gain" -> "drain"
    [] o = "async_get_values" -> "copy"
    [] o \in Powers -> "enter"
    [] OTHER -> "begin"

\* A call whose assertions hold, unless the build has none: then a timed read goes
\* ahead as well after one that timed out, whose state still says it is running.
\* The assertion that no read is running comes too late for set_gain, behind its
\* put: that an application does not call it then is assumed.
Call(c) ==
  \E o \in Ops, g \in Gains :
    /\ Runs(c, "idle")
    /\ Overlap \/ \A d \in Cores : pc[d] = "idle"
    /\ Asserted(o) \/ (~Asserts /\ o = "get_values_timeout" /\ en /\ mut = None)
    /\ o = "set_gain" => ~Running
    /\ o \notin {"set_gain", "power_up"} => g = DefaultGain
    /\ pc' = [pc EXCEPT ![c] = Entry(o)]
    /\ op' = [op EXCEPT ![c] = o] /\ arg' = [arg EXCEPT ![c] = g]
    /\ UNCHANGED <<smVars, irqVars, isr, state, mut, off, history>>
    /\ Nvic

\* hx711_multi_set_gain changes the TX FIFO before it takes the mutex.
DrainTx(c) ==
  /\ Runs(c, "drain")
  /\ Drain
  /\ asked' = NoGain /\ due' = NoGain
  /\ Goto(c, "put")
  /\ UNCHANGED <<irqVars, isr, state, mut, off, clean>>
  /\ Nvic

PutGain(c) ==
  /\ Runs(c, "put")
  /\ Put(arg[c])
  /\ Goto(c, "begin")
  /\ UNCHANGED <<irqVars, isr, state, mut, off, history>>
  /\ Nvic

\* hx711_multi_async_start: its assertions, then interrupts off.
Begin(c) ==
  /\ Runs(c, "begin")
  /\ IF AssertFails(en /\ ~Running)
     THEN Goto(c, "fault") /\ UNCHANGED off
     ELSE Goto(c, "enter") /\ off' = off \cup {c}
  /\ UNCHANGED <<smVars, irqVars, isr, state, mut, history>>
  /\ Nvic

\* mutex_enter_blocking.
Enter(c) ==
  /\ Runs(c, "enter") /\ mut = None
  /\ mut' = c
  /\ IF op[c] \in Powers
     THEN /\ Goto(c, IF op[c] = "power_up" THEN "powerUp" ELSE "disable")
          /\ UNCHANGED state
     ELSE Goto(c, "check") /\ state' = "waiting"
  /\ UNCHANGED <<smVars, irqVars, isr, off, history>>
  /\ Nvic

Check(c) ==
  /\ Runs(c, "check")
  /\ IF flag THEN Goto(c, "start") /\ UNCHANGED srcs
     ELSE Goto(c, "restore") /\ srcs' = srcs \cup {StartSource}
  /\ UNCHANGED <<smVars, dma, buf, intr, dmaEn, isr, state, mut, off, history>>
  /\ Nvic

Start(c) ==
  /\ Runs(c, "start")
  /\ ClearFifo
  /\ Goto(c, "trigger")
  /\ UNCHANGED <<isr, mut, off>>
  /\ Nvic

StartTrigger(c) ==
  /\ Runs(c, "trigger")
  /\ Trigger
  /\ Goto(c, "restore")
  /\ UNCHANGED <<isr, mut, off>>
  /\ Nvic

\* Mutant of Restore: without restore_interrupts.
RestoreNothing(c) ==
  /\ Runs(c, "restore")
  /\ Goto(c, IF op[c] = "async_start" THEN "idle" ELSE "spin")
  /\ UNCHANGED <<smVars, irqVars, isr, state, mut, off, history>>
  /\ Nvic

\* restore_interrupts.
Restore(c) ==
  /\ Runs(c, "restore")
  /\ off' = off \ {c}
  /\ Goto(c, IF op[c] = "async_start" THEN "idle" ELSE "spin")
  /\ UNCHANGED <<smVars, irqVars, isr, state, mut, history>>
  /\ Nvic

\* hx711_multi_async_done in the loops of the blocking calls.
Done(c) ==
  /\ Runs(c, "spin") /\ state = "done"
  /\ IF op[c] = "set_gain"
     THEN /\ asked' = IF Torn(buf) THEN NoGain ELSE arg[c]
          /\ Goto(c, "idle")
     ELSE Goto(c, "copy") /\ UNCHANGED asked
  /\ UNCHANGED <<smVars, irqVars, isr, state, mut, off, clean, due>>
  /\ Nvic

\* hx711_multi_async_get_values; get_values asserts once more that it is done.
Copy(c) ==
  /\ Runs(c, "copy")
  /\ Goto(c, IF AssertFails(state = "done") THEN "fault" ELSE "idle")
  /\ UNCHANGED <<smVars, irqVars, isr, state, mut, off, history>>
  /\ Nvic

\* time_reached(end) in hx711_multi_get_values_timeout.
TimeReached(c) ==
  /\ Runs(c, "spin") /\ op[c] = "get_values_timeout"
  /\ Goto(c, "disable")
  /\ UNCHANGED <<smVars, irqVars, isr, state, mut, off, history>>
  /\ Nvic

\* UTIL_INTERRUPTS_OFF_BLOCK, after a timeout and in hx711_multi_power_down.
Disable(c) ==
  /\ Runs(c, "disable")
  /\ off' = off \cup {c}
  /\ Goto(c, "finish")
  /\ UNCHANGED <<smVars, irqVars, isr, state, mut, history>>
  /\ Nvic

\* hx711_multi__async_finish, after a timeout and in hx711_multi_power_down.
Finish(c) ==
  /\ Runs(c, "finish")
  /\ StopListening
  /\ Goto(c, "unlock")
  /\ UNCHANGED <<smVars, intr, isr, state, mut, off, history>>
  /\ Nvic

AfterUnlock(c) == IF op[c] = "power_down" THEN "stop" ELSE "idle"

\* Mutant of Unlock: async_finish without its mutex_exit.
UnlockNothing(c) ==
  /\ Runs(c, "unlock")
  /\ off' = off \ {c}
  /\ Goto(c, AfterUnlock(c))
  /\ UNCHANGED <<smVars, irqVars, isr, state, mut, history>>
  /\ Nvic

Unlock(c) ==
  /\ Runs(c, "unlock")
  /\ mut' = None /\ off' = off \ {c}
  /\ Goto(c, AfterUnlock(c))
  /\ UNCHANGED <<smVars, irqVars, isr, state, history>>
  /\ Nvic

\* hx711_multi_power_down: the SMs stop, then a second mutex_exit.
PowerDown(c) ==
  /\ Runs(c, "stop")
  /\ StopSms
  /\ Goto(c, "exit")
  /\ UNCHANGED <<irqVars, isr, state, mut, off, history>>
  /\ Nvic

\* hx711_multi_power_up resets both SMs, but no PIO interrupt flag.
PowerUp(c) ==
  /\ Runs(c, "powerUp")
  /\ StartSms(arg[c])
  /\ asked' = NoGain /\ due' = NoGain
  /\ Goto(c, "exit")
  /\ UNCHANGED <<irqVars, isr, state, mut, off, clean>>
  /\ Nvic

\* HX711_MUTEX_BLOCK's mutex_exit.  In power_down the mutex is free by now, which
\* the SDK's own assertion, not modelled, does not allow.
Exit(c) ==
  /\ Runs(c, "exit")
  /\ mut' = None
  /\ Goto(c, "idle")
  /\ UNCHANGED <<smVars, irqVars, isr, state, off, history>>
  /\ Nvic

-----------------------------------------------------------------------------

Isr == \/ PioIsr \/ PioIsrClear \/ PioIsrTrigger \/ PioIsrEnd
       \/ DmaIsr \/ DmaIsrFinish \/ DmaIsrEnd

Body(c) ==
  \/ DrainTx(c) \/ PutGain(c) \/ Begin(c) \/ Enter(c) \/ Check(c)
  \/ Start(c) \/ StartTrigger(c) \/ Restore(c) \/ Done(c) \/ Copy(c) \/ TimeReached(c)
  \/ Disable(c) \/ Finish(c) \/ Unlock(c) \/ PowerDown(c) \/ PowerUp(c) \/ Exit(c)

Next ==
  \/ ReaderStep \/ ChipConverts \/ ChipSleeps \/ DmaTransfer \/ Isr
  \/ \E c \in Cores : Call(c) \/ Body(c)

Spec == Init /\ [][Next]_vars

\* Hardware runs, chips that are not asleep convert at their sample rate, a pending
\* interrupt is taken and the cores execute.  Nothing makes the application call,
\* and nothing wakes chips that a stopped reader left asleep.
Fairness ==
  /\ WF_vars(ReaderStep /\ ~Stuck)
  /\ WF_vars(ChipConverts)
  /\ WF_vars(DmaTransfer)
  /\ WF_vars(Isr)
  /\ \A c \in Cores : WF_vars(Body(c))

FairSpec == Spec /\ Fairness

-----------------------------------------------------------------------------
(* Properties that hold when the calls of the cores do not overlap and the    *)
(* interrupt source is the right one (pio0 and IRQ index 1); all but the      *)
(* last, when no read times out, and the last for one core.                   *)

\* The handlers find the read that raised their interrupt, in the state they
\* expect, and no assertion behind the head of a call fails
\* (hx711_multi.c:361-403, 737, 776).
NoFault == isr # "fault" /\ \A c \in Cores : pc[c] # "fault"

\* Whoever gets the mutex finds a quiet interrupt system: no transfer, no
\* enabled, latched or pending interrupt of an earlier read
\* (hx711_multi.c:340-357, 391-401).
FreeIsQuiet ==
  mut = None => ~Running /\ ~dma /\ ~intr /\ srcs = {} /\ pend = {}

\* A read whose FIFO was seen empty before the first word of a frame, and after the
\* null word, gets the words of one frame, all of them and in their order, unless
\* the chips were torn: the ones that the reader pushes between the clear and the
\* trigger as well (hx711_multi.c:294-317, 750-754).
CleanReadIsWhole ==
  state = "done" /\ clean /\ ~Torn(buf) => WholeFrame(buf)

\* Such a read was converted at the gain of the set_gain that returned before it
\* began, wherever the reader was when that gain was put: the pulses that selected
\* it are the program's for that gain (hx711_multi.c:655-680).
GainApplied ==
  state = "done" /\ clean /\ due # NoGain =>
    \A i \in DOMAIN buf : buf[i].gain = GainPulses(due)

\* Every read is done in the end, whether it found the flag set or had to wait for
\* the interrupt, unless a reader that was stopped in a bit left the clock pin high
\* (hx711_multi.c:734-770, 840-847).
ReadCompletes == (Running /\ ~held) ~> state = "done"

\* A read that times out, at whatever point, gives the mutex back, and so does
\* every other call, but for a read of chips whose clock was left high
\* (hx711_multi.c:698-732, 355-357).
MutexReturned == (mut # None /\ ~held) ~> (mut = None)

-----------------------------------------------------------------------------
(* The invariant behind these properties, for calls that do not overlap, none *)
(* of them timed, and the right interrupt source.                             *)

AsMeant ==
  /\ ~Overlap /\ "get_values_timeout" \notin Ops
  /\ PioIndex = 0 /\ IrqIndex = 1
  /\ Depth < Bits

Alone == \A c, d \in Cores : pc[c] # "idle" /\ pc[d] # "idle" => c = d

\* On its way to a read; about to start one; in a power function, with the
\* mutex; and in power_down after it gave it back.
Coming(c)   == \/ pc[c] \in {"drain", "put", "begin"}
               \/ (pc[c] = "enter" /\ op[c] \notin Powers)
Starting(c) == pc[c] \in {"check", "start", "trigger"}
InPower(c)  == \/ pc[c] \in {"powerUp", "disable", "finish", "unlock"}
               \/ (pc[c] = "exit" /\ op[c] = "power_up")
Stopping(c) == pc[c] = "stop" \/ (pc[c] = "exit" /\ op[c] = "power_down")

\* The statements of the call of a core, and where its interrupts are off.
StepsOf(c) ==
  /\ op[c] # "get_values_timeout"
  /\ pc[c] = "put" => tx = <<>>
  /\ pc[c] \in {"drain", "put"} => op[c] = "set_gain"
  /\ Starting(c) \/ pc[c] \in {"begin", "restore", "spin"} => op[c] \notin Powers
  /\ pc[c] = "powerUp" => op[c] = "power_up"
  /\ pc[c] \in {"disable", "finish", "unlock", "stop"} => op[c] = "power_down"
  /\ pc[c] = "exit" => op[c] \in Powers
  /\ pc[c] # "fault"
  /\ Coming(c) => en /\ ~Running
  /\ Starting(c) => state = "waiting"
  /\ pc[c] = "copy" => state = "done"
  /\ c \in off => \/ Starting(c) \/ pc[c] \in {"restore", "finish", "unlock"}
                  \/ (pc[c] = "enter" /\ op[c] \notin Powers)

CallSteps == \A c \in Cores : StepsOf(c)

Quiet == ~dma /\ ~intr /\ srcs = {} /\ pend = {}

(* The stages of a read, and what is so in each of them: who has the mutex,   *)
(* what is enabled, latched and pending, and where the handlers are.          *)

Free ==
  /\ mut = None /\ ~Running /\ isr = "idle" /\ Quiet
  /\ \A c \in Cores : ~InPower(c)

Powering ==
  /\ mut # None /\ ~Running /\ isr = "idle" /\ Quiet
  /\ \E c \in Cores : InPower(c)

Entered ==
  /\ mut # None /\ state = "waiting" /\ isr = "idle" /\ Quiet
  /\ \E c \in Cores : Starting(c)

NoneStarts ==
  \A c \in Cores : ~Starting(c) /\ ~InPower(c) /\ ~Stopping(c)

Waiting ==
  /\ mut # None /\ state = "waiting" /\ NoneStarts
  /\ ~dma /\ ~intr /\ srcs = {ConversionDoneSource}
  /\ \/ isr = "idle" /\ pend = {} /\ ~flag
     \/ isr = "idle" /\ pend = {"pio"} /\ flag /\ phase # "clear"
     \/ isr \in {"pioStart", "pioTrigger"} /\ pend = {}

Reading ==
  /\ mut # None /\ state = "reading" /\ NoneStarts
  /\ dmaEn /\ dma = (Len(buf) < Bits) /\ intr = ~dma
  /\ \/ isr = "idle" /\ srcs = {}
     \/ isr = "pioEnd" /\ srcs = {ConversionDoneSource}
  /\ pend = IF intr THEN {"dma"} ELSE {}

Finishing ==
  /\ mut # None /\ state = "done" /\ NoneStarts
  /\ ~dma /\ srcs = {} /\ pend = {}
  /\ isr \in {"dmaFinish", "dmaEnd"} /\ intr = (isr = "dmaFinish")

Stages ==
  /\ Free \/ Powering \/ Entered \/ Waiting \/ Reading \/ Finishing
  /\ Running => en

ReadInv == TypeOK /\ Alone /\ CallSteps /\ Stages

(* The words of a read.                                                       *)

\* The i-th word of a frame f, if the chips were not torn.
IsWord(w, i, f) == w.bit \in {i, TornBit} /\ w.frame = f

InOrder(f) == \A i \in DOMAIN buf : IsWord(buf[i], i, f)

Transferring == state = "reading" /\ dma

Complete == state = "done" \/ (state = "reading" /\ ~dma)

\* The words in the FIFO are the next ones of the frame, after n of them.
Queued(n) ==
  /\ phase = "bits" /\ count > 0 /\ n + Len(rx) = count
  /\ \A i \in DOMAIN rx : IsWord(rx[i], n + i, frame)

\* A clean read between the clear and the trigger, before the first word of its
\* frame, in the middle, and when all that is left is the last word in the FIFO.
Cleared == (rx = <<>> /\ BeforeFirstWord) \/ Queued(0)

NotBegun == buf = <<>> /\ rx = <<>> /\ BeforeFirstWord

InBits == Queued(Len(buf)) /\ InOrder(frame)

LastLeft ==
  /\ Len(buf) = Bits - 1 /\ rx # <<>>
  /\ IsWord(rx[1], Bits, rx[1].frame) /\ InOrder(rx[1].frame)

CleanWords ==
  clean => /\ Triggering => Cleared
           /\ Transferring => NotBegun \/ InBits \/ LastLeft
           /\ Complete => Len(buf) = Bits /\ \E f \in 0..1 : InOrder(f)

\* The count of a frame that begins is zero.
CountedOut == phase # "bits" => count = 0

\* The reader's clock pin rests only before a frame.
ClockRests == held => phase \notin {"bits", "done", "pull", "gain"}

\* No two null words follow one another, so no read has only null words.
NotOnlyNull ==
  /\ Triggering =>
       \/ rx = <<>>
       \/ Len(rx) = 1 /\ BeforeFirstWord
       \/ \E i \in DOMAIN rx : rx[i].bit # 0
  /\ Transferring =>
       \/ buf = <<>> /\ rx = <<>>
       \/ Len(buf) + Len(rx) = 1 /\ BeforeFirstWord
       \/ \E i \in DOMAIN rx : rx[i].bit # 0 /\ Len(buf) + i <= Bits
       \/ \E i \in DOMAIN buf : buf[i].bit # 0
  /\ Complete => \E i \in DOMAIN buf : buf[i].bit # 0

(* The gain of a request, from the put to the words that have it.             *)

Requested(g) == tx = <<g>> \/ (tx = <<>> /\ x = g)

\* From here on every frame that begins has this gain.
Settled(g) ==
  /\ Requested(g) /\ phase # "boot" /\ ~held
  /\ phase = "null" \/ BeforeFirstWord => chip.gain = GainPulses(g)
  /\ phase \in {"null", "wait"} => chip.frame \in {"converting", "ready"}
  /\ phase \in {"clear", "edge"} => chip.frame = "ready"
  /\ phase \in {"bits", "done", "pull", "gain"} => chip.frame = "clocked"
  /\ phase = "gain" => x = g /\ tx = <<>>

\* A bit of a frame that was not torn: after it the gain that was requested
\* before the read is settled.
IsBit(w) == w.bit \in 1..Bits

SeenBit ==
  \/ (Transferring \/ Complete) /\ \E i \in DOMAIN buf : IsBit(buf[i])
  \/ (Triggering \/ Transferring) /\ \E i \in DOMAIN rx : IsBit(rx[i])

SetGainRead(c) ==
  op[c] = "set_gain" /\ pc[c] \notin {"idle", "drain"} =>
    /\ en /\ asked = NoGain
    /\ pc[c] # "put" => IF phase = "boot" THEN tx = <<arg[c]>> ELSE Requested(arg[c])
    /\ pc[c] \in {"trigger", "restore", "spin"} /\ SeenBit => Settled(arg[c])

SetGainReads == \A c \in Cores : SetGainRead(c)

AskedSettled == asked # NoGain /\ en => Settled(asked)

AskedApplied ==
  clean /\ asked # NoGain /\ Triggering =>
    /\ \A i \in DOMAIN rx : rx[i].gain = GainPulses(asked)
    /\ chip.gain = GainPulses(asked)

DueApplied ==
  clean /\ due # NoGain =>
    /\ state = "reading" => due = asked
    /\ state \in {"reading", "done"} => \A i \in DOMAIN buf : buf[i].gain = GainPulses(due)
    /\ Transferring =>
         /\ \A i \in DOMAIN rx : Len(buf) + i <= Bits => rx[i].gain = GainPulses(due)
         /\ Len(buf) + Len(rx) < Bits => chip.gain = GainPulses(due)

GainInv ==
  /\ ReadInv
  /\ CountedOut /\ ClockRests /\ CleanWords /\ NotOnlyNull
  /\ SetGainReads /\ AskedSettled /\ AskedApplied /\ DueApplied

-----------------------------------------------------------------------------
(* A claim of the documentation that the code does not keep. *)

\* hx711_multi.c:723-724 "cancel DMA and stop listening for IRQs and exit mutex.
\* Do this atomically": after a timeout no transfer is running.
TimeoutCancels == mut = None => ~dma

=============================================================================

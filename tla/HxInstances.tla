----------------------------- MODULE HxInstances -----------------------------
(***************************************************************************)
(* Several hx711_multi_t: init and close, the array of readers, the        *)
(* interrupt lines and handlers they share, and the search of the handlers *)
(* for the one that raised the interrupt (src/src/hx711_multi.c).  A frame *)
(* is only its beginning and its end; HxMulti has its words.  One core     *)
(* makes all calls and runs the handlers.                                  *)
(***************************************************************************)
EXTENDS Integers, FiniteSets, Functions

CONSTANTS
  Instances,               \* the hx711_multi_t
  NoOne,                   \* an empty entry of the array: NULL
  Pio, PioIndex, DmaIndex, \* the configuration of each
  ReadCount,               \* HX711_MULTI_ASYNC_READ_COUNT: NUM_PIOS
  Used,                    \* the ones that are powered up and read
  InitWhileReading         \* init while another one has a read running

ASSUME InstancesAssumption ==
  /\ NoOne \notin Instances /\ Used \subseteq Instances
  /\ Pio \in [Instances -> 0..1]
  /\ {PioIndex, DmaIndex} \subseteq [Instances -> 0..1]
  /\ ReadCount \in Nat \ {0} /\ InitWhileReading \in BOOLEAN

VARIABLES
  pc, cur,     \* the core: its place in init or close, and of which instance
  readers,     \* hx711_multi__async_read_array
  sms,         \* whose programs are loaded and SMs claimed
  channels,    \* whose DMA channel is claimed
  handler,     \* the exclusive handler of each interrupt line
  irqs,        \* the lines that are enabled
  srcs,        \* the interrupt sources of its PIO that each has enabled
  dmaEn,       \* whose channel raises its DMA interrupt
  dma,         \* whose transfer is running
  intr,        \* whose channel has an interrupt latched
  en,          \* whose SMs are enabled
  flag,        \* the PIOs whose flag CONVERSION_DONE is set
  held,        \* whose clock pin a stopped reader may have left high
  state,       \* _async_state of each
  mut,         \* whose mutex is taken
  fault        \* an assertion of a handler has failed

setupVars == <<readers, sms, channels, handler, irqs>>
hwVars    == <<dma, intr, en, flag, held>>
vars == <<pc, cur, setupVars, srcs, dmaEn, hwVars, state, mut, fault>>

Lines == 7..12

States == {"none", "waiting", "reading", "done"}

TypeOK ==
  /\ pc \in {"idle", "initPio", "initDma", "initDmaIrq", "initPioIrq", "release"}
  /\ cur \in Instances \cup {NoOne} /\ (pc = "idle" <=> cur = NoOne)
  /\ readers \in [1..ReadCount -> Instances \cup {NoOne}]
  /\ {sms, channels, dmaEn, dma, intr, en, held, mut} \subseteq SUBSET Instances
  /\ handler \in [Lines -> {"none", "pio", "dma"}] /\ irqs \subseteq Lines
  /\ srcs \in [Instances -> SUBSET Lines] /\ flag \subseteq 0..1
  /\ state \in [Instances -> States] /\ fault \in BOOLEAN

Init ==
  /\ pc = "idle" /\ cur = NoOne
  /\ readers = [i \in 1..ReadCount |-> NoOne]
  /\ sms = {} /\ channels = {}
  /\ handler = [l \in Lines |-> "none"] /\ irqs = {}
  /\ srcs = [h \in Instances |-> {}] /\ dmaEn = {}
  /\ dma = {} /\ intr = {} /\ en = {} /\ flag = {} /\ held = {}
  /\ state = [h \in Instances |-> "none"] /\ mut = {} /\ fault = FALSE

-----------------------------------------------------------------------------
(* Lines and sources (util.c). *)

\* util_pio_get_irq_from_index, where the map has two entries for each PIO.
UtilPioGetIrqFromIndex(h) == 7 + Pio[h] + PioIndex[h]

\* The line that the PIO's interrupt is wired to.
WiredLine(h) == 7 + 2 * Pio[h] + PioIndex[h]

\* Mutant of UtilDmaGetIrqn: the map begins one later.
UtilDmaGetIrqnPast(h) == 12 + DmaIndex[h]

\* util_dma_get_irqn: DMA_IRQ_0 is 11.
UtilDmaGetIrqn(h) == 11 + DmaIndex[h]

\* pis_interrupt0, the flag's.  7 is a TX FIFO that always has room.
ConversionDoneSource == 8

Raises(h) ==
  7 \in srcs[h] \/ (ConversionDoneSource \in srcs[h] /\ Pio[h] \in flag)

IsInitd(h) ==
  /\ h \in sms /\ h \in channels
  /\ handler[UtilPioGetIrqFromIndex(h)] = "pio"
  /\ handler[UtilDmaGetIrqn(h)] = "dma"

Running(h) == state[h] \in {"waiting", "reading"}

-----------------------------------------------------------------------------
(* hx711_multi_init.  The application inits what is closed, and one instance *)
(* for each PIO: two do not fit into its instruction memory.                 *)

\* hx711_multi__async_add_reader: the first free entry, if there is one.
AsyncAddReader(h) ==
  LET free == {i \in 1..ReadCount : readers[i] = NoOne}
  IN readers' = [i \in 1..ReadCount |->
                   IF i \in free /\ \A j \in free : i <= j THEN h ELSE readers[i]]

InitBegins(h) ==
  /\ pc = "idle"
  /\ \A g \in sms : Pio[g] # Pio[h]
  /\ InitWhileReading \/ \A g \in Instances : ~Running(g)
  /\ mut' = mut \cup {h}
  /\ state' = [state EXCEPT ![h] = "none"]
  /\ AsyncAddReader(h)
  /\ pc' = "initPio" /\ cur' = h
  /\ UNCHANGED <<sms, channels, handler, irqs, srcs, dmaEn, hwVars, fault>>

\* hx711_multi_pio_init: the flags are cleared.
PioInit(h) == flag' = flag \ {Pio[h]}

\* hx711_multi__init_pio and the init functions of the configuration.
InitPio ==
  /\ pc = "initPio" /\ pc' = "initDma"
  /\ sms' = sms \cup {cur} /\ PioInit(cur)
  /\ UNCHANGED <<cur, readers, channels, handler, irqs, srcs, dmaEn, dma, intr,
                 en, held, state, mut, fault>>

InitDma ==
  /\ pc = "initDma" /\ pc' = "initDmaIrq"
  /\ channels' = channels \cup {cur}
  /\ UNCHANGED <<cur, readers, sms, handler, irqs, srcs, dmaEn, hwVars, state,
                 mut, fault>>

\* The two halves of hx711_multi__init_irq.
InitDmaIrq ==
  /\ pc = "initDmaIrq" /\ pc' = "initPioIrq"
  /\ dmaEn' = dmaEn \cup {cur}
  /\ handler' = [handler EXCEPT ![UtilDmaGetIrqn(cur)] = "dma"]
  /\ irqs' = irqs \cup {UtilDmaGetIrqn(cur)}
  /\ UNCHANGED <<cur, readers, sms, channels, srcs, hwVars, state, mut, fault>>

InitPioIrq ==
  /\ pc = "initPioIrq" /\ pc' = "idle" /\ cur' = NoOne
  /\ srcs' = [srcs EXCEPT ![cur] = @ \ {ConversionDoneSource}]
  /\ handler' = [handler EXCEPT ![UtilPioGetIrqFromIndex(cur)] = "pio"]
  /\ irqs' = irqs \cup {UtilPioGetIrqFromIndex(cur)}
  /\ mut' = mut \ {cur}
  /\ UNCHANGED <<readers, sms, channels, dmaEn, hwVars, state, fault>>

-----------------------------------------------------------------------------
(* hx711_multi_close *)

\* Mutant of AsyncRemoveReader.
AsyncRemoveNobody(h) == UNCHANGED readers

AsyncRemoveReader(h) ==
  readers' = [i \in 1..ReadCount |-> IF readers[i] = h THEN NoOne ELSE readers[i]]

\* Mutant of IrqRemoveHandlers: the handler goes from every line it is on.
IrqRemoveHandlersEverywhere(h) ==
  handler' = [l \in Lines |-> IF handler[l] = "pio" THEN "none" ELSE handler[l]]

\* irq_remove_handler leaves another handler than the one given where it is, so
\* the second of the two calls, with the PIO handler as well, does nothing.
IrqRemoveHandlers(h) ==
  handler' = [l \in Lines |->
                IF l \in {UtilPioGetIrqFromIndex(h), UtilDmaGetIrqn(h)}
                   /\ handler[l] = "pio" THEN "none" ELSE handler[l]]

\* The mutex, then everything that is done with interrupts off.
CloseBegins(h) ==
  /\ pc = "idle" /\ IsInitd(h) /\ h \notin mut
  /\ mut' = mut \cup {h}
  /\ dma' = dma \ {h} /\ dmaEn' = dmaEn \ {h}
  /\ irqs' = irqs \ {UtilPioGetIrqFromIndex(h), UtilDmaGetIrqn(h)}
  /\ srcs' = [srcs EXCEPT ![h] = @ \ {ConversionDoneSource}]
  /\ state' = [state EXCEPT ![h] = "none"]
  /\ AsyncRemoveReader(h) /\ IrqRemoveHandlers(h)
  /\ pc' = "release" /\ cur' = h
  /\ UNCHANGED <<sms, channels, intr, en, flag, held, fault>>

\* pio_set_sm_mask_enabled(false).  A reader that is stopped in the middle of a bit
\* leaves the clock pin high, which may also be that of the next instance.
StopSms(h) ==
  /\ en' = en \ {h}
  /\ held' \in IF h \in en THEN {held, held \cup {g \in Instances : Pio[g] = Pio[h]}}
               ELSE {held}

\* Mutant of Release: the SMs keep running.
ReleaseRunning ==
  /\ pc = "release" /\ pc' = "idle" /\ cur' = NoOne
  /\ sms' = sms \ {cur} /\ channels' = channels \ {cur}
  /\ mut' = mut \ {cur}
  /\ UNCHANGED <<readers, handler, irqs, srcs, dmaEn, hwVars, state, fault>>

\* The rest, with interrupts on.
Release ==
  /\ pc = "release" /\ pc' = "idle" /\ cur' = NoOne
  /\ StopSms(cur)
  /\ sms' = sms \ {cur} /\ channels' = channels \ {cur} /\ mut' = mut \ {cur}
  /\ UNCHANGED <<readers, handler, irqs, srcs, dmaEn, dma, intr, flag, state, fault>>

-----------------------------------------------------------------------------
(* Power and reads. *)

\* Its gpio_put does not reach a pin that the PIO has.
PowerUp(h) ==
  /\ pc = "idle" /\ IsInitd(h) /\ h \notin mut
  /\ en' = en \cup {h}
  /\ UNCHANGED <<pc, cur, setupVars, srcs, dmaEn, dma, intr, flag, held, state, mut, fault>>

\* hx711_multi__async_finish without its mutex_exit, for the instance of a call or
\* of an interrupt.
AsyncFinish(h) ==
  /\ dma' = dma \ {h} /\ dmaEn' = dmaEn \ {h}
  /\ srcs' = [srcs EXCEPT ![h] = @ \ {ConversionDoneSource}]

PowerDown(h) ==
  /\ pc = "idle" /\ IsInitd(h) /\ h \notin mut
  /\ AsyncFinish(h) /\ StopSms(h)
  /\ UNCHANGED <<pc, cur, setupVars, intr, flag, state, mut, fault>>


\* hx711_multi__async_start_dma.
AsyncStartDma(h) ==
  /\ dmaEn' = dmaEn \cup {h} /\ dma' = dma \cup {h}
  /\ state' = [state EXCEPT ![h] = "reading"]

\* hx711_multi_async_start, with interrupts off throughout.
AsyncStart(h) ==
  /\ pc = "idle" /\ IsInitd(h) /\ h \in en /\ ~Running(h) /\ h \notin mut
  /\ mut' = mut \cup {h}
  /\ IF Pio[h] \in flag
     THEN AsyncStartDma(h) /\ UNCHANGED srcs
     ELSE /\ state' = [state EXCEPT ![h] = "waiting"]
          /\ srcs' = [srcs EXCEPT ![h] = @ \cup {UtilPioGetIrqFromIndex(h)}]
          /\ UNCHANGED <<dmaEn, dma>>
  /\ UNCHANGED <<pc, cur, setupVars, intr, en, flag, held, fault>>

-----------------------------------------------------------------------------
(* The handlers, between any two steps of the core. *)

\* The first in the array that is in S, if all before it are initialised: the
\* search asserts that of each one it looks at.
Finds(S, r) ==
  \E i \in 1..ReadCount :
    /\ readers[i] = r /\ r \in S
    /\ \A j \in 1..(i - 1) : readers[j] \notin S
    /\ \A j \in 1..i : readers[j] = NoOne \/ IsInitd(readers[j])

Interrupted(line, name, S) ==
  /\ ~fault
  /\ \E h \in S : line[h] \in irqs /\ handler[line[h]] = name

PioRequests == {h \in Instances : Pio[h] \in flag}
DmaRequests == {h \in Instances : h \in intr /\ h \in dmaEn}

PioInterrupts ==
  Interrupted([h \in Instances |-> WiredLine(h)], "pio",
              {h \in Instances : Raises(h)})

DmaInterrupts ==
  Interrupted([h \in Instances |-> UtilDmaGetIrqn(h)], "dma", DmaRequests)

Fault ==
  /\ fault' = TRUE
  /\ UNCHANGED <<pc, cur, setupVars, srcs, dmaEn, hwVars, state, mut>>

PioRequester(r) ==
  Finds(PioRequests, r) /\ r \in en /\ state[r] = "waiting"

DmaRequester(r) ==
  Finds(DmaRequests, r) /\ r \in en /\ state[r] = "reading"

PioServed(r) ==
  /\ PioRequester(r)
  /\ AsyncStartDma(r)
  /\ srcs' = [srcs EXCEPT ![r] = @ \ {ConversionDoneSource}]
  /\ UNCHANGED <<pc, cur, setupVars, intr, en, flag, held, mut, fault>>

DmaServed(r) ==
  /\ DmaRequester(r)
  /\ state' = [state EXCEPT ![r] = "done"]
  /\ intr' = intr \ {r} /\ mut' = mut \ {r}
  /\ AsyncFinish(r)
  /\ UNCHANGED <<pc, cur, setupVars, en, flag, held, fault>>

\* Without a requester in the state it expects a handler's assertion fails.
PioIrqHandler ==
  /\ PioInterrupts
  /\ IF \E r \in Instances : PioRequester(r)
     THEN \E r \in Instances : PioServed(r) ELSE Fault

DmaIrqHandler ==
  /\ DmaInterrupts
  /\ IF \E r \in Instances : DmaRequester(r)
     THEN \E r \in Instances : DmaServed(r) ELSE Fault

-----------------------------------------------------------------------------
(* Hardware.  A pending interrupt is taken before the next frame begins.      *)

FrameBegins(h) ==
  /\ h \in en /\ Pio[h] \in flag /\ ~PioInterrupts
  /\ flag' = flag \ {Pio[h]}
  /\ UNCHANGED <<pc, cur, setupVars, srcs, dmaEn, dma, intr, en, held, state, mut, fault>>

\* By then the program has lowered the clock itself.
FrameEnds(h) ==
  /\ h \in en /\ Pio[h] \notin flag
  /\ flag' = flag \cup {Pio[h]} /\ held' = held \ {h}
  /\ UNCHANGED <<pc, cur, setupVars, srcs, dmaEn, dma, intr, en, state, mut, fault>>

DmaCompletes(h) ==
  /\ h \in en /\ h \in dma
  /\ dma' = dma \ {h} /\ intr' = intr \cup {h}
  /\ UNCHANGED <<pc, cur, setupVars, srcs, dmaEn, en, flag, held, state, mut, fault>>

Hardware(h) == FrameBegins(h) \/ FrameEnds(h) \/ DmaCompletes(h)

-----------------------------------------------------------------------------

Handlers == PioIrqHandler \/ DmaIrqHandler

Continues == InitPio \/ InitDma \/ InitDmaIrq \/ InitPioIrq \/ Release

Calls ==
  \/ \E h \in Instances : InitBegins(h) \/ CloseBegins(h)
  \/ \E h \in Used : PowerUp(h) \/ PowerDown(h) \/ AsyncStart(h)

Next ==
  /\ ~fault
  /\ Calls \/ Continues \/ Handlers \/ \E h \in Instances : Hardware(h)

Spec == Init /\ [][Next]_vars

\* Interrupts are taken, a call that began goes on, and the hardware runs, but for
\* chips that may have gone to sleep under a clock pin that was left high.
Fairness ==
  /\ WF_vars(Handlers) /\ WF_vars(Continues)
  /\ \A h \in Instances : /\ WF_vars(h \notin held /\ FrameBegins(h))
                          /\ WF_vars(h \notin held /\ FrameEnds(h))
                          /\ WF_vars(h \notin held /\ DmaCompletes(h))

FairSpec == Spec /\ Fairness

-----------------------------------------------------------------------------
(* Properties of instances that use different lines, one for each PIO, of     *)
(* which one at a time is powered up.                                         *)

\* init has returned, close has not been called.
Up(h) == h \in channels /\ cur # h

\* The handlers find the instance that raised the interrupt, whatever else was
\* initialised and closed before it, and it is in the state they expect
\* (hx711_multi.c:254-292, 361-388).
NoFault == ~fault

\* An instance keeps its interrupts, its handlers and its one entry in the array
\* through the init and close of the others (hx711_multi.c:182-230, 579-616).
KeepsItsOwn ==
  \A h \in Instances : Up(h) =>
    /\ IsInitd(h)
    /\ {UtilPioGetIrqFromIndex(h), UtilDmaGetIrqn(h)} \subseteq irqs
    /\ Cardinality({i \in 1..ReadCount : readers[i] = h}) = 1

\* close leaves nothing behind of an instance that could disturb the next one:
\* no entry, no SM that runs, no transfer, no interrupt that is enabled or
\* latched (hx711_multi.c:566-653).  The DMA handler it does leave.
ClosedIsGone ==
  \A h \in Instances : ~Up(h) /\ cur # h =>
    /\ h \notin Range(readers)
    /\ h \notin sms \cup en \cup dma \cup dmaEn \cup intr \cup mut
    /\ srcs[h] = {}


-----------------------------------------------------------------------------
(* The invariant behind them, and the configurations that keep it.           *)

\* The instances that are used have the one PIO interrupt that gets through, the
\* ones of different PIOs share no line, and init waits for the reads to end.
AsMeant ==
  /\ ~InitWhileReading /\ ReadCount >= 2
  /\ \A h \in Used : /\ UtilPioGetIrqFromIndex(h) = WiredLine(h)
                     /\ WiredLine(h) = ConversionDoneSource
  /\ \A g, h \in Instances : Pio[g] # Pio[h] =>
       /\ UtilPioGetIrqFromIndex(g) # UtilPioGetIrqFromIndex(h)
       /\ UtilDmaGetIrqn(g) # UtilDmaGetIrqn(h)

Initing == pc \in {"initPio", "initDma", "initDmaIrq", "initPioIrq"}

\* No two of one PIO at a time, and init and close go through their stages.
OnePerPio ==
  \A g, h \in sms \cup {cur} : g # h /\ NoOne \notin {g, h} => Pio[g] # Pio[h]

Stages ==
  \A h \in Instances :
    /\ h \in sms <=> IF cur = h THEN pc # "initPio" ELSE h \in channels
    /\ cur = h => (h \in channels <=> pc \in {"initDmaIrq", "initPioIrq", "release"})

\* The ones that have an entry in the array have only one.
Listed(h) == IF cur = h THEN Initing ELSE h \in sms

OneEntry ==
  \A h \in Instances :
    IF Listed(h) THEN \E i \in 1..ReadCount : \A j \in 1..ReadCount : readers[j] = h <=> j = i
                 ELSE \A j \in 1..ReadCount : readers[j] # h

OwnLines ==
  \A h \in Instances :
    /\ Up(h) \/ (cur = h /\ pc = "initPioIrq") =>
         handler[UtilDmaGetIrqn(h)] = "dma" /\ UtilDmaGetIrqn(h) \in irqs
    /\ Up(h) => handler[UtilPioGetIrqFromIndex(h)] = "pio" /\ UtilPioGetIrqFromIndex(h) \in irqs

\* What is left on belongs to an instance, and to a read that it made.
OwnRead(h) ==
  /\ h \in en => h \in Used /\ h \in sms
  /\ h \in dmaEn => Listed(h)
  /\ Running(h) => ~Initing /\ h \in mut /\ h \in en /\ Up(h)
  /\ h \in mut => Running(h) \/ cur = h
  /\ srcs[h] # {} => srcs[h] = {ConversionDoneSource} /\ state[h] = "waiting"
  /\ h \in dma \cup intr => state[h] = "reading"

OwnReads ==
  flag \subseteq {Pio[h] : h \in Used} /\ \A h \in Instances : OwnRead(h)

InstancesInv ==
  TypeOK /\ OnePerPio /\ Stages /\ OneEntry /\ OwnLines /\ OwnReads /\ NoFault

=============================================================================

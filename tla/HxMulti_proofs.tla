--------------------------- MODULE HxMulti_proofs ---------------------------
(***************************************************************************)
(* Proofs about HxMulti for any number of cores, any gain codes, any       *)
(* number of bits in a frame and any FIFO depth.  ReadInv, and over it     *)
(* GainInv, are inductive under the hypothesis AsMeant.                    *)
(***************************************************************************)
EXTENDS HxMulti, SequenceFacts, TLAPS

USE MultiSmAssumption, MultiAssumption

-----------------------------------------------------------------------------
(* The counters of words and of frames. *)

\* The count of the words of a frame begins again after the last one.
LEMMA CountFacts ==
  ASSUME NEW n \in 0..(Bits - 1)
  PROVE  (n + 1) % Bits = IF n + 1 = Bits THEN 0 ELSE n + 1
  OBVIOUS

\* Frames are numbered modulo 2.
LEMMA FrameFacts ==
  ASSUME NEW f \in 0..1
  PROVE  (f + 1) % 2 \in 0..1 /\ (f + 1) % 2 # f
  OBVIOUS

\* The pulses of a gain code are those of a code: all the proofs need of them.
LEMMA PulseFacts ==
  ASSUME NEW g \in Gains
  PROVE  GainPulses(g) \in PulseCounts
  BY DEF PulseCounts

-----------------------------------------------------------------------------
(* Types.  They need no more than that the calls do not overlap. *)

\* The FIFO has room for the gain that is put, and _buffer for the word that is
\* transferred.
Room ==
  /\ \A c \in Cores : pc[c] = "put" => tx = <<>>
  /\ dma => Len(buf) < Bits

TypeInv == TypeOK /\ Alone /\ Room

LEMMA InitType == Init => TypeInv
<1> SUFFICES ASSUME Init PROVE TypeInv
  OBVIOUS
<1> USE DEF Init, SmInit
<1>1. SmTypeOK
  <2>1. tx \in Seq(Gains) /\ Len(tx) <= 1 /\ rx \in Seq(Word) /\ Len(rx) <= Depth
    BY EmptyFacts
  <2>2. {en, flag, held} \subseteq BOOLEAN /\ phase \in Phases /\ x \in Gains
    BY DEF Phases
  <2>3. chip \in [gain : PulseCounts,
                  frame : {"converting", "ready", "clocked", "torn", "asleep"}]
    OBVIOUS
  <2> QED
    BY <2>1, <2>2, <2>3 DEF SmTypeOK
<1>2. buf \in Seq(Word) /\ Len(buf) <= Bits
  BY EmptyFacts
<1>3. {dma, intr, dmaEn, clean} \subseteq BOOLEAN
  OBVIOUS
<1>4. /\ pc \in [Cores -> Labels] /\ op \in [Cores -> AllOps \cup {NoOp}]
      /\ arg \in [Cores -> Gains]
  BY DEF Labels
<1>5. isr \in Isrs /\ state \in States
  BY DEF Isrs, States
<1>6. TypeOK
  BY <1>1, <1>2, <1>3, <1>4, <1>5 DEF TypeOK
<1>7. Alone /\ Room
  BY DEF Alone, Room
<1> QED
  BY <1>6, <1>7 DEF TypeInv

\* `pull noblock; out x` leaves a gain code in x.
LEMMA PullType ==
  ASSUME SmTypeOK, NEW d \in Gains, PullInto(d)
  PROVE  /\ x' \in Gains /\ tx' \in Seq(Gains) /\ Len(tx') <= 1
         /\ tx' = <<>>
<1>1. CASE tx = <<>>
  BY <1>1, EmptyFacts DEF PullInto, SmTypeOK
<1>2. CASE tx # <<>>
  BY <1>2, TailFacts, EmptyFacts DEF PullInto, SmTypeOK
<1> QED
  BY <1>1, <1>2

\* A push leaves the FIFO within its limit.
LEMMA PushType ==
  ASSUME SmTypeOK, NEW w \in Word, PushNoblock(w)
  PROVE  rx' \in Seq(Word) /\ Len(rx') <= Depth
<1>1. CASE Len(rx) < Depth
  BY <1>1, AppendFacts DEF PushNoblock, SmTypeOK
<1>2. CASE ~(Len(rx) < Depth)
  BY <1>2 DEF PushNoblock, SmTypeOK
<1> QED
  BY <1>1, <1>2

\* What the reader pushes is a word.
LEMMA WordType ==
  ASSUME SmTypeOK
  PROVE  /\ NullWord \in Word
         /\ [bit   |-> IF chip.frame = "clocked" THEN count + 1 ELSE TornBit,
             frame |-> frame, gain |-> chip.gain] \in Word
  BY PulseFacts DEF SmTypeOK, Word, NullWord, TornBit

\* The state machines keep to their sets.
LEMMA ReaderType ==
  ASSUME SmTypeOK, Reader
  PROVE  SmTypeOK' /\ (tx = <<>> => tx' = <<>>)
<1> USE DEF SmTypeOK, Phases, At
<1>1. CASE ReaderBoot
  BY <1>1, PullType DEF ReaderBoot
<1>2. CASE ReaderNull
  BY <1>2, PushType, WordType DEF ReaderNull
<1>3. CASE ReaderBegin \/ ReaderClear
  BY <1>3, FrameFacts DEF ReaderBegin, ReaderClear
<1>4. CASE ReaderEdge
  <2>1. PICK f \in {"clocked", "torn"} : chip' = [chip EXCEPT !.frame = f]
    BY <1>4 DEF ReaderEdge
  <2> QED
    BY <1>4, <2>1 DEF ReaderEdge
<1>5. CASE ReaderBit
  <2>1. rx' \in Seq(Word) /\ Len(rx') <= Depth
    BY <1>5, PushType, WordType DEF ReaderBit
  <2>2. count' \in 0..(Bits - 1)
    BY <1>5, CountFacts DEF ReaderBit
  <2> QED
    BY <1>5, <2>1, <2>2 DEF ReaderBit
<1>6. CASE ReaderDone
  BY <1>6 DEF ReaderDone
<1>7. CASE ReaderPull
  BY <1>7, PullType DEF ReaderPull
<1>8. CASE ReaderGain
  <2>1. PICK p \in PulseCounts : chip' = [gain |-> p, frame |-> "converting"]
    BY <1>8 DEF ReaderGain
  <2> QED
    BY <1>8, <2>1 DEF ReaderGain
<1> QED
  BY <1>1, <1>2, <1>3, <1>4, <1>5, <1>6, <1>7, <1>8 DEF Reader

\* What the cores, the DMA channel and the chips do to them, as well.
LEMMA SmStepType ==
  ASSUME SmTypeOK,
         \/ Convert \/ Sleep \/ Drain \/ Take \/ ClearRx \/ StopSms
         \/ UNCHANGED smVars
         \/ \E g \in Gains : StartSms(g) \/ (tx = <<>> /\ Put(g))
  PROVE  SmTypeOK'
<1> USE DEF SmTypeOK
<1>0. LatchAfterStop \subseteq BOOLEAN
  BY DEF LatchAfterStop
<1>1. CASE Convert \/ Sleep
  BY <1>1 DEF Convert, Sleep
<1>2. CASE Drain
  BY <1>2, EmptyFacts DEF Drain
<1>3. CASE Take
  BY <1>3, TailFacts DEF Take
<1>4. CASE ClearRx
  BY <1>4, EmptyFacts DEF ClearRx
<1>5. CASE StopSms
  <2>1. held' \in BOOLEAN
    BY <1>0, <1>5 DEF StopSms
  <2>2. {en', flag', held'} \subseteq BOOLEAN
    BY <1>5, <2>1 DEF StopSms
  <2>3. count' \in 0..(Bits - 1) /\ x' \in Gains /\ phase' \in Phases
    BY <1>5 DEF StopSms, Phases
  <2> QED
    BY <1>5, <2>2, <2>3 DEF StopSms
<1>8. CASE UNCHANGED smVars
  BY <1>8 DEF smVars
<1>6. ASSUME NEW g \in Gains, StartSms(g) PROVE SmTypeOK'
  <2>1. <<g>> \in Seq(Gains) /\ Len(<<g>>) = 1
    OBVIOUS
  <2> QED
    BY <1>0, <1>6, <2>1, EmptyFacts DEF StartSms, Phases
<1>7. ASSUME NEW g \in Gains, tx = <<>>, Put(g) PROVE SmTypeOK'
  BY <1>7, AppendFacts, EmptyFacts DEF Put
<1> QED
  BY <1>1, <1>2, <1>3, <1>4, <1>5, <1>6, <1>7, <1>8

\* The types but those of the state machines.
IrqTypeOK ==
  /\ {dma, intr, dmaEn, clean} \subseteq BOOLEAN
  /\ buf \in Seq(Word) /\ Len(buf) <= Bits
  /\ srcs \subseteq 7..10 /\ isr \in Isrs /\ state \in States
  /\ {asked, due} \subseteq Gains \cup {NoGain}

CallTypeOK ==
  /\ mut \in Cores \cup {None} /\ off \subseteq Cores
  /\ pc \in [Cores -> Labels] /\ op \in [Cores -> AllOps \cup {NoOp}]
  /\ arg \in [Cores -> Gains]

LEMMA TypeParts ==
  /\ TypeOK <=> SmTypeOK /\ IrqTypeOK /\ CallTypeOK /\ pend \subseteq {"pio", "dma"}
  /\ TypeOK' <=> SmTypeOK' /\ IrqTypeOK' /\ CallTypeOK' /\ (pend \subseteq {"pio", "dma"})'
  BY DEF TypeOK, IrqTypeOK, CallTypeOK

\* What a step of a call does to the program counters and arguments.
LEMMA GotoFacts ==
  ASSUME CallTypeOK, NEW c \in Cores, NEW l \in Labels, Goto(c, l)
  PROVE  /\ pc' \in [Cores -> Labels] /\ op' \in [Cores -> AllOps \cup {NoOp}]
         /\ arg' \in [Cores -> Gains]
         /\ pc'[c] = l /\ \A d \in Cores \ {c} : pc'[d] = pc[d]
         /\ l # "idle" => op' = op /\ arg' = arg
         /\ l = "idle" => op'[c] = NoOp /\ arg'[c] = DefaultGain
         /\ \A d \in Cores \ {c} : op'[d] = op[d] /\ arg'[d] = arg[d]
  BY DEF Goto, CallTypeOK

\* A trigger of the DMA channel.
LEMMA TriggerFacts ==
  ASSUME IrqTypeOK, Trigger, isr' \in Isrs
  PROVE  /\ dmaEn' = TRUE /\ dma' = TRUE /\ buf' = <<>> /\ state' = "reading"
         /\ intr' = intr /\ srcs' = srcs /\ asked' = asked /\ due' = asked
         /\ UNCHANGED <<smVars, clean>>
         /\ IrqTypeOK' /\ (dma' => Len(buf') < Bits)
<1>1. /\ dmaEn' = TRUE /\ dma' = TRUE /\ buf' = <<>> /\ state' = "reading"
      /\ intr' = intr /\ srcs' = srcs /\ asked' = asked /\ due' = asked
      /\ UNCHANGED <<smVars, clean>>
  BY DEF Trigger
<1>3. buf' \in Seq(Word) /\ Len(buf') <= Bits /\ Len(buf') < Bits
  BY <1>1, EmptyFacts
<1>4. {dma', intr', dmaEn', clean'} \subseteq BOOLEAN
  BY <1>1, Zenon DEF IrqTypeOK
<1> QED
  BY <1>1, <1>3, <1>4 DEF IrqTypeOK, States

\* The end of a clearing of the FIFO.
LEMMA ClearFacts ==
  ASSUME IrqTypeOK, Room, ClearFifo, isr' \in Isrs
  PROVE  /\ UNCHANGED <<irqVars, state, asked, due, en, phase, count, x, tx, flag>>
         /\ UNCHANGED <<held, chip, frame>>
         /\ rx' = <<>> /\ (clean' <=> BeforeFirstWord)
         /\ IrqTypeOK' /\ (dma' => Len(buf') < Bits)
<1>1. /\ UNCHANGED <<irqVars, state, asked, due, en, phase, count, x, tx, flag>>
      /\ UNCHANGED <<held, chip, frame>> /\ rx' = <<>>
  BY DEF ClearFifo, ClearRx
<1>2. clean' \in BOOLEAN /\ (clean' <=> BeforeFirstWord)
  BY Zenon DEF ClearFifo, BeforeFirstWord
<1>3. {dma', intr', dmaEn', clean'} \subseteq BOOLEAN
  BY <1>1, <1>2, Zenon DEF IrqTypeOK, irqVars
<1>4. IrqTypeOK' /\ (dma' => Len(buf') < Bits)
  BY <1>1, <1>3 DEF IrqTypeOK, irqVars, Room
<1> QED
  BY <1>1, <1>2, <1>4

\* The calls that are on their way go their way alone.
LEMMA AloneFacts ==
  ASSUME CallTypeOK, Alone, NEW c \in Cores, pc[c] # "idle",
         \A d \in Cores \ {c} : pc'[d] = pc[d]
  PROVE  /\ Alone'
         /\ \A d \in Cores \ {c} : pc[d] = "idle" /\ pc'[d] = "idle"
  BY DEF Alone, CallTypeOK

\* The hardware and the handlers leave the calls alone.
LEMMA HardwareType ==
  ASSUME TypeInv, ReaderStep \/ ChipConverts \/ ChipSleeps \/ DmaTransfer \/ Isr
  PROVE  TypeInv'
<1> USE DEF TypeInv
<1>1. SmTypeOK /\ IrqTypeOK /\ CallTypeOK
  BY TypeParts
<1>2. pend' \subseteq {"pio", "dma"}
  BY DEF ReaderStep, ChipConverts, ChipSleeps, DmaTransfer, Isr, PioIsr, PioIsrClear,
     PioIsrTrigger, PioIsrEnd, DmaIsr, DmaIsrFinish, DmaIsrEnd, Nvic
<1>3. UNCHANGED <<off, callVars>> /\ mut' \in {mut, None}
  BY DEF ReaderStep, ChipConverts, ChipSleeps, DmaTransfer, Isr, PioIsr, PioIsrClear,
     PioIsrTrigger, PioIsrEnd, DmaIsr, DmaIsrFinish, DmaIsrEnd, coreVars
<1>4. CallTypeOK' /\ Alone'
  BY <1>1, <1>3 DEF CallTypeOK, Alone, callVars
<1>5. SmTypeOK' /\ (tx = <<>> => tx' = <<>>)
  <2>1. CASE ReaderStep
    BY <1>1, <2>1, ReaderType DEF ReaderStep
  <2>2. CASE ChipConverts \/ ChipSleeps \/ DmaTransfer \/ Isr
    <3>1. \/ Convert \/ Sleep \/ Take \/ ClearRx \/ UNCHANGED smVars
      BY <2>2 DEF ChipConverts, ChipSleeps, DmaTransfer, Isr, PioIsr, PioIsrClear,
         PioIsrTrigger, PioIsrEnd, DmaIsr, DmaIsrFinish, DmaIsrEnd, ClearFifo, Trigger
    <3>2. tx' = tx
      BY <3>1 DEF Convert, Sleep, Take, ClearRx, smVars
    <3> QED
      BY <1>1, <3>1, <3>2, SmStepType
  <2> QED
    BY <2>1, <2>2
<1>6. IrqTypeOK' /\ (dma' => Len(buf') < Bits)
  <2>1. CASE ReaderStep \/ ChipConverts \/ ChipSleeps \/ PioIsr \/ DmaIsrEnd
    BY <1>1, <2>1 DEF IrqTypeOK, Room, ReaderStep, ChipConverts, ChipSleeps, PioIsr,
       DmaIsrEnd, irqVars, coreVars, history, Isrs
  <2>2. CASE DmaTransfer
    <3>1. Head(rx) \in Word
      BY <1>1, <2>2, TailFacts DEF DmaTransfer, Take, SmTypeOK
    <3>2. buf' \in Seq(Word) /\ Len(buf') = Len(buf) + 1 /\ Len(buf) < Bits
      BY <1>1, <2>2, <3>1, AppendFacts DEF DmaTransfer, IrqTypeOK, Room
    <3>3. UNCHANGED <<dmaEn, srcs, isr, state, history>> /\ dma' = (Len(buf') < Bits)
      BY <2>2 DEF DmaTransfer, coreVars
    <3>4. dma' \in BOOLEAN /\ intr' \in BOOLEAN
      <4>1. dma' = (Len(buf') < Bits) /\ intr' = (intr \/ Len(buf') = Bits)
        BY <2>2 DEF DmaTransfer
      <4> QED
        BY <4>1
    <3>5. Len(buf') <= Bits
      BY <1>1, <3>2 DEF IrqTypeOK
    <3> QED
      BY <1>1, <3>2, <3>3, <3>4, <3>5 DEF IrqTypeOK, history
  <2>3. CASE PioIsrTrigger
    BY <1>1, <2>3, TriggerFacts DEF PioIsrTrigger, Isrs
  <2>6. CASE PioIsrClear
    BY <1>1, <2>6, ClearFacts DEF PioIsrClear, Isrs
  <2>4. CASE PioIsrEnd
    BY <1>1, <2>4 DEF IrqTypeOK, Room, PioIsrEnd, coreVars, history, Isrs
  <2>7. CASE DmaIsrFinish
    BY <1>1, <2>7 DEF IrqTypeOK, DmaIsrFinish, StopListening, coreVars, history, Isrs
  <2>5. CASE DmaIsr
    BY <1>1, <2>5 DEF IrqTypeOK, Room, DmaIsr, irqVars, history, Isrs, States
  <2> QED
    BY <2>1, <2>2, <2>3, <2>4, <2>5, <2>6, <2>7 DEF Isr
<1>7. Room'
  BY <1>3, <1>5, <1>6 DEF Room, callVars
<1> QED
  BY <1>2, <1>4, <1>5, <1>6, <1>7, TypeParts

\* So do the calls, of which there is one at a time.
LEMMA CallType ==
  ASSUME TypeInv, ~Overlap, NEW c \in Cores, Call(c) \/ Body(c)
  PROVE  TypeInv'
<1> USE DEF TypeInv
<1>1. SmTypeOK /\ IrqTypeOK /\ CallTypeOK
  BY TypeParts
<1>2. pend' \subseteq {"pio", "dma"}
  BY DEF Call, Body, DrainTx, PutGain, Begin, Enter, Check, Start, StartTrigger,
     Restore, Done, Copy, TimeReached, Disable, Finish, Unlock, PowerDown, PowerUp,
     Exit, Nvic
<1>3. CASE Call(c)
  <2>1. PICK o \in Ops, g \in Gains :
          /\ pc[c] = "idle" /\ \A d \in Cores : pc[d] = "idle"
          /\ pc' = [pc EXCEPT ![c] = Entry(o)]
          /\ op' = [op EXCEPT ![c] = o] /\ arg' = [arg EXCEPT ![c] = g]
          /\ UNCHANGED <<smVars, irqVars, isr, state, mut, off, history>>
    BY <1>3 DEF Call, Runs
  <2>2. Entry(o) \in Labels \ {"put"}
    BY DEF Entry, Labels, AllOps, Powers
  <2>3. CallTypeOK' /\ Alone' /\ Room'
    BY <1>1, <2>1, <2>2 DEF CallTypeOK, Alone, Room, smVars, irqVars
  <2>4. IrqTypeOK'
    BY <1>1, <2>1 DEF IrqTypeOK, irqVars, history
  <2> QED
    BY <1>1, <1>2, <2>1, <2>3, <2>4, SmStepType, TypeParts
<1>4. CASE Body(c)
  <2>1. PICK l \in Labels : Goto(c, l) /\ pc[c] # "idle" /\ (l = "put" => tx' = <<>>)
    BY <1>4 DEF Body, DrainTx, PutGain, Begin, Enter, Check, Start, StartTrigger,
       Restore, Done, Copy, TimeReached, Disable, Finish, Unlock, PowerDown, PowerUp,
       Exit, Labels, AfterUnlock, Runs, Drain
  <2>2. /\ pc' \in [Cores -> Labels] /\ op' \in [Cores -> AllOps \cup {NoOp}]
        /\ arg' \in [Cores -> Gains]
        /\ pc'[c] = l /\ \A d \in Cores \ {c} : pc'[d] = pc[d]
    BY <1>1, <2>1, GotoFacts
  <2>3. mut' \in Cores \cup {None} /\ off' \subseteq Cores
    BY <1>1, <1>4 DEF CallTypeOK, Body, DrainTx, PutGain, Begin, Enter, Check,
       Start, StartTrigger, Restore, Done, Copy, TimeReached, Disable, Finish, Unlock,
       PowerDown, PowerUp, Exit
  <2>4. CallTypeOK'
    BY <2>2, <2>3 DEF CallTypeOK
  <2>5. Alone' /\ \A d \in Cores \ {c} : pc'[d] = "idle"
    BY <1>1, <2>1, <2>2, AloneFacts
  <2>6. SmTypeOK'
    <3>1. \/ Drain \/ ClearRx \/ StopSms \/ UNCHANGED smVars
          \/ \E g \in Gains : StartSms(g) \/ (tx = <<>> /\ Put(g))
      BY <1>1, <1>4 DEF CallTypeOK, Room, Body, DrainTx, PutGain, Begin, Enter, Check,
         Start, StartTrigger, Restore, Done, Copy, TimeReached, Disable, Finish, Unlock,
         PowerDown, PowerUp, Exit, ClearFifo, Trigger, Runs
    <3> QED
      BY <1>1, <3>1, SmStepType
  <2>7. IrqTypeOK' /\ (dma' => Len(buf') < Bits)
    <3>1. CASE DrainTx(c) \/ PutGain(c) \/ Begin(c) \/ Restore(c) \/ Copy(c)
               \/ TimeReached(c) \/ Disable(c) \/ Unlock(c) \/ PowerDown(c)
               \/ PowerUp(c) \/ Exit(c)
      <4>1. /\ UNCHANGED <<irqVars, isr, state, clean>>
            /\ asked' \in {asked, NoGain} /\ due' \in {due, NoGain}
        BY <3>1 DEF DrainTx, PutGain, Begin, Restore, Copy, TimeReached, Disable,
           Unlock, PowerDown, PowerUp, Exit, history
      <4> QED
        BY <1>1, <4>1 DEF IrqTypeOK, Room, irqVars
    <3>2. CASE Enter(c)
      BY <1>1, <3>2 DEF IrqTypeOK, Room, Enter, irqVars, history, States
    <3>3. CASE Check(c)
      <4>1. StartSource \in 7..10
        BY DEF StartSource, HandledIrq, UtilPioToIrqMap
      <4>2. srcs' \in {srcs, srcs \cup {StartSource}}
            /\ UNCHANGED <<dma, buf, intr, dmaEn, isr, state, history>>
        BY <3>3 DEF Check
      <4> QED
        BY <1>1, <4>1, <4>2 DEF IrqTypeOK, Room, history
    <3>4. CASE Start(c)
      BY <1>1, <3>4, ClearFacts DEF IrqTypeOK, Start
    <3>7. CASE StartTrigger(c)
      BY <1>1, <3>7, TriggerFacts DEF IrqTypeOK, StartTrigger
    <3>5. CASE Done(c)
      BY <1>1, <3>5 DEF IrqTypeOK, CallTypeOK, Room, Done, irqVars
    <3>6. CASE Finish(c)
      BY <1>1, <3>6 DEF IrqTypeOK, Finish, StopListening, history
    <3> QED
      BY <1>4, <3>1, <3>2, <3>3, <3>4, <3>5, <3>6, <3>7 DEF Body
  <2>8. Room'
    BY <2>1, <2>2, <2>5, <2>7 DEF Room
  <2> QED
    BY <1>2, <2>4, <2>5, <2>6, <2>7, <2>8, TypeParts
<1> QED
  BY <1>3, <1>4

LEMMA TypeStep ==
  ASSUME TypeInv, ~Overlap, [Next]_vars
  PROVE  TypeInv'
<1>1. CASE UNCHANGED vars
  BY <1>1 DEF TypeInv, TypeOK, SmTypeOK, Alone, Room, vars, smVars, irqVars,
     coreVars, callVars, history
<1> QED
  BY <1>1, HardwareType, CallType DEF Next

\* Every variable keeps to its set, whatever the calls, so long as they do not
\* overlap: the reads with a timeout and either interrupt source included.
THEOREM TypeCorrect ==
  ASSUME ~Overlap
  PROVE  Spec => []TypeOK
<1>1. TypeInv /\ [Next]_vars => TypeInv'
  BY TypeStep
<1>2. TypeInv => TypeOK
  BY DEF TypeInv
<1> QED
  BY <1>1, <1>2, InitType, PTL DEF Spec

-----------------------------------------------------------------------------
(* The stages of a read: ReadInv. *)

\* On pio0 with IRQ index 1 the source that async_start enables is the flag's,
\* and the handler is on the line of this PIO.
LEMMA Wiring ==
  ASSUME AsMeant
  PROVE  /\ HandledIrq = WiredIrq /\ StartSource = 8 /\ ConversionDoneSource = 8
  BY DEF AsMeant, HandledIrq, WiredIrq, StartSource, UtilPioToIrqMap,
     ConversionDoneSource

\* What is pending after a step.
LEMMA NvicFacts ==
  ASSUME AsMeant, Nvic, srcs' \subseteq {ConversionDoneSource}
  PROVE  /\ pend' \subseteq {"pio", "dma"}
         /\ "pio" \in pend' <=>
              /\ isr' \notin {"pioStart", "pioTrigger", "pioEnd"}
              /\ \/ "pio" \in pend /\ isr \notin {"pioStart", "pioTrigger", "pioEnd"}
                 \/ srcs' # {} /\ flag'
         /\ "dma" \in pend' <=>
              /\ isr' \notin {"dmaFinish", "dmaEnd"}
              /\ \/ "dma" \in pend /\ isr \notin {"dmaFinish", "dmaEnd"}
                 \/ dmaEn' /\ intr'
<1>1. Raised("pio")' <=> srcs' # {} /\ flag'
  BY Wiring DEF Raised, SourceRaised, HandledIrq, WiredIrq
<1>2. Raised("dma")' <=> dmaEn' /\ intr'
  BY DEF Raised
<1>3. /\ Handling("pio") <=> isr \in {"pioStart", "pioTrigger", "pioEnd"}
      /\ Handling("pio")' <=> isr' \in {"pioStart", "pioTrigger", "pioEnd"}
      /\ Handling("dma") <=> isr \in {"dmaFinish", "dmaEnd"}
      /\ Handling("dma")' <=> isr' \in {"dmaFinish", "dmaEnd"}
  BY DEF Handling
<1> QED
  BY <1>1, <1>2, <1>3 DEF Nvic

\* In each stage, no source is enabled but the flag's.
LEMMA StageSources ==
  ASSUME Stages
  PROVE  srcs \subseteq {ConversionDoneSource} /\ isr # "fault"
         /\ (dma => Len(buf) < Bits)
  BY DEF Stages, Free, Powering, Entered, Waiting, Reading, Finishing, Quiet

LEMMA ReadInvTypes == ReadInv => TypeInv
  BY StageSources DEF ReadInv, TypeInv, Room, CallSteps, StepsOf

\* Where the call of a core is says in which stage the read is.
LEMMA StageOfCall ==
  ASSUME ReadInv, NEW c \in Cores
  PROVE  /\ InPower(c) => Powering
         /\ Starting(c) => Entered
         /\ Stopping(c) => Free
<1> USE DEF ReadInv, Alone, CallSteps, InPower, Starting, Stopping
<1>1. StepsOf(c)
  OBVIOUS
<1>2. ASSUME Starting(c) PROVE Entered
  BY <1>1, <1>2 DEF Stages, Free, Powering, Waiting, Reading, Finishing, StepsOf,
     Running, NoneStarts
<1>3. ASSUME InPower(c) PROVE Powering
  BY <1>1, <1>3 DEF Stages, Free, Entered, Waiting, Reading, Finishing, NoneStarts
<1>4. ASSUME Stopping(c) PROVE Free
  BY <1>1, <1>4 DEF Stages, Powering, Entered, Waiting, Reading, Finishing, NoneStarts
<1> QED
  BY <1>2, <1>3, <1>4

LEMMA InitRead == Init => ReadInv
<1> SUFFICES ASSUME Init PROVE ReadInv
  OBVIOUS
<1>1. TypeOK /\ Alone
  BY InitType DEF TypeInv
<1>2. CallSteps
  BY DEF Init, SmInit, CallSteps, StepsOf, Coming, Starting, NoOp
<1>3. Free /\ ~Running
  BY DEF Init, Free, Quiet, Running, InPower
<1> QED
  BY <1>1, <1>2, <1>3 DEF ReadInv, Stages

\* The reader sets its flag at the end of a frame and clears it when the next one
\* begins; nothing else does.
LEMMA FlagFacts ==
  ASSUME Reader
  PROVE  /\ en /\ en' = en
         /\ phase' = "clear" => phase = "wait"
         /\ flag' # flag => \/ phase = "clear" /\ flag' = FALSE
                            \/ phase = "done" /\ phase' = "pull" /\ flag' = TRUE
         /\ phase = "clear" => phase' = "edge"
  BY DEF Reader, ReaderBoot, ReaderNull, ReaderBegin, ReaderClear, ReaderEdge,
     ReaderBit, ReaderDone, ReaderPull, ReaderGain, At

\* The hardware goes from stage to stage with the flag only.
LEMMA HardwareStages ==
  ASSUME AsMeant, ReadInv, ReaderStep \/ ChipConverts \/ ChipSleeps
  PROVE  CallSteps' /\ Stages'
<1> USE DEF ReadInv
<1>1. UNCHANGED <<irqVars, isr, coreVars, history>> /\ Nvic /\ en' = en
      /\ (tx = <<>> => tx' = <<>>)
  <2>1. CASE ReaderStep
    BY <2>1, ReaderType, FlagFacts DEF ReaderStep, TypeOK
  <2>2. CASE ChipConverts \/ ChipSleeps
    BY <2>2 DEF ChipConverts, Convert, ChipSleeps, Sleep
  <2> QED
    BY <2>1, <2>2
<1>2. CallSteps'
  BY <1>1 DEF CallSteps, StepsOf, Coming, Starting, Running, coreVars, callVars
<1>3. /\ UNCHANGED <<dma, buf, intr, dmaEn, srcs, isr, state, mut, off, pc, op>>
      /\ srcs' \subseteq {ConversionDoneSource}
  BY <1>1, StageSources DEF irqVars, coreVars, callVars
<1>4. \A c \in Cores :
        /\ InPower(c)' <=> InPower(c)
        /\ Starting(c)' <=> Starting(c)
        /\ Stopping(c)' <=> Stopping(c)
  BY <1>3 DEF InPower, Starting, Stopping
<1>5. (NoneStarts' <=> NoneStarts) /\ (Running' <=> Running)
  BY <1>3, <1>4 DEF NoneStarts, Running
<1>12. Running' => en'
  BY <1>1, <1>5 DEF Stages
<1>6. CASE Free
  <2>1. pend' = {}
    BY <1>1, <1>3, <1>6, NvicFacts DEF Free, Quiet
  <2>2. Free'
    BY <1>3, <1>4, <1>5, <1>6, <2>1 DEF Free, Quiet
  <2> QED
    BY <1>2, <1>12, <2>2 DEF Stages
<1>7. CASE Powering
  <2>1. pend' = {}
    BY <1>1, <1>3, <1>7, NvicFacts DEF Powering, Quiet
  <2>2. Powering'
    BY <1>3, <1>4, <1>5, <1>7, <2>1 DEF Powering, Quiet
  <2> QED
    BY <1>2, <1>12, <2>2 DEF Stages
<1>8. CASE Entered
  <2>1. pend' = {}
    BY <1>1, <1>3, <1>8, NvicFacts DEF Entered, Quiet
  <2>2. Entered'
    BY <1>3, <1>4, <1>8, <2>1 DEF Entered, Quiet
  <2> QED
    BY <1>2, <1>12, <2>2 DEF Stages
<1>9. CASE Waiting
  <2>1. phase' = "clear" /\ phase # "clear" => pend # {"pio"}
    <3>1. CASE ReaderStep
      <4>1. SUFFICES ASSUME phase' = "clear", pend = {"pio"} PROVE FALSE
        OBVIOUS
      <4>2. phase = "wait"
        BY <3>1, <4>1, FlagFacts DEF ReaderStep
      <4>3. IrqCore \in off /\ pc[IrqCore] = "enter"
        BY <3>1, <4>1, <4>2 DEF ReaderStep, PioIsrPrompt
      <4>4. Coming(IrqCore) /\ ~Running
        BY <4>3 DEF CallSteps, StepsOf, Coming
      <4> QED
        BY <1>9, <4>4 DEF Waiting, Running
    <3>2. CASE ChipConverts \/ ChipSleeps
      BY <3>2 DEF ChipConverts, Convert, ChipSleeps, Sleep
    <3> QED
      BY <3>1, <3>2
  <2>2. flag' # flag => \/ phase = "clear" /\ flag' = FALSE
                        \/ phase' = "pull" /\ flag' = TRUE
    BY FlagFacts DEF ReaderStep, ChipConverts, Convert, ChipSleeps, Sleep
  <2>3. \/ isr' = "idle" /\ pend' = {} /\ ~flag'
        \/ isr' = "idle" /\ pend' = {"pio"} /\ flag' /\ phase' # "clear"
        \/ isr' \in {"pioStart", "pioTrigger"} /\ pend' = {}
    <3>1. CASE isr \in {"pioStart", "pioTrigger"}
      BY <1>1, <1>3, <1>9, <3>1, NvicFacts DEF Waiting
    <3>2. CASE isr = "idle" /\ pend = {} /\ ~flag
      <4>1. "dma" \notin pend' /\ ("pio" \in pend' <=> flag')
        BY <1>1, <1>3, <1>9, <3>2, NvicFacts DEF Waiting
      <4>2. flag' => phase' # "clear"
        BY <2>2, <3>2
      <4> QED
        BY <1>1, <1>3, <3>2, <4>1, <4>2, NvicFacts
    <3>3. CASE isr = "idle" /\ pend = {"pio"} /\ flag /\ phase # "clear"
      <4>1. "dma" \notin pend' /\ "pio" \in pend'
        BY <1>1, <1>3, <1>9, <3>3, NvicFacts DEF Waiting
      <4>2. flag' /\ phase' # "clear"
        BY <2>1, <2>2, <3>3
      <4> QED
        BY <1>1, <1>3, <3>3, <4>1, <4>2, NvicFacts
    <3> QED
      BY <1>9, <3>1, <3>2, <3>3 DEF Waiting
  <2> QED
    <3>1. Waiting'
      BY <1>3, <1>5, <1>9, <2>3 DEF Waiting
    <3> QED
      BY <1>2, <1>12, <3>1 DEF Stages
<1>10. CASE Reading
  <2>1. pend' = IF intr' THEN {"dma"} ELSE {}
    BY <1>1, <1>3, <1>10, NvicFacts DEF Reading
  <2> QED
    <3>1. Reading'
      BY <1>3, <1>5, <1>10, <2>1 DEF Reading
    <3> QED
      BY <1>2, <1>12, <3>1 DEF Stages
<1>11. CASE Finishing
  <2>1. pend' = {}
    BY <1>1, <1>3, <1>11, NvicFacts DEF Finishing
  <2>2. Finishing'
    BY <1>3, <1>5, <1>11, <2>1 DEF Finishing
  <2> QED
    BY <1>2, <1>12, <2>2 DEF Stages
<1> QED
  BY <1>6, <1>7, <1>8, <1>9, <1>10, <1>11 DEF Stages

\* The DMA channel moves on within the reading stage; its last word raises the
\* DMA interrupt.
LEMMA TransferStages ==
  ASSUME AsMeant, ReadInv, DmaTransfer
  PROVE  CallSteps' /\ Stages'
<1> USE DEF ReadInv
<1>1. /\ UNCHANGED <<dmaEn, srcs, isr, state, mut, off, pc, op, en, tx>> /\ Nvic
      /\ dma' = (Len(buf') < Bits) /\ intr' = (intr \/ Len(buf') = Bits)
  BY DEF DmaTransfer, Take, coreVars, callVars
<1>2. CallSteps'
  BY <1>1 DEF CallSteps, StepsOf, Coming, Starting, Running
<1>3. Reading /\ dma
  BY DEF DmaTransfer, Stages, Free, Powering, Entered, Waiting, Finishing, Quiet
<1>4. TypeOK'
  BY ReadInvTypes, HardwareType DEF TypeInv
<1>5. Len(buf') \in Nat /\ Len(buf') <= Bits
  BY <1>4 DEF TypeOK
<1>6. intr' = ~dma'
  <2>1. intr = FALSE
    BY <1>3 DEF Reading
  <2>2. CASE Len(buf') < Bits
    <3>1. Len(buf') # Bits
      BY <1>5, <2>2
    <3> QED
      BY <1>1, <2>1, <2>2, <3>1, Zenon
  <2>3. CASE Len(buf') = Bits
    <3>1. ~(Len(buf') < Bits)
      BY <1>5, <2>3
    <3> QED
      BY <1>1, <2>3, <3>1, Zenon
  <2> QED
    BY <1>5, <2>2, <2>3
<1>7. pend' = IF intr' THEN {"dma"} ELSE {}
  <2>1. "pio" \notin pend' /\ ("dma" \in pend' <=> intr') /\ pend' \subseteq {"pio", "dma"}
    BY <1>1, <1>3, StageSources, NvicFacts DEF Reading
  <2> QED
    BY <2>1
<1>8. NoneStarts' /\ (Running' => en')
  BY <1>1, <1>3 DEF Reading, NoneStarts, InPower, Starting, Stopping, Stages, Running
<1>9. Reading'
  BY <1>1, <1>3, <1>6, <1>7, <1>8 DEF Reading
<1> QED
  BY <1>2, <1>8, <1>9 DEF Stages

\* A pending PIO interrupt is that of a waiting read, whose flag is set; a pending
\* DMA interrupt is that of a read whose transfer is complete.
LEMMA PendingStage ==
  ASSUME ReadInv
  PROVE  /\ "pio" \in pend => Waiting /\ flag /\ en
         /\ "dma" \in pend => Reading /\ intr /\ en
         /\ isr \in {"pioStart", "pioTrigger"} => Waiting
         /\ isr \in {"pioEnd"} => Reading
         /\ isr \in {"dmaFinish", "dmaEnd"} => Finishing
<1> USE DEF ReadInv, Stages, Quiet, Running
<1>1. CASE Free \/ Powering \/ Entered
  BY <1>1 DEF Free, Powering, Entered
<1>2. CASE Waiting
  BY <1>2 DEF Waiting
<1>3. CASE Reading
  BY <1>3 DEF Reading
<1>4. CASE Finishing
  BY <1>4 DEF Finishing
<1> QED
  BY <1>1, <1>2, <1>3, <1>4

\* The handlers serve the read that raised their interrupt, and take it from
\* waiting to reading, and from reading to the end.
LEMMA HandlerStages ==
  ASSUME AsMeant, ReadInv, Isr
  PROVE  CallSteps' /\ Stages'
<1> USE DEF ReadInv
<1>1. UNCHANGED <<off, pc, op, en, tx, flag, phase>> /\ Nvic
  BY DEF Isr, PioIsr, PioIsrClear, PioIsrTrigger, PioIsrEnd, DmaIsr, DmaIsrFinish,
     DmaIsrEnd, coreVars, callVars, smVars, ClearFifo, Trigger, ClearRx
<1>2. (\A c \in Cores : ~Coming(c) /\ ~Starting(c) /\ pc[c] # "copy") \/ state' = state
  <2>1. CASE PioIsr \/ PioIsrClear \/ PioIsrEnd \/ DmaIsrFinish \/ DmaIsrEnd
    BY <2>1 DEF PioIsr, PioIsrClear, ClearFifo, PioIsrEnd, DmaIsrFinish, DmaIsrEnd,
       coreVars
  <2>2. CASE PioIsrTrigger \/ DmaIsr
    <3>1. state' = state \/ Waiting \/ Reading
      BY <2>2, PendingStage DEF PioIsrTrigger, DmaIsr, Interrupted
    <3> QED
      BY <3>1, Zenon DEF Waiting, Reading, NoneStarts, CallSteps, StepsOf, Running
  <2> QED
    BY <2>1, <2>2 DEF Isr
<1>3. CallSteps'
  BY <1>1, <1>2 DEF CallSteps, StepsOf, Coming, Starting, Running
<1>4. NoneStarts' <=> NoneStarts
  BY <1>1 DEF NoneStarts, InPower, Starting, Stopping
<1>5. CASE PioIsr
  <2>1. Waiting /\ flag /\ en /\ isr = "idle"
    BY <1>5, PendingStage DEF PioIsr, Interrupted
  <2>2. isr' = "pioStart"
    BY <1>5, <2>1 DEF PioIsr, AssertFails, Waiting
  <2>3. UNCHANGED <<mut, state, dma, intr, srcs, dmaEn>>
    BY <1>5 DEF PioIsr, coreVars, irqVars
  <2>4. pend' = {}
    BY <1>1, <2>1, <2>2, <2>3, StageSources, NvicFacts DEF Waiting
  <2>5. Waiting'
    BY <1>4, <2>1, <2>2, <2>3, <2>4 DEF Waiting
  <2> QED
    BY <1>1, <1>3, <2>1, <2>5 DEF Stages
<1>11. CASE PioIsrClear
  <2>1. Waiting /\ isr = "pioStart" /\ isr' = "pioTrigger" /\ mut' = mut
    BY <1>11, PendingStage DEF PioIsrClear
  <2>2. UNCHANGED <<state, dma, intr, srcs, dmaEn>>
    BY <1>11 DEF PioIsrClear, ClearFifo, irqVars
  <2>3. pend' = {}
    BY <1>1, <2>1, <2>2, StageSources, NvicFacts DEF Waiting
  <2>4. Waiting'
    BY <1>4, <2>1, <2>2, <2>3 DEF Waiting
  <2> QED
    BY <1>1, <1>3, <2>1, <2>4 DEF Stages, Waiting, Running
<1>6. CASE PioIsrTrigger
  <2>1. Waiting /\ isr = "pioTrigger" /\ isr' = "pioEnd" /\ mut' = mut
    BY <1>6, PendingStage DEF PioIsrTrigger
  <2>2. /\ dmaEn' = TRUE /\ dma' = TRUE /\ buf' = <<>> /\ state' = "reading"
        /\ intr' = intr /\ srcs' = srcs
    BY <1>6 DEF PioIsrTrigger, Trigger
  <2>3. dma' = (Len(buf') < Bits) /\ intr' = ~dma'
    <3>1. Len(buf') < Bits /\ intr' = FALSE
      BY <2>1, <2>2, EmptyFacts DEF Waiting
    <3> QED
      BY <2>2, <3>1
  <2>4. pend' = {}
    BY <1>1, <2>1, <2>2, StageSources, NvicFacts DEF Waiting
  <2>5. Reading'
    BY <1>4, <2>1, <2>2, <2>3, <2>4 DEF Waiting, Reading, ConversionDoneSource
  <2> QED
    BY <1>1, <1>3, <2>1, <2>5 DEF Stages, Waiting, Running
<1>7. CASE PioIsrEnd
  <2>1. Reading /\ isr = "pioEnd" /\ isr' = "idle" /\ srcs' = {}
    BY <1>7, PendingStage DEF PioIsrEnd, Reading
  <2>2. UNCHANGED <<mut, state, dma, buf, intr, dmaEn>>
    BY <1>7 DEF PioIsrEnd, coreVars
  <2>3. pend' = IF intr' THEN {"dma"} ELSE {}
    <3>1. "pio" \notin pend' /\ ("dma" \in pend' <=> intr') /\ pend' \subseteq {"pio", "dma"}
      BY <1>1, <2>1, <2>2, NvicFacts DEF Reading
    <3> QED
      BY <3>1
  <2>4. Reading'
    BY <1>4, <2>1, <2>2, <2>3 DEF Reading
  <2> QED
    BY <1>1, <1>3, <2>1, <2>4 DEF Stages, Reading, Running
<1>8. CASE DmaIsr
  <2>1. Reading /\ intr /\ en /\ isr = "idle"
    BY <1>8, PendingStage DEF DmaIsr, Interrupted
  <2>2. isr' = "dmaFinish" /\ state' = "done"
    BY <1>8, <2>1 DEF DmaIsr, Raised, AssertFails, Reading
  <2>3. UNCHANGED <<mut, dma, intr, srcs, dmaEn>>
    BY <1>8 DEF DmaIsr, irqVars
  <2>4. pend' = {}
    BY <1>1, <2>1, <2>2, <2>3, NvicFacts DEF Reading
  <2>5. Finishing' /\ ~Running'
    BY <1>4, <2>1, <2>2, <2>3, <2>4 DEF Reading, Finishing, Running
  <2> QED
    BY <1>3, <2>5 DEF Stages
<1>9. CASE DmaIsrFinish
  <2>1. Finishing /\ isr = "dmaFinish" /\ isr' = "dmaEnd" /\ intr' = FALSE
    BY <1>9, PendingStage DEF DmaIsrFinish
  <2>2. dma' = FALSE /\ dmaEn' = FALSE /\ srcs' = {} /\ UNCHANGED <<mut, state>>
    BY <1>9, <2>1 DEF DmaIsrFinish, StopListening, coreVars, Finishing
  <2>3. pend' = {}
    BY <1>1, <2>1, <2>2, NvicFacts DEF Finishing
  <2>4. Finishing' /\ ~Running'
    BY <1>4, <2>1, <2>2, <2>3 DEF Finishing, Running
  <2> QED
    BY <1>3, <2>4 DEF Stages
<1>10. CASE DmaIsrEnd
  <2>1. Finishing /\ isr = "dmaEnd" /\ isr' = "idle" /\ mut' = None
    BY <1>10, PendingStage DEF DmaIsrEnd
  <2>2. UNCHANGED <<dma, intr, dmaEn, srcs, state>>
    BY <1>10 DEF DmaIsrEnd, irqVars
  <2>3. pend' = {}
    BY <1>1, <2>1, <2>2, NvicFacts DEF Finishing
  <2>4. \A c \in Cores : ~InPower(c)'
    BY <1>1, <2>1 DEF Finishing, NoneStarts, InPower
  <2>5. Free' /\ ~Running'
    BY <2>1, <2>2, <2>3, <2>4 DEF Finishing, Free, Quiet, Running
  <2> QED
    BY <1>3, <2>5 DEF Stages
<1> QED
  BY <1>5, <1>6, <1>7, <1>8, <1>9, <1>10, <1>11 DEF Isr

\* Nothing becomes pending while nothing is enabled or latched.
LEMMA QuietStep ==
  ASSUME AsMeant, Quiet, Nvic, ~dma', ~intr', srcs' = {}
  PROVE  Quiet'
<1>1. "pio" \notin pend' /\ "dma" \notin pend' /\ pend' \subseteq {"pio", "dma"}
  BY NvicFacts DEF Quiet
<1> QED
  BY <1>1 DEF Quiet

\* A step that changes nothing of the interrupts, and no part that a call has in
\* the stage, leaves the read in its stage.
LEMMA SameStage ==
  ASSUME AsMeant, ReadInv, Nvic,
         UNCHANGED <<irqVars, isr, state, mut, flag, phase, en>>,
         \A d \in Cores : /\ InPower(d)' <=> InPower(d)
                          /\ Starting(d)' <=> Starting(d)
                          /\ Stopping(d)' <=> Stopping(d)
  PROVE  Stages'
<1> USE DEF ReadInv
<1>1. UNCHANGED <<dma, buf, intr, dmaEn, srcs, isr, state, mut, flag, phase, en>>
  BY DEF irqVars
<1>2. (NoneStarts' <=> NoneStarts) /\ (Running' <=> Running)
  BY <1>1 DEF NoneStarts, Running
<1>3. (Running => en)'
  BY <1>1, <1>2 DEF Stages
<1>4. CASE Free \/ Powering \/ Entered
  <2>1. Quiet
    BY <1>4 DEF Free, Powering, Entered
  <2>2. ~dma' /\ ~intr' /\ srcs' = {}
    BY <1>1, <2>1 DEF Quiet
  <2>3. Quiet'
    BY <2>1, <2>2, QuietStep
  <2> QED
    BY <1>1, <1>2, <1>3, <1>4, <2>3 DEF Stages, Free, Powering, Entered
<1>5. CASE Waiting
  <2>1. \/ isr' = "idle" /\ pend' = {} /\ ~flag'
        \/ isr' = "idle" /\ pend' = {"pio"} /\ flag' /\ phase' # "clear"
        \/ isr' \in {"pioStart", "pioTrigger"} /\ pend' = {}
    <3>1. pend' \subseteq {"pio", "dma"} /\ "dma" \notin pend'
      BY <1>1, <1>5, NvicFacts DEF Waiting
    <3>2. isr = "idle" => ("pio" \in pend' <=> flag)
      BY <1>1, <1>5, NvicFacts DEF Waiting
    <3>3. isr \in {"pioStart", "pioTrigger"} => "pio" \notin pend'
      BY <1>1, <1>5, NvicFacts DEF Waiting
    <3> QED
      <4>1. CASE isr \in {"pioStart", "pioTrigger"}
        BY <1>1, <3>1, <3>3, <4>1
      <4>2. CASE isr = "idle" /\ ~flag
        BY <1>1, <3>1, <3>2, <4>2
      <4>3. CASE isr = "idle" /\ flag
        <5>1. phase # "clear"
          BY <1>5, <4>3 DEF Waiting
        <5>2. pend' = {"pio"}
          BY <3>1, <3>2, <4>3
        <5> QED
          BY <1>1, <4>3, <5>1, <5>2
      <4> QED
        BY <1>5, <4>1, <4>2, <4>3 DEF Waiting
  <2>2. Waiting'
    BY <1>1, <1>2, <1>5, <2>1 DEF Waiting
  <2> QED
    BY <1>3, <2>2 DEF Stages
<1>6. CASE Reading
  <2>1. pend' \subseteq {"pio", "dma"} /\ "pio" \notin pend' /\ ("dma" \in pend' <=> intr)
    BY <1>1, <1>6, StageSources, NvicFacts DEF Reading
  <2>2. pend' = IF intr' THEN {"dma"} ELSE {}
    BY <1>1, <2>1
  <2>3. Reading'
    BY <1>1, <1>2, <1>6, <2>2 DEF Reading
  <2> QED
    BY <1>3, <2>3 DEF Stages
<1>7. CASE Finishing
  <2>1. pend' = {}
    BY <1>1, <1>7, NvicFacts DEF Finishing
  <2>2. Finishing'
    BY <1>1, <1>2, <1>7, <2>1 DEF Finishing
  <2> QED
    BY <1>3, <2>2 DEF Stages
<1> QED
  BY <1>4, <1>5, <1>6, <1>7 DEF Stages

\* The other cores are idle during a call and stay so.
LEMMA OthersIdle ==
  ASSUME ReadInv, NEW c \in Cores, NEW l \in Labels, pc[c] # "idle", Goto(c, l),
         off' \subseteq off \cup {c}
  PROVE  /\ pc'[c] = l
         /\ op'[c] = IF l = "idle" THEN NoOp ELSE op[c]
         /\ arg'[c] = IF l = "idle" THEN DefaultGain ELSE arg[c]
         /\ \A d \in Cores \ {c} :
              /\ pc[d] = "idle" /\ pc'[d] = "idle"
              /\ op'[d] = op[d] /\ arg'[d] = arg[d]
              /\ StepsOf(d)'
              /\ ~InPower(d) /\ ~Starting(d) /\ ~Stopping(d)
              /\ ~InPower(d)' /\ ~Starting(d)' /\ ~Stopping(d)'
<1>1. CallTypeOK /\ Alone
  BY TypeParts DEF ReadInv
<1>2. /\ pc'[c] = l
      /\ op'[c] = IF l = "idle" THEN NoOp ELSE op[c]
      /\ arg'[c] = IF l = "idle" THEN DefaultGain ELSE arg[c]
      /\ \A d \in Cores \ {c} : pc'[d] = pc[d] /\ op'[d] = op[d] /\ arg'[d] = arg[d]
  BY <1>1, GotoFacts DEF CallTypeOK
<1>3. \A d \in Cores \ {c} : pc[d] = "idle" /\ pc'[d] = "idle"
  BY <1>1, <1>2, AloneFacts
<1>4. \A d \in Cores \ {c} : StepsOf(d)'
  BY <1>2, <1>3 DEF ReadInv, CallSteps, StepsOf, Coming, Starting
<1> QED
  BY <1>2, <1>3, <1>4 DEF InPower, Starting, Stopping

\* The application calls when all cores are idle.
LEMMA CallStages ==
  ASSUME AsMeant, ReadInv, NEW c \in Cores, Call(c)
  PROVE  CallSteps' /\ Stages'
<1> USE DEF ReadInv
<1>1. PICK o \in Ops, g \in Gains :
        /\ \A d \in Cores : pc[d] = "idle"
        /\ Asserted(o) /\ (o = "set_gain" => ~Running)
        /\ pc' = [pc EXCEPT ![c] = Entry(o)]
        /\ op' = [op EXCEPT ![c] = o] /\ arg' = [arg EXCEPT ![c] = g]
        /\ UNCHANGED <<smVars, irqVars, isr, state, mut, off, history>>
        /\ Nvic
  BY DEF Call, Runs, AsMeant
<1>2. o \in AllOps /\ o # "get_values_timeout"
  BY DEF AsMeant
<1>3. UNCHANGED <<en, flag, phase, tx>>
  BY <1>1 DEF smVars
<1>4. /\ pc \in [Cores -> Labels] /\ op \in [Cores -> AllOps \cup {NoOp}]
  BY DEF TypeOK
<1>5. /\ pc'[c] = Entry(o) /\ op'[c] = o
      /\ \A d \in Cores \ {c} : pc'[d] = "idle" /\ op'[d] = op[d]
  BY <1>1, <1>4
<1>6. StepsOf(c)'
  <2>1. c \notin off'
    BY <1>1 DEF CallSteps, StepsOf, Starting
  <2>2. Entry(o) \in {"drain", "copy", "enter", "begin"}
    BY DEF Entry
  <2>3. Entry(o) = "drain" => o = "set_gain"
    BY DEF Entry
  <2>4. Entry(o) = "copy" => state' = "done"
    BY <1>1 DEF Entry, Asserted, Powers
  <2>5. Entry(o) = "begin" => o \notin Powers
    BY DEF Entry
  <2>6. Coming(c)' => en' /\ ~Running'
    <3>1. Coming(c)' => o \notin Powers /\ o # "async_get_values"
      BY <1>5 DEF Coming, Entry, Powers
    <3>2. Running' <=> Running
      BY <1>1 DEF Running
    <3> QED
      BY <1>1, <1>3, <3>1, <3>2 DEF Asserted
  <2> QED
    BY <1>2, <1>5, <2>1, <2>2, <2>3, <2>4, <2>5, <2>6 DEF StepsOf, Starting
<1>7. \A d \in Cores \ {c} : StepsOf(d)'
  BY <1>1, <1>5 DEF CallSteps, StepsOf, Coming, Starting
<1>8. \A d \in Cores :
        /\ InPower(d)' <=> InPower(d)
        /\ Starting(d)' <=> Starting(d)
        /\ Stopping(d)' <=> Stopping(d)
  BY <1>1, <1>5 DEF InPower, Starting, Stopping, Entry
<1>9. Stages'
  BY <1>1, <1>3, <1>8, SameStage
<1> QED
  BY <1>6, <1>7, <1>9 DEF CallSteps

\* The statements of a call that leave the interrupts, the mutex and the reader's
\* flag as they are.
LEMMA PlainStages ==
  ASSUME AsMeant, ReadInv, NEW c \in Cores,
         \/ DrainTx(c) \/ PutGain(c) \/ Begin(c) \/ Restore(c) \/ Done(c)
         \/ Copy(c) \/ TimeReached(c) \/ Disable(c)
  PROVE  CallSteps' /\ Stages'
<1> USE DEF ReadInv
<1>1. StepsOf(c)
  BY DEF CallSteps
<1>2. UNCHANGED <<irqVars, isr, state, mut, flag, phase, en>> /\ Nvic
  BY DEF DrainTx, PutGain, Begin, Restore, Done, Copy, TimeReached, Disable, Drain,
     Put, smVars
<1>3. pc[c] # "idle" /\ off' \subseteq off \cup {c}
  BY DEF DrainTx, PutGain, Begin, Restore, Done, Copy, TimeReached, Disable, Runs
<1>4. PICK l \in Labels :
        /\ Goto(c, l) /\ StepsOf(c)'
        /\ InPower(c)' <=> InPower(c)
        /\ Starting(c)' <=> Starting(c)
        /\ Stopping(c)' <=> Stopping(c)
  <2> USE DEF Runs, InPower, Starting, Stopping, Labels
  <2>1. CASE DrainTx(c)
    <3>1. Goto(c, "put") /\ tx' = <<>> /\ pc[c] = "drain" /\ off' = off
      BY <2>1 DEF DrainTx, Drain
    <3>2. pc'[c] = "put" /\ op'[c] = op[c]
      BY <1>3, <3>1, OthersIdle
    <3> QED
      BY <1>1, <1>2, <3>1, <3>2 DEF StepsOf, Coming, Running
  <2>2. CASE PutGain(c)
    <3>1. Goto(c, "begin") /\ pc[c] = "put" /\ off' = off
      BY <2>2 DEF PutGain
    <3>2. pc'[c] = "begin" /\ op'[c] = op[c]
      BY <1>3, <3>1, OthersIdle
    <3> QED
      BY <1>1, <1>2, <3>1, <3>2 DEF StepsOf, Coming, Running, Powers
  <2>3. CASE Begin(c)
    <3>1. Goto(c, "enter") /\ pc[c] = "begin" /\ off' = off \cup {c}
      BY <1>1, <2>3 DEF Begin, AssertFails, StepsOf, Coming
    <3>2. pc'[c] = "enter" /\ op'[c] = op[c]
      BY <1>3, <3>1, OthersIdle
    <3> QED
      BY <1>1, <1>2, <3>1, <3>2 DEF StepsOf, Coming, Running
  <2>4. CASE Restore(c)
    <3>1. PICK l \in {"idle", "spin"} :
            Goto(c, l) /\ pc[c] = "restore" /\ off' = off \ {c}
      BY <2>4 DEF Restore
    <3>2. pc'[c] = l /\ op'[c] \in {op[c], NoOp}
      BY <1>3, <3>1, OthersIdle
    <3> QED
      BY <1>1, <1>2, <3>1, <3>2 DEF StepsOf, Coming, Powers, NoOp
  <2>5. CASE Done(c) \/ Copy(c)
    <3>1. PICK l \in {"idle", "copy"} :
            /\ Goto(c, l) /\ pc[c] \in {"spin", "copy"} /\ off' = off
            /\ l = "copy" => state = "done"
      BY <1>1, <2>5 DEF Done, Copy, AssertFails, StepsOf
    <3>2. pc'[c] = l /\ op'[c] \in {op[c], NoOp}
      BY <1>3, <3>1, OthersIdle
    <3> QED
      BY <1>1, <1>2, <3>1, <3>2 DEF StepsOf, Coming, NoOp
  <2>6. CASE TimeReached(c)
    BY <1>1, <2>6 DEF TimeReached, StepsOf
  <2>7. CASE Disable(c)
    <3>1. Goto(c, "finish") /\ pc[c] = "disable" /\ off' = off \cup {c}
      BY <2>7 DEF Disable
    <3>2. pc'[c] = "finish" /\ op'[c] = op[c]
      BY <1>3, <3>1, OthersIdle
    <3> QED
      BY <1>1, <1>2, <3>1, <3>2 DEF StepsOf, Coming
  <2> QED
    BY <2>1, <2>2, <2>3, <2>4, <2>5, <2>6, <2>7
<1>5. \A d \in Cores \ {c} :
        /\ StepsOf(d)'
        /\ ~InPower(d) /\ ~Starting(d) /\ ~Stopping(d)
        /\ ~InPower(d)' /\ ~Starting(d)' /\ ~Stopping(d)'
  BY <1>3, <1>4, OthersIdle
<1>6. \A d \in Cores :
        /\ StepsOf(d)'
        /\ InPower(d)' <=> InPower(d)
        /\ Starting(d)' <=> Starting(d)
        /\ Stopping(d)' <=> Stopping(d)
  BY <1>4, <1>5
<1>7. Stages'
  BY <1>2, <1>6, SameStage
<1> QED
  BY <1>6, <1>7 DEF CallSteps

\* The mutex is taken when everything is quiet, for a read or for a power
\* function.
LEMMA EnterStages ==
  ASSUME AsMeant, ReadInv, NEW c \in Cores, Enter(c)
  PROVE  CallSteps' /\ Stages'
<1> USE DEF ReadInv
<1>1. StepsOf(c)
  BY DEF CallSteps
<1>2. /\ pc[c] = "enter" /\ mut = None /\ mut' = c /\ Nvic
      /\ UNCHANGED <<dma, intr, srcs, isr, off, en, tx>>
  BY DEF Enter, Runs, smVars, irqVars
<1>3. Free
  BY <1>2 DEF Stages, Powering, Entered, Waiting, Reading, Finishing
<1>4. Quiet'
  BY <1>2, <1>3, QuietStep DEF Free, Quiet
<1>5. mut' # None /\ isr' = "idle"
  BY <1>2, <1>3 DEF Free
<1>6. CASE op[c] \in Powers
  <2>1. PICK l \in {"powerUp", "disable"} :
          Goto(c, l) /\ state' = state /\ op[c] = IF l = "powerUp" THEN "power_up" ELSE "power_down"
    BY <1>6 DEF Enter, Powers
  <2>2. /\ pc'[c] = l /\ op'[c] = op[c] /\ \A d \in Cores \ {c} : StepsOf(d)'
    BY <1>2, <2>1, OthersIdle DEF Labels
  <2>3. StepsOf(c)'
    BY <1>1, <1>2, <1>6, <2>1, <2>2 DEF StepsOf, Coming, Starting
  <2>4. InPower(c)' /\ ~Running'
    BY <1>3, <2>1, <2>2 DEF InPower, Free, Running
  <2>5. Powering'
    BY <1>4, <1>5, <2>4 DEF Powering
  <2> QED
    BY <2>2, <2>3, <2>4, <2>5 DEF CallSteps, Stages
<1>7. CASE op[c] \notin Powers
  <2>1. Goto(c, "check") /\ state' = "waiting"
    BY <1>7 DEF Enter
  <2>2. /\ pc'[c] = "check" /\ op'[c] = op[c] /\ \A d \in Cores \ {c} : StepsOf(d)'
    BY <1>2, <2>1, OthersIdle DEF Labels
  <2>3. StepsOf(c)' /\ Starting(c)' /\ en'
    BY <1>1, <1>2, <1>7, <2>1, <2>2 DEF StepsOf, Coming, Starting
  <2>4. Entered'
    BY <1>4, <1>5, <2>1, <2>3 DEF Entered
  <2> QED
    BY <2>2, <2>3, <2>4 DEF CallSteps, Stages
<1> QED
  BY <1>6, <1>7

\* A read that finds the flag set starts at once; one that does not enables the
\* source and waits, and nothing is pending yet.
LEMMA StartStages ==
  ASSUME AsMeant, ReadInv, NEW c \in Cores, Check(c) \/ Start(c) \/ StartTrigger(c)
  PROVE  CallSteps' /\ Stages'
<1> USE DEF ReadInv
<1>1. StepsOf(c)
  BY DEF CallSteps
<1>2. /\ pc[c] \in {"check", "start", "trigger"} /\ Nvic
      /\ UNCHANGED <<intr, isr, mut, off, en, tx, flag>>
  BY DEF Check, Start, StartTrigger, Runs, ClearFifo, Trigger, ClearRx, smVars, irqVars
<1>3. Entered /\ en
  BY <1>2, StageOfCall DEF Starting, Stages, Entered, Running
<1>4. PICK l \in {"start", "trigger", "restore"} :
        Goto(c, l) /\ (l # "restore" => state' = state)
  BY DEF Check, Start, StartTrigger, ClearFifo
<1>5. /\ pc'[c] = l /\ op'[c] = op[c]
      /\ \A d \in Cores \ {c} :
           StepsOf(d)' /\ ~InPower(d)' /\ ~Starting(d)' /\ ~Stopping(d)'
  BY <1>2, <1>4, OthersIdle DEF Labels
<1>6. StepsOf(c)'
  <2>1. l # "restore" => state' = "waiting"
    BY <1>3, <1>4 DEF Entered
  <2> QED
    BY <1>1, <1>2, <1>4, <1>5, <2>1 DEF StepsOf, Coming, Starting
<1>7. CallSteps'
  BY <1>5, <1>6 DEF CallSteps
<1>8. l = "restore" => NoneStarts'
  BY <1>5 DEF NoneStarts, InPower, Starting, Stopping
<1>9. CASE Check(c) /\ flag
  <2>1. Goto(c, "start") /\ UNCHANGED <<dma, srcs, state>>
    BY <1>9 DEF Check
  <2>2. pc'[c] = "start"
    BY <1>2, <2>1, OthersIdle DEF Labels
  <2>3. Quiet'
    BY <1>2, <1>3, <2>1, QuietStep DEF Entered, Quiet
  <2>4. Entered'
    BY <1>2, <1>3, <2>1, <2>2, <2>3 DEF Entered, Starting
  <2> QED
    BY <1>2, <1>3, <1>7, <2>4 DEF Stages
<1>10. CASE Check(c) /\ ~flag
  <2>1. Goto(c, "restore") /\ UNCHANGED <<dma, state>> /\ srcs' = srcs \cup {StartSource}
    BY <1>10 DEF Check
  <2>2. pc'[c] = "restore"
    BY <1>2, <2>1, OthersIdle DEF Labels
  <2>3. srcs' = {ConversionDoneSource}
    BY <1>3, <2>1, Wiring DEF Entered, Quiet
  <2>4. pend' = {}
    BY <1>2, <1>3, <1>10, <2>3, NvicFacts DEF Entered, Quiet
  <2>5. NoneStarts'
    BY <1>5, <1>8, <2>2
  <2>6. Waiting'
    BY <1>2, <1>3, <1>10, <2>1, <2>3, <2>4, <2>5 DEF Entered, Quiet, Waiting
  <2> QED
    BY <1>2, <1>3, <1>7, <2>6 DEF Stages
<1>12. CASE Start(c)
  <2>1. Goto(c, "trigger") /\ UNCHANGED <<dma, srcs, state>>
    BY <1>12 DEF Start, ClearFifo, irqVars
  <2>2. pc'[c] = "trigger"
    BY <1>2, <2>1, OthersIdle DEF Labels
  <2>3. Quiet'
    BY <1>2, <1>3, <2>1, QuietStep DEF Entered, Quiet
  <2>4. Entered'
    BY <1>2, <1>3, <2>1, <2>2, <2>3 DEF Entered, Starting
  <2> QED
    BY <1>2, <1>3, <1>7, <2>4 DEF Stages
<1>11. CASE StartTrigger(c)
  <2>1. /\ Goto(c, "restore") /\ srcs' = srcs /\ dma' = TRUE /\ buf' = <<>>
        /\ dmaEn' = TRUE /\ state' = "reading"
    BY <1>11 DEF StartTrigger, Trigger
  <2>2. pc'[c] = "restore"
    BY <1>2, <2>1, OthersIdle DEF Labels
  <2>3. dma' = (Len(buf') < Bits) /\ intr' = ~dma' /\ ~intr'
    <3>1. Len(buf') < Bits /\ intr' = FALSE
      BY <1>2, <1>3, <2>1, EmptyFacts DEF Entered, Quiet, TypeOK
    <3> QED
      BY <2>1, <3>1
  <2>4. pend' = {}
    BY <1>2, <1>3, <2>1, <2>3, NvicFacts DEF Entered, Quiet
  <2>5. NoneStarts'
    BY <1>5, <1>8, <2>2
  <2>6. Reading'
    BY <1>2, <1>3, <2>1, <2>3, <2>4, <2>5 DEF Entered, Quiet, Reading
  <2> QED
    BY <1>2, <1>3, <1>7, <2>6 DEF Stages
<1> QED
  BY <1>9, <1>10, <1>11, <1>12

\* The power functions run in quiet, with the mutex until they give it back.
LEMMA PowerStages ==
  ASSUME AsMeant, ReadInv, NEW c \in Cores,
         Finish(c) \/ Unlock(c) \/ PowerDown(c) \/ PowerUp(c) \/ Exit(c)
  PROVE  CallSteps' /\ Stages'
<1> USE DEF ReadInv
<1>1. StepsOf(c)
  BY DEF CallSteps
<1>2. /\ pc[c] \in {"finish", "unlock", "stop", "powerUp", "exit"} /\ Nvic
      /\ UNCHANGED <<intr, isr, state>> /\ off' \subseteq off \cup {c}
      /\ (dma' => dma) /\ srcs' \subseteq srcs
  BY DEF Finish, Unlock, PowerDown, PowerUp, Exit, Runs, StopListening, irqVars
<1>3. IF Stopping(c) THEN Free ELSE Powering
  BY <1>1, <1>2, StageOfCall DEF StepsOf, Stopping, InPower, Powers
<1>4. Quiet /\ ~Running /\ isr = "idle"
  BY <1>3 DEF Free, Powering
<1>5. Quiet' /\ ~Running' /\ isr' = "idle"
  <2>1. ~dma' /\ ~intr' /\ srcs' = {}
    BY <1>2, <1>4 DEF Quiet
  <2> QED
    BY <1>2, <1>4, <2>1, QuietStep DEF Running
<1>6. PICK l \in {"unlock", "stop", "exit", "idle"} :
        /\ Goto(c, l)
        /\ pc[c] = "finish" => l = "unlock"
        /\ pc[c] = "unlock" => l = "stop"
        /\ pc[c] \in {"stop", "powerUp"} => l = "exit"
        /\ pc[c] = "exit" => l = "idle"
  BY <1>1 DEF Finish, Unlock, PowerDown, PowerUp, Exit, AfterUnlock, StepsOf, Runs
<1>7. /\ pc'[c] = l /\ op'[c] = IF l = "idle" THEN NoOp ELSE op[c]
      /\ \A d \in Cores \ {c} : StepsOf(d)' /\ ~InPower(d)'
  BY <1>2, <1>6, OthersIdle DEF Labels
<1>8. StepsOf(c)'
  <2>1. c \in off' => pc'[c] = "unlock"
    <3>1. CASE Finish(c)
      BY <1>6, <1>7, <3>1 DEF Finish, Runs
    <3>2. CASE Unlock(c)
      BY <3>2 DEF Unlock
    <3>3. CASE PowerDown(c) \/ PowerUp(c) \/ Exit(c)
      BY <1>1, <3>3 DEF PowerDown, PowerUp, Exit, StepsOf, Runs, Starting
    <3> QED
      BY <3>1, <3>2, <3>3
  <2>2. op[c] \in Powers
    BY <1>1, <1>2 DEF StepsOf, Powers
  <2>3. l \in {"unlock", "stop"} => op[c] = "power_down"
    BY <1>1, <1>2, <1>6 DEF StepsOf
  <2> QED
    BY <1>7, <2>1, <2>2, <2>3 DEF StepsOf, Coming, Starting, Powers, NoOp
<1>9. CallSteps'
  BY <1>7, <1>8 DEF CallSteps
<1>10. CASE Finish(c) \/ PowerUp(c)
  <2>1. ~Stopping(c)
    BY <1>1, <1>10 DEF Finish, PowerUp, Runs, Stopping
  <2>2. mut' = mut /\ mut # None
    BY <1>3, <1>10, <2>1 DEF Finish, PowerUp, Powering
  <2>3. InPower(c)'
    <3>1. CASE Finish(c)
      BY <1>6, <1>7, <3>1 DEF InPower, Finish, Runs
    <3>2. CASE PowerUp(c)
      BY <1>1, <1>6, <1>7, <3>2 DEF InPower, PowerUp, Runs, StepsOf
    <3> QED
      BY <1>10, <3>1, <3>2
  <2>4. Powering'
    BY <1>5, <2>2, <2>3 DEF Powering
  <2> QED
    BY <1>5, <1>9, <2>4 DEF Stages
<1>11. CASE Unlock(c) \/ PowerDown(c) \/ Exit(c)
  <2>1. mut' = None
    <3>1. CASE Unlock(c) \/ Exit(c)
      BY <3>1 DEF Unlock, Exit
    <3>2. CASE PowerDown(c)
      BY <1>3, <3>2 DEF PowerDown, Runs, Stopping, Free
    <3> QED
      BY <1>11, <3>1, <3>2
  <2>2. ~InPower(c)'
    <3>1. CASE Unlock(c)
      BY <1>6, <1>7, <3>1 DEF InPower, Unlock, Runs
    <3>2. CASE PowerDown(c)
      BY <1>1, <1>6, <1>7, <3>2 DEF InPower, PowerDown, Runs, StepsOf
    <3>3. CASE Exit(c)
      BY <1>6, <1>7, <3>3 DEF InPower, Exit, Runs
    <3> QED
      BY <1>11, <3>1, <3>2, <3>3
  <2>3. Free'
    BY <1>5, <1>7, <2>1, <2>2 DEF Free
  <2> QED
    BY <1>5, <1>9, <2>3 DEF Stages
<1> QED
  BY <1>10, <1>11

LEMMA ReadStep ==
  ASSUME AsMeant, ReadInv, [Next]_vars
  PROVE  ReadInv'
<1>1. TypeOK' /\ Alone'
  BY ReadInvTypes, TypeStep DEF AsMeant, TypeInv
<1>2. CallSteps' /\ Stages'
  <2>1. CASE UNCHANGED vars
    BY <2>1 DEF ReadInv, CallSteps, StepsOf, Coming, Starting, InPower, Stopping,
       Stages, Free, Powering, Entered, Waiting, Reading, Finishing, Quiet,
       NoneStarts, Running, vars, smVars, irqVars, coreVars, callVars
  <2>2. ASSUME NEW c \in Cores, Body(c) PROVE CallSteps' /\ Stages'
    BY <2>2, PlainStages, EnterStages, StartStages, PowerStages DEF Body
  <2> QED
    BY <2>1, <2>2, HardwareStages, TransferStages, HandlerStages, CallStages DEF Next
<1> QED
  BY <1>1, <1>2 DEF ReadInv

\* The inductive invariant of a read: the handlers, the sources, the latches and
\* the mutex are in one of six stages, and each statement of a call is reached
\* in its own stage only.
THEOREM ReadInvariant ==
  ASSUME AsMeant
  PROVE  Spec => []ReadInv
<1>1. ReadInv /\ [Next]_vars => ReadInv'
  BY ReadStep
<1> QED
  BY <1>1, InitRead, PTL DEF Spec

\* No handler finds a read in another state than the one it expects, and no
\* assertion behind the head of a call fails, for any number of cores that take
\* turns: hx711_multi.c:361-403, 737, 776.
THEOREM HandlersFindTheirRead ==
  ASSUME AsMeant
  PROVE  Spec => []NoFault
<1>1. ReadInv => NoFault
  BY StageSources DEF ReadInv, NoFault, CallSteps, StepsOf
<1> QED
  BY <1>1, ReadInvariant, PTL

\* Whoever gets the mutex finds no transfer and no enabled, latched or pending
\* interrupt of an earlier read: hx711_multi.c:340-357, 391-401.
THEOREM MutexMeansQuiet ==
  ASSUME AsMeant
  PROVE  Spec => []FreeIsQuiet
<1>1. ReadInv => FreeIsQuiet
  BY DEF ReadInv, FreeIsQuiet, Stages, Free, Powering, Entered, Waiting, Reading,
     Finishing, Quiet
<1> QED
  BY <1>1, ReadInvariant, PTL

-----------------------------------------------------------------------------
(* The words of a read, and the gain they have: GainInv. *)

LEMMA InitGain == Init => GainInv
<1> SUFFICES ASSUME Init PROVE GainInv
  OBVIOUS
<1>1. ReadInv
  BY InitRead
<1>2. CountedOut /\ ClockRests /\ CleanWords /\ NotOnlyNull
  BY DEF Init, SmInit, CountedOut, ClockRests, CleanWords, NotOnlyNull, Triggering,
     Transferring, Complete
<1>3. SetGainReads /\ AskedSettled /\ AskedApplied /\ DueApplied
  BY DEF Init, SetGainReads, SetGainRead, AskedSettled, AskedApplied, DueApplied, NoOp,
     Triggering
<1> QED
  BY <1>1, <1>2, <1>3 DEF GainInv

\* A push into an empty FIFO, and into one that has words.
LEMMA PushFacts ==
  ASSUME SmTypeOK, NEW w \in Word, PushNoblock(w)
  PROVE  /\ rx' \in Seq(Word) /\ Len(rx) \in Nat /\ Len(rx') \in Nat
         /\ Len(rx') >= Len(rx)
         /\ rx = <<>> => rx' = <<w>> /\ Len(rx') = 1 /\ rx'[1] = w /\ rx' # <<>>
         /\ rx # <<>> => rx' # <<>> /\ rx'[1] = rx[1] /\ Len(rx) >= 1
         /\ \A i \in DOMAIN rx' : \/ i = Len(rx) + 1 /\ rx'[i] = w
                                  \/ i \in DOMAIN rx /\ rx'[i] = rx[i]
         /\ \A i \in DOMAIN rx : i \in DOMAIN rx' /\ rx'[i] = rx[i]
         /\ Len(rx) < Depth =>
              /\ Len(rx') = Len(rx) + 1 /\ rx'[Len(rx) + 1] = w
              /\ Len(rx) + 1 \in DOMAIN rx'
<1>1. rx \in Seq(Word) /\ Len(rx) \in Nat /\ rx' \in Seq(Word)
  BY PushType DEF SmTypeOK
<1>2. CASE Len(rx) < Depth
  <2>1. rx' = Append(rx, w)
    BY <1>2 DEF PushNoblock
  <2>2. /\ Len(rx') = Len(rx) + 1 /\ DOMAIN rx' = 1..(Len(rx) + 1)
        /\ DOMAIN rx = 1..Len(rx)
        /\ \A i \in 1..Len(rx) : rx'[i] = rx[i]
        /\ rx'[Len(rx) + 1] = w
    BY <1>1, <2>1, AppendFacts
  <2>3. \A i \in DOMAIN rx' : \/ i = Len(rx) + 1 /\ rx'[i] = w
                              \/ i \in DOMAIN rx /\ rx'[i] = rx[i]
    <3>1. SUFFICES ASSUME NEW i \in DOMAIN rx'
                   PROVE  \/ i = Len(rx) + 1 /\ rx'[i] = w
                          \/ i \in DOMAIN rx /\ rx'[i] = rx[i]
      OBVIOUS
    <3>2. i = Len(rx) + 1 \/ i \in 1..Len(rx)
      BY <1>1, <2>2, <3>1
    <3> QED
      BY <2>2, <3>2
  <2>7. Len(rx) + 1 \in DOMAIN rx'
    BY <1>1, <2>2
  <2>6. \A i \in DOMAIN rx : i \in DOMAIN rx' /\ rx'[i] = rx[i]
    BY <1>1, <2>2
  <2>4. rx = <<>> => rx' = <<w>> /\ Len(rx') = 1 /\ rx'[1] = w /\ rx' # <<>>
    BY <2>1
  <2>5. rx # <<>> => rx' # <<>> /\ rx'[1] = rx[1] /\ Len(rx) >= 1
    BY <1>1, <2>2, EmptyFacts
  <2>8. Len(rx') \in Nat /\ Len(rx') >= Len(rx)
    BY <1>1, <2>2
  <2>9. /\ Len(rx') = Len(rx) + 1 /\ rx'[Len(rx) + 1] = w
        /\ Len(rx) + 1 \in DOMAIN rx'
    BY <2>2, <2>7
  <2> QED
    BY <1>1, <2>3, <2>4, <2>5, <2>6, <2>8, <2>9
<1>3. CASE ~(Len(rx) < Depth)
  <2>1. rx' = rx /\ Len(rx) >= 1 /\ rx # <<>>
    <3>1. rx' = rx /\ Len(rx) >= 1
      BY <1>1, <1>3, MultiSmAssumption DEF PushNoblock
    <3> QED
      BY <3>1
  <2> QED
    BY <1>1, <1>3, <2>1
<1> QED
  BY <1>2, <1>3

\* The two words the reader pushes: the null word, and the next bit of a frame.
BitWord == [bit   |-> IF chip.frame = "clocked" THEN count + 1 ELSE TornBit,
            frame |-> frame, gain |-> chip.gain]

LEMMA BitWordFacts ==
  ASSUME SmTypeOK
  PROVE  /\ NullWord \in Word /\ NullWord.bit = 0
         /\ BitWord \in Word /\ BitWord.bit # 0
         /\ BitWord.bit \in {count + 1, TornBit} /\ BitWord.frame = frame
         /\ BitWord.gain = chip.gain
         /\ IsBit(BitWord) => chip.frame = "clocked"
         /\ ~IsBit(NullWord)
  BY WordType DEF SmTypeOK, NullWord, BitWord, TornBit, IsBit

\* What a step of the reader pushes, and where it is then.
LEMMA ReaderPushes ==
  ASSUME SmTypeOK, Reader
  PROVE  /\ \/ rx' = rx /\ phase # "bits" /\ phase # "null" /\ count' = count
            \/ /\ phase = "null" /\ phase' = "wait" /\ count' = count
               /\ PushNoblock(NullWord) /\ chip' = chip
            \/ /\ phase = "bits" /\ PushNoblock(BitWord)
               /\ count' = (IF count + 1 = Bits THEN 0 ELSE count + 1)
               /\ phase' = (IF count + 1 = Bits THEN "done" ELSE "bits")
               /\ UNCHANGED <<frame, chip, x, tx>>
         /\ phase = "wait" => phase' = "clear"
         /\ phase = "clear" => phase' = "edge"
         /\ phase = "edge" => phase' = "bits"
<1> USE DEF At
<1>1. CASE ReaderBit
  <2>1. count' = IF count + 1 = Bits THEN 0 ELSE count + 1
    BY <1>1, CountFacts DEF ReaderBit, SmTypeOK
  <2>2. count + 1 # 0
    BY DEF SmTypeOK
  <2> QED
    BY <1>1, <2>1, <2>2 DEF ReaderBit, BitWord
<1>2. CASE ReaderNull
  BY <1>2 DEF ReaderNull
<1>3. CASE ~ReaderBit /\ ~ReaderNull
  BY <1>3 DEF Reader, ReaderBoot, ReaderBegin, ReaderClear, ReaderEdge, ReaderDone,
     ReaderPull, ReaderGain
<1> QED
  BY <1>1, <1>2, <1>3

\* Every other step leaves the reader where it is, or at its first instruction.
LEMMA OtherPlaces ==
  ASSUME [Next]_vars, ~ReaderStep
  PROVE  /\ UNCHANGED <<phase, count>> \/ count' = 0
         /\ UNCHANGED <<phase, held>> \/ phase' = "boot"
  BY DEF Next, vars, smVars, ChipConverts, Convert, ChipSleeps, Sleep, DmaTransfer, Take,
     Isr, PioIsr, PioIsrClear, PioIsrTrigger, PioIsrEnd, DmaIsr, DmaIsrFinish, DmaIsrEnd,
     ClearFifo, Trigger, ClearRx, Call, Body, DrainTx, Drain, PutGain, Put, Begin, Enter,
     Check, Start, StartTrigger, Restore, Done, Copy, TimeReached, Disable, Finish,
     Unlock, PowerDown, StopSms, PowerUp, StartSms, Exit

\* The count is zero outside the bit loop.
LEMMA CountedStep ==
  ASSUME TypeOK, CountedOut, [Next]_vars
  PROVE  CountedOut'
<1> USE DEF CountedOut
<1>1. CASE ReaderStep
  <2>1. SmTypeOK /\ Reader
    BY <1>1 DEF ReaderStep, TypeOK
  <2> QED
    BY <2>1, ReaderPushes
<1>2. CASE ~ReaderStep
  <2>1. UNCHANGED <<phase, count>> \/ count' = 0
    BY <1>2, OtherPlaces
  <2> QED
    BY <2>1
<1> QED
  BY <1>1, <1>2

\* The reader's clock pin rests only before a frame: its first rising edge ends that.
LEMMA ClockStep ==
  ASSUME ClockRests, [Next]_vars
  PROVE  ClockRests'
<1> USE DEF ClockRests
<1>1. CASE ReaderStep
  <2>1. Reader
    BY <1>1 DEF ReaderStep
  <2> QED
    BY <2>1 DEF Reader, ReaderBoot, ReaderNull, ReaderBegin, ReaderClear, ReaderEdge,
       ReaderBit, ReaderDone, ReaderPull, ReaderGain, At
<1>2. CASE ~ReaderStep
  <2>1. UNCHANGED <<phase, held>> \/ phase' = "boot"
    BY <1>2, OtherPlaces
  <2> QED
    BY <2>1
<1> QED
  BY <1>1, <1>2

\* The next word of a frame, pushed behind those of the frame that are queued.
LEMMA QueuedReader ==
  ASSUME SmTypeOK, Reader, phase = "bits", Len(rx) < Depth, NEW n \in Nat,
         n + Len(rx) = count, \A i \in DOMAIN rx : IsWord(rx[i], n + i, frame)
  PROVE  /\ rx' # <<>> /\ Len(rx') = Len(rx) + 1 /\ frame' = frame
         /\ \A i \in DOMAIN rx' : IsWord(rx'[i], n + i, frame)
         /\ count + 1 # Bits => phase' = "bits" /\ count' = count + 1
<1>1. /\ PushNoblock(BitWord) /\ frame' = frame
      /\ count + 1 # Bits => phase' = "bits" /\ count' = count + 1
  BY ReaderPushes
<1>2. BitWord \in Word /\ IsWord(BitWord, count + 1, frame)
  BY BitWordFacts DEF IsWord
<1>3. /\ Len(rx') = Len(rx) + 1 /\ Len(rx) \in Nat /\ rx' \in Seq(Word)
      /\ \A i \in DOMAIN rx' : \/ i = Len(rx) + 1 /\ rx'[i] = BitWord
                               \/ i \in DOMAIN rx /\ rx'[i] = rx[i]
  BY <1>1, <1>2, PushFacts
<1>4. \A i \in DOMAIN rx' : IsWord(rx'[i], n + i, frame)
  <2>1. SUFFICES ASSUME NEW i \in DOMAIN rx' PROVE IsWord(rx'[i], n + i, frame)
    OBVIOUS
  <2>2. CASE i = Len(rx) + 1 /\ rx'[i] = BitWord
    <3>1. n + i = count + 1
      BY <1>3, <2>2
    <3> QED
      BY <1>2, <2>2, <3>1
  <2>3. CASE i \in DOMAIN rx /\ rx'[i] = rx[i]
    BY <2>3
  <2> QED
    BY <1>3, <2>2, <2>3
<1>5. rx' # <<>>
  BY <1>3, EmptyFacts
<1> QED
  BY <1>1, <1>3, <1>4, <1>5

\* A step of the reader takes a clean read from before its frame into the bits,
\* and from the last bit to the word that is left.
LEMMA ReaderWords ==
  ASSUME AsMeant, ReadInv, CountedOut, CleanWords, NotOnlyNull, ReaderStep
  PROVE  CleanWords' /\ NotOnlyNull'
<1>1. SmTypeOK /\ Reader /\ IrqTypeOK
  BY TypeParts DEF ReadInv, ReaderStep
<1>2. /\ UNCHANGED <<dma, buf, state, clean, isr, pc>>
      /\ phase = "bits" /\ dma => rx = <<>>
      /\ phase = "bits" /\ Triggering => Len(rx) < Depth
  BY DEF ReaderStep, irqVars, coreVars, callVars, history
<1>3. /\ Transferring' <=> Transferring
      /\ Complete' <=> Complete
      /\ Triggering' <=> Triggering
  BY <1>2 DEF Transferring, Complete, Triggering
<1>4. /\ rx \in Seq(Word) /\ Len(rx) \in Nat /\ buf \in Seq(Word) /\ Len(buf) \in Nat
      /\ count \in 0..(Bits - 1) /\ frame \in 0..1
      /\ rx = <<>> <=> Len(rx) = 0
      /\ buf = <<>> <=> Len(buf) = 0
      /\ Bits \in Nat /\ Depth \in Nat /\ 0 < Depth /\ Depth < Bits
  BY <1>1, EmptyFacts DEF SmTypeOK, IrqTypeOK, AsMeant
<1>5. /\ BitWord.bit # 0 /\ BitWord \in Word /\ NullWord \in Word
  BY <1>1, BitWordFacts
<1>8. BeforeFirstWord /\ phase # "bits" => rx' = rx /\ BeforeFirstWord'
  BY <1>1, ReaderPushes DEF BeforeFirstWord, CountedOut
<1>9. BeforeFirstWord => phase # "null"
  BY DEF BeforeFirstWord
<1>6. CleanWords'
  <2>1. ASSUME clean, Complete PROVE (Len(buf) = Bits /\ \E f \in 0..1 : InOrder(f))'
    BY <1>2, <2>1 DEF CleanWords, InOrder
  <2>2. ASSUME clean, Triggering PROVE Cleared'
    <3>1. Cleared
      BY <2>2 DEF CleanWords
    <3>2. CASE phase # "bits"
      BY <1>8, <3>1, <3>2 DEF Cleared, Queued
    <3>3. CASE phase = "bits"
      <4>1. 0 + Len(rx) = count /\ \A i \in DOMAIN rx : IsWord(rx[i], 0 + i, frame)
        BY <1>4, <3>1, <3>3, EmptyFacts DEF Cleared, BeforeFirstWord, Queued
      <4>2. /\ Len(rx') = Len(rx) + 1 /\ frame' = frame
            /\ \A i \in DOMAIN rx' : IsWord(rx'[i], 0 + i, frame)
            /\ count + 1 # Bits => phase' = "bits" /\ count' = count + 1
        BY <1>1, <1>2, <2>2, <3>3, <4>1, QueuedReader
      <4>3. count + 1 # Bits
        BY <1>2, <1>4, <2>2, <3>3, <4>1
      <4>4. count' > 0 /\ 0 + Len(rx') = count'
        BY <1>4, <4>1, <4>2, <4>3
      <4>5. Queued(0)'
        BY <4>2, <4>3, <4>4 DEF Queued, IsWord, TornBit
      <4> QED
        BY <4>5 DEF Cleared
    <3> QED
      BY <3>2, <3>3
  <2>3. ASSUME clean, Transferring PROVE (NotBegun \/ InBits \/ LastLeft)'
    <3>1. dma /\ (NotBegun \/ InBits \/ LastLeft)
      BY <2>3 DEF CleanWords, Transferring
    <3>2. CASE NotBegun /\ phase # "bits"
      BY <1>2, <1>8, <3>2 DEF NotBegun
    <3>3. CASE (NotBegun \/ InBits) /\ phase = "bits"
      <4>1. /\ rx = <<>> /\ Len(buf) + Len(rx) = count /\ InOrder(frame)
            /\ \A i \in DOMAIN rx : IsWord(rx[i], Len(buf) + i, frame)
        BY <1>2, <1>4, <3>1, <3>3, EmptyFacts DEF NotBegun, BeforeFirstWord, InBits,
           Queued, InOrder
      <4>2. /\ Len(rx') = Len(rx) + 1 /\ frame' = frame /\ rx' # <<>>
            /\ \A i \in DOMAIN rx' : IsWord(rx'[i], Len(buf) + i, frame)
            /\ count + 1 # Bits => phase' = "bits" /\ count' = count + 1
        BY <1>1, <1>4, <3>3, <4>1, QueuedReader
      <4>3. InOrder(frame)'
        BY <1>2, <4>1, <4>2 DEF InOrder, IsWord, TornBit
      <4>4. CASE count + 1 # Bits
        <5>1. count' > 0 /\ Len(buf') + Len(rx') = count' /\ phase' = "bits"
          BY <1>2, <1>4, <4>1, <4>2, <4>4
        <5>2. Queued(Len(buf))'
          BY <1>2, <4>2, <5>1 DEF Queued, IsWord, TornBit
        <5> QED
          BY <4>3, <5>2 DEF InBits
      <4>5. CASE count + 1 = Bits
        <5>1. Len(rx') = 1 /\ 1 \in DOMAIN rx' /\ Len(buf) + 1 = Bits
          <6>1. rx' \in Seq(Word)
            BY <1>1, ReaderType DEF SmTypeOK
          <6> QED
            BY <1>4, <4>1, <4>2, <4>5, <6>1
        <5>2. IsWord(rx'[1], Bits, frame)
          BY <4>2, <5>1
        <5>3. rx'[1].frame = frame
          BY <5>2 DEF IsWord
        <5>4. Len(buf') = Bits - 1 /\ InOrder(rx[1].frame)'
          BY <1>2, <1>4, <4>2, <4>3, <5>1, <5>3 DEF InOrder
        <5> QED
          BY <4>2, <5>2, <5>3, <5>4 DEF LastLeft, IsWord, TornBit
      <4> QED
        BY <4>4, <4>5
    <3>4. CASE LastLeft
      <4>1. phase # "bits"
        BY <1>2, <3>1, <3>4 DEF LastLeft
      <4>2. rx' # <<>> /\ rx'[1] = rx[1]
        <5>1. CASE rx' = rx
          BY <3>4, <5>1 DEF LastLeft
        <5>2. CASE PushNoblock(NullWord)
          BY <1>1, <1>5, <3>4, <5>2, PushFacts DEF LastLeft
        <5> QED
          BY <1>1, <4>1, <5>1, <5>2, ReaderPushes
      <4> QED
        BY <1>2, <3>4, <4>2 DEF LastLeft, InOrder, IsWord, TornBit
    <3> QED
      BY <3>1, <3>2, <3>3, <3>4 DEF InBits, Queued
  <2> QED
    BY <1>2, <1>3, <2>1, <2>2, <2>3 DEF CleanWords
<1>10. \/ rx' = rx
       \/ phase = "null" /\ phase' = "wait" /\ PushNoblock(NullWord)
       \/ phase = "bits" /\ PushNoblock(BitWord)
  BY <1>1, ReaderPushes
<1>11. /\ PushNoblock(NullWord) /\ rx = <<>> => Len(rx') = 1
       /\ PushNoblock(BitWord) /\ Len(rx) < Depth =>
            Len(rx) + 1 \in DOMAIN rx' /\ rx'[Len(rx) + 1].bit # 0
       /\ \A i \in DOMAIN rx : i \in DOMAIN rx' /\ rx'[i] = rx[i]
  BY <1>1, <1>5, <1>10, PushFacts
<1>7. NotOnlyNull'
  <2>1. Complete => (\E i \in DOMAIN buf : buf[i].bit # 0)'
    BY <1>2 DEF NotOnlyNull
  <2>2. ASSUME Triggering
        PROVE  \/ rx' = <<>>
               \/ Len(rx') = 1 /\ BeforeFirstWord'
               \/ \E i \in DOMAIN rx' : rx'[i].bit # 0
    <3>1. CASE rx = <<>>
      <4>1. CASE rx' = rx
        BY <3>1, <4>1
      <4>2. CASE phase = "null" /\ phase' = "wait" /\ PushNoblock(NullWord)
        BY <1>11, <3>1, <4>2 DEF BeforeFirstWord
      <4>3. CASE phase = "bits" /\ PushNoblock(BitWord)
        BY <1>2, <1>11, <2>2, <4>3
      <4> QED
        BY <1>10, <4>1, <4>2, <4>3
    <3>2. CASE Len(rx) = 1 /\ BeforeFirstWord
      <4>1. CASE phase # "bits"
        BY <1>8, <3>2, <4>1
      <4>2. CASE phase = "bits" /\ PushNoblock(BitWord)
        BY <1>2, <1>11, <2>2, <4>2
      <4>3. phase = "bits" => PushNoblock(BitWord)
        BY <1>1, ReaderPushes
      <4> QED
        BY <4>1, <4>2, <4>3
    <3>3. CASE \E i \in DOMAIN rx : rx[i].bit # 0
      BY <1>11, <3>3
    <3> QED
      BY <2>2, <3>1, <3>2, <3>3 DEF NotOnlyNull
  <2>3. ASSUME Transferring
        PROVE  \/ buf' = <<>> /\ rx' = <<>>
               \/ Len(buf') + Len(rx') = 1 /\ BeforeFirstWord'
               \/ \E i \in DOMAIN rx' : rx'[i].bit # 0 /\ Len(buf') + i <= Bits
               \/ \E i \in DOMAIN buf' : buf'[i].bit # 0
    <3>5. ASSUME phase = "bits", Len(buf) <= 1
          PROVE  \E i \in DOMAIN rx' : rx'[i].bit # 0 /\ Len(buf') + i <= Bits
      <4>1. rx = <<>> /\ PushNoblock(BitWord)
        BY <1>1, <1>2, <2>3, <3>5, ReaderPushes DEF Transferring
      <4>2. 1 \in DOMAIN rx' /\ rx'[1].bit # 0
        BY <1>4, <1>11, <4>1
      <4> QED
        BY <1>2, <1>4, <3>5, <4>2
    <3>1. CASE buf = <<>> /\ rx = <<>>
      <4>1. CASE rx' = rx
        BY <1>2, <3>1, <4>1
      <4>2. CASE phase = "null" /\ phase' = "wait" /\ PushNoblock(NullWord)
        BY <1>2, <1>4, <1>11, <3>1, <4>2 DEF BeforeFirstWord
      <4>3. CASE phase = "bits" /\ PushNoblock(BitWord)
        BY <1>4, <3>1, <3>5, <4>3
      <4> QED
        BY <1>10, <4>1, <4>2, <4>3
    <3>2. CASE Len(buf) + Len(rx) = 1 /\ BeforeFirstWord
      <4>1. CASE phase # "bits"
        BY <1>2, <1>8, <3>2, <4>1
      <4>2. CASE phase = "bits"
        BY <1>4, <3>2, <3>5, <4>2
      <4> QED
        BY <4>1, <4>2
    <3>3. CASE \E i \in DOMAIN rx : rx[i].bit # 0 /\ Len(buf) + i <= Bits
      BY <1>2, <1>11, <3>3
    <3>4. CASE \E i \in DOMAIN buf : buf[i].bit # 0
      BY <1>2, <3>4
    <3> QED
      BY <2>3, <3>1, <3>2, <3>3, <3>4 DEF NotOnlyNull
  <2> QED
    BY <1>3, <2>1, <2>2, <2>3 DEF NotOnlyNull
<1> QED
  BY <1>6, <1>7

\* While the channel is about to be triggered a read waits, nothing is transferred
\* and no power function runs.
LEMMA TriggeringStage ==
  ASSUME ReadInv, Triggering
  PROVE  state = "waiting" /\ ~dma /\ en /\ \A c \in Cores : ~InPower(c) /\ ~Stopping(c)
<1>1. CASE isr = "pioTrigger"
  <2>1. Waiting
    BY <1>1, PendingStage
  <2> QED
    BY <2>1 DEF Waiting, NoneStarts, ReadInv, Stages, Running
<1>2. ASSUME NEW c \in Cores, pc[c] = "trigger"
      PROVE  state = "waiting" /\ ~dma /\ en /\ \A d \in Cores : ~InPower(d) /\ ~Stopping(d)
  <2>1. Entered /\ Starting(c)
    BY <1>2, StageOfCall DEF Starting
  <2>2. \A d \in Cores : pc[d] \in {"idle", "trigger"}
    BY <1>2 DEF ReadInv, Alone
  <2> QED
    BY <2>1, <2>2 DEF Entered, Quiet, InPower, Stopping, ReadInv, Stages, Running
<1> QED
  BY <1>1, <1>2 DEF Triggering

\* The oldest word moves to the end of _buffer.
LEMMA MoveFacts ==
  ASSUME TypeOK, DmaTransfer
  PROVE  /\ rx # <<>> /\ rx' = Tail(rx) /\ Len(rx') = Len(rx) - 1 /\ Len(rx) \in Nat
         /\ DOMAIN rx' = 1..(Len(rx) - 1) /\ DOMAIN rx = 1..Len(rx)
         /\ \A i \in 1..(Len(rx) - 1) : rx'[i] = rx[i + 1]
         /\ buf \in Seq(Word) /\ Len(buf) \in Nat /\ Len(buf') = Len(buf) + 1
         /\ DOMAIN buf' = 1..(Len(buf) + 1) /\ DOMAIN buf = 1..Len(buf)
         /\ \A i \in 1..Len(buf) : buf'[i] = buf[i]
         /\ buf'[Len(buf) + 1] = rx[1] /\ rx[1] \in Word
<1>1. rx \in Seq(Word) /\ buf \in Seq(Word) /\ rx # <<>> /\ rx' = Tail(rx)
      /\ buf' = Append(buf, Head(rx))
  BY DEF TypeOK, SmTypeOK, DmaTransfer, Take
<1>2. Head(rx) \in Word /\ Head(rx) = rx[1]
  BY <1>1, TailFacts
<1> QED
  BY <1>1, <1>2, TailFacts, AppendFacts

LEMMA TransferWords ==
  ASSUME AsMeant, ReadInv, CleanWords, NotOnlyNull, DmaTransfer
  PROVE  CleanWords' /\ NotOnlyNull'
<1>1. /\ dma /\ dma' = (Len(buf') < Bits) /\ rx # <<>> /\ rx' = Tail(rx)
      /\ UNCHANGED <<state, clean, phase, count, frame, isr, pc>>
  BY DEF DmaTransfer, Take, coreVars, callVars, history
<1>8. ~Triggering'
  BY <1>1, TriggeringStage DEF Triggering
<1>2. TypeOK /\ state = "reading" /\ Transferring
  BY <1>1 DEF ReadInv, Stages, Free, Powering, Entered, Waiting, Reading, Finishing,
     Quiet, Transferring
<1>3. /\ Len(rx') = Len(rx) - 1 /\ Len(rx) \in Nat
      /\ DOMAIN rx' = 1..(Len(rx) - 1) /\ DOMAIN rx = 1..Len(rx)
      /\ \A i \in 1..(Len(rx) - 1) : rx'[i] = rx[i + 1]
      /\ Len(buf) \in Nat /\ Len(buf') = Len(buf) + 1
      /\ DOMAIN buf' = 1..(Len(buf) + 1) /\ DOMAIN buf = 1..Len(buf)
      /\ \A i \in 1..Len(buf) : buf'[i] = buf[i]
      /\ buf'[Len(buf) + 1] = rx[1] /\ rx[1] \in Word
      /\ rx' \in Seq(Word) /\ (rx' = <<>> <=> Len(rx') = 0)
  BY <1>1, <1>2, MoveFacts, TailFacts, EmptyFacts DEF TypeOK, SmTypeOK
<1>4. (Transferring' <=> Len(buf') < Bits) /\ (Complete' <=> ~(Len(buf') < Bits))
  BY <1>1, <1>2 DEF Transferring, Complete
<1>5. Bits \in Nat /\ Bits > 1 /\ count \in 0..(Bits - 1)
  BY <1>2 DEF AsMeant, TypeOK, SmTypeOK
<1>6. CleanWords'
  <2>1. ASSUME clean PROVE InBits \/ LastLeft
    BY <1>1, <1>2, <2>1 DEF CleanWords, NotBegun
  <2>2. CASE clean /\ InBits
    <3>1. /\ Len(buf) + Len(rx) = count /\ InOrder(frame) /\ phase = "bits" /\ count > 0
          /\ \A i \in DOMAIN rx : IsWord(rx[i], Len(buf) + i, frame)
      BY <2>2 DEF InBits, Queued
    <3>2. Len(rx) >= 1 /\ 1 \in DOMAIN rx
      BY <1>1, <1>2, <1>3, EmptyFacts DEF TypeOK, SmTypeOK
    <3>3. \A i \in DOMAIN buf' : IsWord(buf'[i], i, frame)
      BY <1>3, <3>1, <3>2 DEF InOrder
    <3>4. InOrder(frame)'
      BY <1>1, <3>3 DEF InOrder, IsWord, TornBit
    <3>5. \A i \in DOMAIN rx' : IsWord(rx'[i], Len(buf') + i, frame)
      <4> SUFFICES ASSUME NEW i \in DOMAIN rx' PROVE IsWord(rx'[i], Len(buf') + i, frame)
        OBVIOUS
      <4>1. i \in 1..(Len(rx) - 1)
        BY <1>3
      <4>3. i + 1 \in DOMAIN rx /\ rx'[i] = rx[i + 1]
        BY <1>3, <4>1
      <4>4. Len(buf') + i = Len(buf) + (i + 1)
        BY <1>3, <4>1
      <4>2. IsWord(rx[i + 1], Len(buf') + i, frame)
        BY <3>1, <4>3, <4>4
      <4> QED
        BY <4>2, <4>3
    <3>6. Len(buf') + Len(rx') = count
      BY <1>3, <3>1
    <3>7. Queued(Len(buf))'
      BY <1>1, <3>1, <3>5, <3>6 DEF Queued, IsWord, TornBit
    <3>8. Transferring' /\ ~Complete'
      BY <1>3, <1>4, <1>5, <3>6
    <3> QED
      BY <1>8, <3>4, <3>7, <3>8 DEF CleanWords, InBits
  <2>3. CASE clean /\ LastLeft
    <3>1. Len(buf') = Bits /\ ~Transferring'
      BY <1>3, <1>4, <1>5, <2>3 DEF LastLeft
    <3>2. InOrder(rx[1].frame) /\ IsWord(rx[1], Bits, rx[1].frame) /\ Len(buf) = Bits - 1
      BY <2>3 DEF LastLeft
    <3>3. \A i \in DOMAIN buf' : IsWord(buf'[i], i, rx[1].frame)
      BY <1>3, <1>5, <3>2 DEF InOrder
    <3>4. rx[1].frame \in 0..1
      BY <1>3 DEF Word
    <3>5. (\E f \in 0..1 : InOrder(f))'
      BY <3>3, <3>4 DEF InOrder, IsWord, TornBit
    <3> QED
      BY <1>8, <3>1, <3>5 DEF CleanWords
  <2> QED
    BY <1>1, <1>8, <2>1, <2>2, <2>3 DEF CleanWords
<1>7. NotOnlyNull'
  <2>1. CASE \E i \in DOMAIN buf : buf[i].bit # 0
    <3>1. \E i \in DOMAIN buf' : buf'[i].bit # 0
      BY <1>3, <2>1
    <3> QED
      BY <1>8, <3>1 DEF NotOnlyNull
  <2>2. CASE \E i \in DOMAIN rx : rx[i].bit # 0 /\ Len(buf) + i <= Bits
    <3>1. PICK i \in DOMAIN rx : rx[i].bit # 0 /\ Len(buf) + i <= Bits
      BY <2>2
    <3>2. CASE i = 1
      <4>1. Len(buf) + 1 \in DOMAIN buf' /\ buf'[Len(buf) + 1].bit # 0
        BY <1>3, <3>1, <3>2
      <4> QED
        BY <1>8, <4>1 DEF NotOnlyNull
    <3>3. CASE i # 1
      <4>1. i - 1 \in DOMAIN rx' /\ rx'[i - 1] = rx[i] /\ Len(buf') + (i - 1) <= Bits
        BY <1>3, <3>1, <3>3
      <4>2. Len(buf') < Bits
        BY <1>3, <1>5, <4>1
      <4> QED
        BY <1>4, <1>8, <3>1, <4>1, <4>2 DEF NotOnlyNull
    <3> QED
      BY <3>2, <3>3
  <2>3. CASE Len(buf) + Len(rx) = 1 /\ BeforeFirstWord
    <3>1. Len(buf') + Len(rx') = 1 /\ Len(buf') < Bits
      BY <1>1, <1>3, <1>5, <2>3
    <3> QED
      BY <1>1, <1>4, <1>8, <2>3, <3>1 DEF NotOnlyNull, BeforeFirstWord
  <2> QED
    BY <1>1, <1>2, <2>1, <2>2, <2>3 DEF NotOnlyNull
<1> QED
  BY <1>6, <1>7

\* A clear empties the FIFO, and the read is clean if it comes before the frame.
LEMMA ClearWords ==
  ASSUME ReadInv, PioIsrClear \/ \E c \in Cores : Start(c)
  PROVE  /\ rx' = <<>> /\ state' = "waiting" /\ en /\ (clean' <=> BeforeFirstWord)
         /\ UNCHANGED <<en, phase, count, x, tx, held, chip, frame, buf, asked, due>>
         /\ CleanWords' /\ NotOnlyNull'
<1>1. state = "waiting" /\ en
  <2>1. CASE PioIsrClear
    BY <2>1, PendingStage DEF PioIsrClear, Waiting, Running, ReadInv, Stages
  <2>2. ASSUME NEW c \in Cores, Start(c) PROVE state = "waiting" /\ en
    BY <2>2 DEF Start, Runs, Starting, StepsOf, CallSteps, Running, ReadInv, Stages
  <2> QED
    BY <2>1, <2>2
<1>2. ClearFifo
  BY DEF PioIsrClear, Start
<1>3. /\ rx' = <<>> /\ state' = "waiting" /\ (clean' <=> BeforeFirstWord)
      /\ UNCHANGED <<en, phase, count, x, tx, held, chip, frame, buf, asked, due>>
  BY <1>1, <1>2, Zenon DEF ClearFifo, ClearRx, irqVars
<1>4. ~Transferring' /\ ~Complete'
  BY <1>3 DEF Transferring, Complete
<1>5. clean' => Cleared'
  BY <1>3 DEF Cleared, BeforeFirstWord
<1> QED
  BY <1>1, <1>3, <1>4, <1>5 DEF CleanWords, NotOnlyNull

\* The transfer begins with the words that were pushed since the clear.
LEMMA TriggerWords ==
  ASSUME AsMeant, ReadInv, CleanWords, NotOnlyNull,
         PioIsrTrigger \/ \E c \in Cores : StartTrigger(c)
  PROVE  /\ Triggering /\ buf' = <<>> /\ state' = "reading" /\ due' = asked
         /\ UNCHANGED <<smVars, clean, asked>>
         /\ CleanWords' /\ NotOnlyNull'
<1>1. Triggering
  BY DEF Triggering, PioIsrTrigger, StartTrigger, Runs
<1>2. /\ dma' = TRUE /\ state' = "reading" /\ buf' = <<>> /\ due' = asked
      /\ UNCHANGED <<smVars, clean, asked>>
  BY DEF PioIsrTrigger, StartTrigger, Trigger
<1>3. UNCHANGED <<rx, phase, count, frame>>
  BY <1>2 DEF smVars
<1>4. Transferring' /\ ~Complete' /\ Len(buf') = 0
  BY <1>2, EmptyFacts DEF Transferring, Complete
<1>5. /\ rx \in Seq(Word) /\ Len(rx) <= Depth /\ Depth < Bits /\ Bits \in Nat
      /\ Depth \in Nat /\ Len(rx) \in Nat /\ DOMAIN rx = 1..Len(rx)
  BY DEF AsMeant, ReadInv, TypeOK, SmTypeOK
<1>6. CleanWords'
  <2>1. SUFFICES ASSUME clean PROVE Cleared' /\ (NotBegun \/ InBits)'
    BY <1>2, <1>4 DEF CleanWords
  <2>2. Cleared
    BY <1>1, <2>1 DEF CleanWords
  <2>3. CASE rx = <<>> /\ BeforeFirstWord
    BY <1>2, <1>3, <2>3 DEF Cleared, NotBegun, BeforeFirstWord
  <2>4. CASE Queued(0)
    <3>1. Queued(0)' /\ Queued(Len(buf))'
      BY <1>3, <1>4, <2>4 DEF Queued, IsWord, TornBit
    <3>2. InOrder(frame)'
      BY <1>2 DEF InOrder
    <3> QED
      BY <3>1, <3>2 DEF Cleared, InBits
  <2> QED
    BY <2>2, <2>3, <2>4 DEF Cleared
<1>7. NotOnlyNull'
  <2>1. CASE rx = <<>>
    BY <1>2, <1>3, <1>4, <2>1 DEF NotOnlyNull
  <2>2. CASE Len(rx) = 1 /\ BeforeFirstWord
    BY <1>3, <1>4, <2>2 DEF NotOnlyNull, BeforeFirstWord
  <2>3. CASE \E i \in DOMAIN rx : rx[i].bit # 0
    <3>1. \E i \in DOMAIN rx' : rx'[i].bit # 0 /\ Len(buf') + i <= Bits
      BY <1>3, <1>4, <1>5, <2>3
    <3> QED
      BY <1>3, <1>4, <2>3, <3>1 DEF NotOnlyNull
  <2> QED
    BY <1>1, <2>1, <2>2, <2>3 DEF NotOnlyNull
<1> QED
  BY <1>1, <1>2, <1>6, <1>7

\* A call comes to the trigger by its clear only, and the statements that disturb the
\* reader are those of the power functions.
LEMMA TriggeringCall ==
  ASSUME ReadInv, NEW c \in Cores, Body(c) \/ Call(c), ~Start(c), Triggering'
  PROVE  Triggering /\ ~Enter(c) /\ ~Finish(c) /\ ~PowerUp(c) /\ ~PowerDown(c)
<1>1. /\ pc \in [Cores -> Labels] /\ isr' = isr
      /\ \E l \in Labels \ {"trigger"} : pc' = [pc EXCEPT ![c] = l]
  <2>1. pc \in [Cores -> Labels]
    BY DEF ReadInv, TypeOK
  <2>2. CASE Call(c)
    BY <2>1, <2>2 DEF Call, Entry, Labels
  <2>3. CASE Body(c)
    BY <2>1, <2>3 DEF Body, DrainTx, PutGain, Begin, Enter, Check, StartTrigger,
       Restore, Done, Copy, TimeReached, Disable, Finish, Unlock, PowerDown, PowerUp,
       Exit, Labels, AfterUnlock, Goto
  <2> QED
    BY <2>1, <2>2, <2>3
<1>2. Triggering
  BY <1>1 DEF Triggering
<1>3. state = "waiting" /\ \A d \in Cores : ~InPower(d) /\ ~Stopping(d)
  BY <1>2, TriggeringStage
<1>4. mut # None
  BY <1>3 DEF ReadInv, Stages, Free, Powering, Entered, Waiting, Reading, Finishing,
     Running
<1> QED
  BY <1>2, <1>3, <1>4 DEF Enter, Finish, PowerUp, PowerDown, Runs, InPower, Stopping

\* Every step but these leaves the words of a read where they are.
LEMMA OtherWords ==
  ASSUME AsMeant, ReadInv, [Next]_vars, ~ReaderStep, ~DmaTransfer,
         ~PioIsrClear, ~PioIsrTrigger, \A c \in Cores : ~Start(c) /\ ~StartTrigger(c)
  PROVE  /\ UNCHANGED <<buf, clean, frame>>
         /\ Complete' => Complete
         /\ Transferring' => Transferring
         /\ Triggering' => Triggering
         /\ Triggering' \/ Transferring' =>
              UNCHANGED <<rx, phase, count>> /\ chip'.gain = chip.gain
<1>1. TypeOK /\ (dma => state = "reading")
  BY DEF ReadInv, Stages, Free, Powering, Entered, Waiting, Reading, Finishing, Quiet
<1> USE DEF Transferring, Complete
<1>2. CASE UNCHANGED vars \/ PioIsr \/ PioIsrEnd \/ DmaIsrEnd
  BY <1>2 DEF vars, PioIsr, PioIsrEnd, DmaIsrEnd, smVars, irqVars, coreVars, callVars,
     history, Triggering
<1>3. CASE ChipConverts \/ ChipSleeps
  BY <1>1, <1>3 DEF ChipConverts, Convert, ChipSleeps, Sleep, irqVars, coreVars, callVars,
     history, TypeOK, SmTypeOK, Triggering
<1>4. CASE DmaIsr
  <2>1. Reading /\ intr
    BY <1>4, PendingStage DEF DmaIsr, Interrupted
  <2> QED
    BY <1>4, <2>1 DEF DmaIsr, Reading, smVars, irqVars, callVars, history, Triggering
<1>5. CASE DmaIsrFinish
  <2>1. state = "done"
    BY <1>5, PendingStage DEF DmaIsrFinish, Finishing
  <2> QED
    BY <1>5, <2>1 DEF DmaIsrFinish, StopListening, smVars, coreVars, callVars, history,
       Triggering
<1>6. ASSUME NEW c \in Cores,
             \/ Call(c) \/ DrainTx(c) \/ PutGain(c) \/ Begin(c) \/ Check(c) \/ Restore(c)
             \/ Done(c) \/ Copy(c) \/ TimeReached(c) \/ Disable(c) \/ Unlock(c)
             \/ Exit(c)
      PROVE  /\ UNCHANGED <<buf, clean, frame>>
             /\ Complete' => Complete
             /\ Transferring' => Transferring
             /\ UNCHANGED <<rx, phase, count>> /\ chip'.gain = chip.gain
  BY <1>6 DEF Call, DrainTx, PutGain, Begin, Check, Restore, Done, Copy, TimeReached,
     Disable, Unlock, Exit, Drain, Put, smVars, irqVars, history
<1>7. ASSUME NEW c \in Cores, Enter(c) \/ Finish(c) \/ PowerUp(c) \/ PowerDown(c)
      PROVE  /\ UNCHANGED <<buf, clean, frame>>
             /\ Complete' => Complete
             /\ ~Transferring'
  <2>1. CASE Enter(c)
    <3>1. Free
      BY <2>1 DEF ReadInv, Enter, Stages, Powering, Entered, Waiting, Reading, Finishing
    <3> QED
      BY <2>1, <3>1 DEF Enter, Free, Quiet, Running, smVars, irqVars, history
  <2>2. CASE Finish(c) \/ PowerUp(c)
    <3>1. Powering
      BY <2>2, StageOfCall DEF Finish, PowerUp, Runs, InPower
    <3> QED
      BY <2>2, <3>1 DEF Finish, PowerUp, Powering, Quiet, Running, StopListening,
         StartSms, smVars, irqVars, history
  <2>3. CASE PowerDown(c)
    <3>1. Free
      BY <2>3, StageOfCall DEF PowerDown, Runs, Stopping
    <3> QED
      BY <2>3, <3>1 DEF PowerDown, StopSms, Free, Quiet, Running, irqVars, history
  <2> QED
    BY <1>7, <2>1, <2>2, <2>3
<1>8. ASSUME NEW c \in Cores, Call(c) \/ Body(c)
      PROVE  /\ UNCHANGED <<buf, clean, frame>>
             /\ Complete' => Complete
             /\ Transferring' => Transferring
             /\ Triggering' => Triggering
             /\ Triggering' \/ Transferring' =>
                  UNCHANGED <<rx, phase, count>> /\ chip'.gain = chip.gain
  BY <1>6, <1>7, <1>8, TriggeringCall DEF Body
<1> QED
  BY <1>2, <1>3, <1>4, <1>5, <1>8 DEF Next, Isr

LEMMA WordsStep ==
  ASSUME AsMeant, ReadInv, CountedOut, CleanWords, NotOnlyNull, [Next]_vars
  PROVE  CleanWords' /\ NotOnlyNull'
<1>1. CASE ReaderStep \/ DmaTransfer
  BY <1>1, ReaderWords, TransferWords
<1>2. CASE \/ PioIsrClear \/ PioIsrTrigger
           \/ \E c \in Cores : Start(c) \/ StartTrigger(c)
  BY <1>2, ClearWords, TriggerWords
<1>3. CASE /\ ~ReaderStep /\ ~DmaTransfer /\ ~PioIsrClear /\ ~PioIsrTrigger
           /\ \A c \in Cores : ~Start(c) /\ ~StartTrigger(c)
  <2>1. /\ UNCHANGED <<buf, clean, frame>>
        /\ Complete' => Complete
        /\ Transferring' => Transferring /\ UNCHANGED <<rx, phase, count>>
        /\ Triggering' => Triggering /\ UNCHANGED <<rx, phase, count>>
    BY <1>3, OtherWords
  <2>2. CleanWords'
    <3>1. ASSUME Transferring', clean' PROVE (NotBegun \/ InBits \/ LastLeft)'
      <4>1. NotBegun \/ InBits \/ LastLeft
        BY <2>1, <3>1 DEF CleanWords
      <4> QED
        BY <2>1, <3>1, <4>1 DEF NotBegun, BeforeFirstWord, InBits, Queued, LastLeft,
           InOrder, IsWord, TornBit
    <3>2. ASSUME Complete', clean' PROVE (Len(buf) = Bits /\ \E f \in 0..1 : InOrder(f))'
      BY <2>1, <3>2 DEF CleanWords, InOrder, IsWord, TornBit
    <3>3. ASSUME Triggering', clean' PROVE Cleared'
      BY <2>1, <3>3 DEF CleanWords, Cleared, BeforeFirstWord, Queued, IsWord, TornBit
    <3> QED
      BY <3>1, <3>2, <3>3 DEF CleanWords
  <2>3. NotOnlyNull'
    BY <2>1 DEF NotOnlyNull, BeforeFirstWord
  <2> QED
    BY <2>2, <2>3
<1> QED
  BY <1>1, <1>2, <1>3

-----------------------------------------------------------------------------
(* Gains. *)

\* A gain that was put reaches the gain register, and stays requested.
LEMMA RequestedStep ==
  ASSUME SmTypeOK, Reader
  PROVE  /\ \A g \in Gains : Requested(g) /\ phase # "boot" => Requested(g)'
         /\ \A g \in Gains : tx = <<g>> /\ phase = "boot" => Requested(g)'
         /\ phase' # "boot"
<1> USE DEF Requested, At
<1>1. CASE ReaderBoot \/ ReaderPull
  <2>1. tx' = <<>> /\ phase' # "boot"
    BY <1>1, PullType DEF ReaderBoot, ReaderPull, SmTypeOK
  <2>2. \A g \in Gains : tx = <<g>> => x' = g
    BY <1>1 DEF ReaderBoot, ReaderPull, PullInto
  <2>3. tx = <<>> /\ phase # "boot" => x' = x
    BY <1>1 DEF ReaderBoot, ReaderPull, PullInto
  <2> QED
    BY <2>1, <2>2, <2>3
<1>2. CASE ~ReaderBoot /\ ~ReaderPull
  BY <1>2 DEF Reader, ReaderNull, ReaderBegin, ReaderClear, ReaderEdge, ReaderBit,
     ReaderDone, ReaderGain
<1> QED
  BY <1>1, <1>2

\* Once settled, a gain stays the one of every frame that begins.
LEMMA SettledReader ==
  ASSUME SmTypeOK, CountedOut, NEW g \in Gains, Settled(g), Reader
  PROVE  Settled(g)'
<1>1. Requested(g)' /\ phase' # "boot"
  BY RequestedStep DEF Settled
<1> USE DEF Settled, At, CountedOut, BeforeFirstWord
<1>2. /\ chip \in [gain : PulseCounts,
                   frame : {"converting", "ready", "clocked", "torn", "asleep"}]
      /\ count \in 0..(Bits - 1)
  BY DEF SmTypeOK
<1>3. CASE ReaderNull \/ ReaderBegin \/ ReaderClear \/ ReaderDone
  BY <1>1, <1>2, <1>3 DEF ReaderNull, ReaderBegin, ReaderClear, ReaderDone
<1>4. CASE ReaderEdge
  <2>1. chip.frame = "ready" /\ ~held
    BY <1>4 DEF ReaderEdge
  <2>2. chip' = [chip EXCEPT !.frame = "clocked"] /\ ~held'
    BY <1>4, <2>1 DEF ReaderEdge
  <2>3. chip'.frame = "clocked" /\ chip'.gain = chip.gain
    BY <1>2, <2>2
  <2> QED
    BY <1>1, <1>4, <2>2, <2>3 DEF ReaderEdge
<1>5. CASE ReaderBit
  <2>1. count' = (IF count + 1 = Bits THEN 0 ELSE count + 1) /\ count + 1 # 0
    BY <1>2, <1>5, CountFacts DEF ReaderBit
  <2> QED
    BY <1>1, <1>2, <1>5, <2>1 DEF ReaderBit
<1>6. CASE ReaderPull
  <2>1. tx' = <<>>
    BY <1>6, PullType DEF ReaderPull, SmTypeOK
  <2> QED
    BY <1>1, <1>2, <1>6, <2>1 DEF ReaderPull, Requested
<1>7. CASE ReaderGain
  <2>1. chip.frame = "clocked" /\ x = g
    BY <1>7 DEF ReaderGain
  <2>2. chip' = [gain |-> GainPulses(g), frame |-> "converting"]
    BY <1>7, <2>1 DEF ReaderGain
  <2> QED
    BY <1>1, <1>7, <2>2 DEF ReaderGain
<1> QED
  BY <1>3, <1>4, <1>5, <1>6, <1>7 DEF Reader, ReaderBoot

\* So it does when a conversion completes; and chips whose clock is low do not fall
\* asleep.
LEMMA SettledChip ==
  ASSUME SmTypeOK, NEW g \in Gains, Settled(g), en, Convert \/ Sleep
  PROVE  Settled(g)'
<1>1. Convert
  BY DEF Sleep, Settled
<1>2. /\ phase \in {"null", "wait"} /\ UNCHANGED <<phase, count, x, tx, held>>
      /\ chip'.gain = chip.gain /\ chip'.frame = "ready"
  BY <1>1 DEF Convert, Resting, Settled, SmTypeOK
<1> QED
  BY <1>2 DEF Settled, Requested, BeforeFirstWord

\* A bit of a frame that is not torn, once it is pushed, settles the gain that was
\* requested.
LEMMA SettledByBit ==
  ASSUME SmTypeOK, ClockRests, NEW g \in Gains, Requested(g), ReaderBit,
         chip.frame = "clocked"
  PROVE  Settled(g)'
<1>1. /\ UNCHANGED <<x, tx, chip, held>> /\ phase = "bits" /\ ~held
      /\ (phase' = "bits" /\ count' # 0) \/ phase' = "done"
  BY DEF ReaderBit, At, ClockRests
<1> QED
  BY <1>1 DEF Settled, Requested, BeforeFirstWord

\* A bit that is seen after a step of the reader was seen before, or was pushed by
\* it.
LEMMA SeenReader ==
  ASSUME ReadInv, ReaderStep, SeenBit'
  PROVE  SeenBit \/ (ReaderBit /\ chip.frame = "clocked")
<1>1. SmTypeOK /\ Reader /\ UNCHANGED <<buf, state, dma, isr, pc>>
  BY TypeParts DEF ReadInv, ReaderStep, irqVars, coreVars, callVars
<1>2. /\ Transferring' <=> Transferring
      /\ Complete' <=> Complete
      /\ Triggering' <=> Triggering
  BY <1>1 DEF Transferring, Complete, Triggering
<1>3. CASE (Transferring \/ Complete) /\ \E i \in DOMAIN buf' : IsBit(buf'[i])
  BY <1>1, <1>3 DEF SeenBit
<1>4. CASE (Triggering \/ Transferring) /\ \E i \in DOMAIN rx' : IsBit(rx'[i])
  <2>1. PICK i \in DOMAIN rx' : IsBit(rx'[i])
    BY <1>4
  <2>2. ASSUME i \in DOMAIN rx, rx'[i] = rx[i] PROVE SeenBit
    BY <1>4, <2>1, <2>2 DEF SeenBit
  <2>3. CASE rx' = rx
    BY <2>1, <2>2, <2>3
  <2>4. CASE PushNoblock(NullWord)
    BY <1>1, <2>1, <2>2, <2>4, PushFacts, BitWordFacts
  <2>5. CASE PushNoblock(BitWord) /\ phase = "bits"
    <3>1. ReaderBit
      BY <1>1, <2>5 DEF Reader, ReaderBoot, ReaderNull, ReaderBegin, ReaderClear,
         ReaderEdge, ReaderDone, ReaderPull, ReaderGain, At
    <3> QED
      BY <1>1, <2>1, <2>2, <2>5, <3>1, PushFacts, BitWordFacts
  <2> QED
    BY <1>1, <2>3, <2>4, <2>5, ReaderPushes
<1> QED
  BY <1>2, <1>3, <1>4 DEF SeenBit, IsBit

\* The other steps do not add a bit, and neither the clear nor what comes before it
\* leaves one.
LEMMA SeenOther ==
  ASSUME AsMeant, ReadInv, CleanWords, NotOnlyNull, [Next]_vars, ~ReaderStep, SeenBit'
  PROVE  SeenBit /\ ~PioIsrClear /\ \A c \in Cores : ~Start(c)
<1>1. CASE DmaTransfer
  <2>1. TypeOK /\ dma /\ Transferring
    BY <1>1 DEF DmaTransfer, ReadInv, Stages, Free, Powering, Entered, Waiting,
       Reading, Finishing, Quiet, Transferring
  <2>2. SeenBit
    <3>1. CASE \E i \in DOMAIN buf' : IsBit(buf'[i])
      BY <1>1, <2>1, <3>1, MoveFacts DEF SeenBit
    <3>2. CASE \E i \in DOMAIN rx' : IsBit(rx'[i])
      BY <1>1, <2>1, <3>2, MoveFacts DEF SeenBit
    <3> QED
      BY <3>1, <3>2 DEF SeenBit, IsBit
  <2>3. buf' # buf
    BY <1>1, <2>1, MoveFacts
  <2>4. ~PioIsrClear /\ \A c \in Cores : ~Start(c)
    BY <2>3 DEF PioIsrClear, Start, ClearFifo, irqVars
  <2> QED
    BY <2>2, <2>4
<1>2. CASE PioIsrClear \/ \E c \in Cores : Start(c)
  <2>1. rx' = <<>> /\ state' = "waiting"
    BY <1>2, ClearWords
  <2> QED
    BY <2>1 DEF SeenBit, Transferring, Complete
<1>3. CASE /\ PioIsrTrigger \/ \E c \in Cores : StartTrigger(c)
           /\ ~PioIsrClear /\ \A c \in Cores : ~Start(c)
  <2>1. Triggering /\ buf' = <<>> /\ rx' = rx
    BY <1>3, TriggerWords DEF smVars
  <2> QED
    BY <1>3, <2>1 DEF SeenBit, IsBit
<1>4. CASE /\ ~DmaTransfer /\ ~PioIsrClear /\ ~PioIsrTrigger
           /\ \A c \in Cores : ~Start(c) /\ ~StartTrigger(c)
  <2>1. /\ buf' = buf /\ (Complete' => Complete)
        /\ Transferring' => Transferring /\ rx' = rx
        /\ Triggering' => Triggering /\ rx' = rx
    BY <1>4, OtherWords
  <2> QED
    BY <1>4, <2>1 DEF SeenBit, IsBit
<1> QED
  BY <1>1, <1>2, <1>3, <1>4

\* Nor does a read that finds no flag see one before its handler.
LEMMA UnseenCheck ==
  ASSUME AsMeant, ReadInv, NEW c \in Cores, Check(c)
  PROVE  ~SeenBit'
<1>1. pc[c] = "check" /\ Alone /\ pc \in [Cores -> Labels]
  BY TypeParts DEF Check, Runs, ReadInv, CallTypeOK
<1>2. Entered
  BY <1>1, StageOfCall DEF Starting
<1>3. state' = "waiting" /\ isr' = "idle"
  BY <1>2 DEF Check, Entered
<1>4. \A d \in Cores : pc'[d] # "trigger"
  <2>1. PICK l \in {"start", "restore"} : pc' = [pc EXCEPT ![c] = l]
    BY DEF Check, Goto
  <2>2. \A d \in Cores \ {c} : pc[d] = "idle"
    BY <1>1 DEF Alone
  <2> QED
    BY <1>1, <2>1, <2>2
<1> QED
  BY <1>3, <1>4 DEF SeenBit, Transferring, Complete, Triggering

\* The DMA channel and the handlers touch neither registers nor calls.
LEMMA HandlerFacts ==
  ASSUME DmaTransfer \/ Isr
  PROVE  UNCHANGED <<en, phase, count, x, tx, held, chip, asked, pc, op, arg>>
  BY DEF DmaTransfer, Take, Isr, PioIsr, PioIsrClear, PioIsrTrigger, PioIsrEnd, DmaIsr,
     DmaIsrFinish, DmaIsrEnd, ClearFifo, Trigger, ClearRx, smVars, coreVars, callVars,
     history

\* Settled speaks of the registers, the chip and its clock only.
LEMMA SettledSame ==
  ASSUME NEW g \in Gains, UNCHANGED <<phase, count, x, tx, held, chip>>
  PROVE  (Settled(g)' <=> Settled(g)) /\ (Requested(g)' <=> Requested(g))
  BY DEF Settled, Requested, BeforeFirstWord

\* A set_gain that goes on after it changed the TX FIFO: nothing but its own
\* statements touches registers, and it waits for a read of its own.
LEMMA SetGainCall ==
  ASSUME AsMeant, ReadInv, NEW c \in Cores, NEW d \in Cores, Call(d) \/ Body(d),
         op'[c] = "set_gain", pc'[c] \notin {"idle", "drain"}
  PROVE  /\ d = c /\ op[c] = "set_gain" /\ arg'[c] = arg[c]
         /\ \/ DrainTx(c) /\ pc'[c] = "put"
            \/ PutGain(c) /\ pc[c] = "put" /\ pc'[c] = "begin"
            \/ /\ pc[c] \notin {"idle", "drain", "put"} /\ pc'[c] # "put"
               /\ UNCHANGED <<en, phase, count, x, tx, held, chip, asked>>
               /\ pc'[c] \in {"trigger", "restore", "spin"} =>
                    pc[c] \in {"trigger", "restore", "spin"} \/ Start(c) \/ Check(c)
<1> USE DEF ReadInv
<1>1. CallTypeOK /\ Alone
  BY TypeParts
<1>2. ~Call(d)
  <2>1. SUFFICES ASSUME Call(d) PROVE FALSE
    OBVIOUS
  <2>2. PICK o \in Ops :
          /\ pc[d] = "idle" /\ \A e \in Cores : pc[e] = "idle"
          /\ pc' = [pc EXCEPT ![d] = Entry(o)] /\ op' = [op EXCEPT ![d] = o]
    BY <2>1 DEF Call, Runs, AsMeant
  <2>3. CASE d = c
    <3>1. op'[c] = o /\ pc'[c] = Entry(o)
      BY <1>1, <2>2, <2>3 DEF CallTypeOK
    <3>2. Entry("set_gain") = "drain"
      BY DEF Entry, Powers
    <3> QED
      BY <3>1, <3>2
  <2>4. CASE d # c
    BY <1>1, <2>2, <2>4 DEF CallTypeOK
  <2> QED
    BY <2>3, <2>4
<1>3. PICK l \in Labels : Goto(d, l) /\ pc[d] # "idle"
  BY <1>2 DEF Body, DrainTx, PutGain, Begin, Enter, Check, Start, StartTrigger, Restore,
     Done, Copy, TimeReached, Disable, Finish, Unlock, PowerDown, PowerUp, Exit, Labels,
     AfterUnlock, Runs
<1>4. \A e \in Cores \ {d} : pc'[e] = "idle"
  BY <1>1, <1>3, GotoFacts, AloneFacts
<1>5. d = c
  BY <1>4
<1>6. /\ pc'[c] = l /\ l # "idle" /\ op'[c] = op[c] /\ arg'[c] = arg[c]
      /\ op[c] = "set_gain" /\ StepsOf(c)
  BY <1>1, <1>3, <1>5, GotoFacts DEF CallSteps
<1>7. Body(c)
  BY <1>2, <1>5
<1>8. CASE DrainTx(c) \/ PutGain(c)
  BY <1>1, <1>5, <1>6, <1>8, GotoFacts DEF DrainTx, PutGain, Runs, Labels
<1>9. CASE \/ Begin(c) \/ Enter(c) \/ Check(c) \/ Start(c) \/ StartTrigger(c)
           \/ Restore(c) \/ Copy(c)
  <2>1. UNCHANGED <<en, phase, count, x, tx, held, chip, asked>>
    BY <1>9 DEF Begin, Enter, Check, Start, StartTrigger, Restore, Copy, ClearFifo,
       Trigger, ClearRx, smVars, history
  <2>2. pc[c] \in {"begin", "enter", "check", "start", "trigger", "restore", "copy"}
    BY <1>9 DEF Begin, Enter, Check, Start, StartTrigger, Restore, Copy, Runs
  <2>3. PICK k \in {"fault", "enter", "check", "powerUp", "disable", "start", "trigger",
                    "restore", "idle", "spin"} :
          /\ Goto(c, k)
          /\ k \in {"trigger", "restore", "spin"} =>
               pc[c] \in {"trigger", "restore"} \/ Start(c) \/ Check(c)
    BY <1>9 DEF Begin, Enter, Check, Start, StartTrigger, Restore, Copy, Runs
  <2>4. pc'[c] = k
    BY <1>1, <2>3, GotoFacts DEF Labels
  <2> QED
    BY <1>5, <1>6, <2>1, <2>2, <2>3, <2>4
<1>10. ~Done(c)
  <2>1. Done(c) => Goto(c, "idle")
    BY <1>6 DEF Done
  <2> QED
    BY <1>1, <1>6, <2>1, GotoFacts DEF Labels
<1>11. ~(TimeReached(c) \/ Disable(c) \/ Finish(c) \/ Unlock(c) \/ PowerDown(c)
         \/ PowerUp(c) \/ Exit(c))
  BY <1>6 DEF TimeReached, Disable, Finish, Unlock, PowerDown, PowerUp, Exit, Runs,
     StepsOf, Powers
<1> QED
  BY <1>7, <1>8, <1>9, <1>10, <1>11 DEF Body

LEMMA SetGainStep ==
  ASSUME AsMeant, GainInv, [Next]_vars
  PROVE  SetGainReads'
<1> USE DEF GainInv
<1>1. SmTypeOK /\ CallTypeOK /\ TypeOK
  BY TypeParts DEF ReadInv
<1>2. SUFFICES ASSUME NEW c \in Cores, op'[c] = "set_gain",
                      pc'[c] \notin {"idle", "drain"}
               PROVE  /\ en' /\ asked' = NoGain
                      /\ pc'[c] # "put" => IF phase' = "boot" THEN tx' = <<arg'[c]>>
                                          ELSE Requested(arg[c])'
                      /\ pc'[c] \in {"trigger", "restore", "spin"} /\ SeenBit'
                           => Settled(arg[c])'
  BY DEF SetGainReads, SetGainRead
<1>3. CASE \/ ReaderStep \/ ChipConverts \/ ChipSleeps \/ DmaTransfer \/ Isr
           \/ UNCHANGED vars
  <2>1. UNCHANGED <<pc, op, arg, asked, en>>
    BY <1>3, HandlerFacts, FlagFacts DEF ReaderStep, ChipConverts, Convert, ChipSleeps,
       Sleep, coreVars, callVars, history, vars, smVars
  <2>2. PICK g \in Gains : g = arg[c] /\ g = arg'[c]
    BY <1>1, <2>1 DEF CallTypeOK
  <2>3. /\ en /\ asked = NoGain
        /\ pc[c] # "put" => IF phase = "boot" THEN tx = <<g>> ELSE Requested(g)
        /\ pc[c] \in {"trigger", "restore", "spin"} /\ SeenBit => Settled(g)
    BY <1>2, <2>1, <2>2 DEF SetGainReads, SetGainRead
  <2>4. /\ pc[c] # "put" => IF phase' = "boot" THEN tx' = <<g>> ELSE Requested(g)'
        /\ pc[c] \in {"trigger", "restore", "spin"} /\ SeenBit' => Settled(g)'
    <3>1. CASE ReaderStep
      <4>1. Reader
        BY <3>1 DEF ReaderStep
      <4>2. pc[c] # "put" => IF phase' = "boot" THEN tx' = <<g>> ELSE Requested(g)'
        BY <1>1, <2>3, <4>1, RequestedStep
      <4>3. ASSUME pc[c] \in {"trigger", "restore", "spin"}, SeenBit'
            PROVE  Settled(g)'
        <5>2. CASE SeenBit
          BY <1>1, <2>3, <4>1, <4>3, <5>2, SettledReader
        <5>3. CASE ReaderBit /\ chip.frame = "clocked"
          <6>1. Requested(g)
            BY <2>3, <4>3, <5>3 DEF ReaderBit, At
          <6> QED
            BY <1>1, <5>3, <6>1, SettledByBit
        <5> QED
          BY <3>1, <4>3, <5>2, <5>3, SeenReader
      <4> QED
        BY <4>2, <4>3
    <3>2. CASE ChipConverts \/ ChipSleeps
      <4>1. /\ Convert \/ Sleep
            /\ UNCHANGED <<phase, x, tx, rx, buf, state, dma, isr, pc>>
        BY <3>2 DEF ChipConverts, Convert, ChipSleeps, Sleep, irqVars, coreVars, callVars
      <4>2. /\ Transferring' <=> Transferring
            /\ Complete' <=> Complete
            /\ Triggering' <=> Triggering
        BY <4>1 DEF Transferring, Complete, Triggering
      <4>3. SeenBit' <=> SeenBit
        BY <4>1, <4>2 DEF SeenBit, IsBit
      <4>4. Requested(g)' <=> Requested(g)
        BY <4>1 DEF Requested
      <4> QED
        BY <1>1, <2>3, <4>1, <4>2, <4>3, <4>4, SettledChip
    <3>3. CASE DmaTransfer \/ Isr \/ UNCHANGED vars
      <4>1. UNCHANGED <<phase, count, x, tx, held, chip>>
        BY <3>3, HandlerFacts DEF vars, smVars
      <4>2. CASE ~ReaderStep
        BY <2>3, <4>1, <4>2, SeenOther, SettledSame
      <4> QED
        BY <3>1, <4>2
    <3> QED
      BY <1>3, <3>1, <3>2, <3>3
  <2> QED
    BY <2>1, <2>2, <2>3, <2>4 DEF Settled, Requested
<1>4. ASSUME ~ReaderStep, NEW d \in Cores, Call(d) \/ Body(d)
      PROVE  /\ en' /\ asked' = NoGain
             /\ pc'[c] # "put" => IF phase' = "boot" THEN tx' = <<arg'[c]>>
                                 ELSE Requested(arg[c])'
             /\ pc'[c] \in {"trigger", "restore", "spin"} /\ SeenBit' => Settled(arg[c])'
  <2>1. /\ d = c /\ op[c] = "set_gain" /\ arg'[c] = arg[c]
        /\ \/ DrainTx(c) /\ pc'[c] = "put"
           \/ PutGain(c) /\ pc[c] = "put" /\ pc'[c] = "begin"
           \/ /\ pc[c] \notin {"idle", "drain", "put"} /\ pc'[c] # "put"
              /\ UNCHANGED <<en, phase, count, x, tx, held, chip, asked>>
              /\ pc'[c] \in {"trigger", "restore", "spin"} =>
                   pc[c] \in {"trigger", "restore", "spin"} \/ Start(c) \/ Check(c)
    BY <1>2, <1>4, SetGainCall
  <2>2. CASE DrainTx(c) /\ pc'[c] = "put"
    BY <2>2 DEF DrainTx, Drain, Runs, ReadInv, CallSteps, StepsOf, Coming
  <2>3. CASE PutGain(c) /\ pc[c] = "put" /\ pc'[c] = "begin"
    <3>1. tx = <<>> /\ en /\ asked = NoGain
      BY <2>1, <2>3 DEF ReadInv, CallSteps, StepsOf, SetGainReads, SetGainRead
    <3>2. tx' = <<arg[c]>> /\ en' = en /\ asked' = asked
      BY <2>3, <3>1 DEF PutGain, Put, history
    <3> QED
      BY <2>1, <2>3, <3>1, <3>2 DEF Requested
  <2>4. CASE /\ pc[c] \notin {"idle", "drain", "put"} /\ pc'[c] # "put"
             /\ UNCHANGED <<en, phase, count, x, tx, held, chip, asked>>
             /\ pc'[c] \in {"trigger", "restore", "spin"} =>
                  pc[c] \in {"trigger", "restore", "spin"} \/ Start(c) \/ Check(c)
    <3>1. PICK g \in Gains : g = arg[c] /\ g = arg'[c]
      BY <1>1, <2>1 DEF CallTypeOK
    <3>2. /\ en /\ asked = NoGain
          /\ IF phase = "boot" THEN tx = <<g>> ELSE Requested(g)
          /\ pc[c] \in {"trigger", "restore", "spin"} /\ SeenBit => Settled(g)
      BY <2>1, <2>4, <3>1 DEF SetGainReads, SetGainRead
    <3>3. IF phase' = "boot" THEN tx' = <<g>> ELSE Requested(g)'
      BY <2>4, <3>2, SettledSame
    <3>4. ASSUME pc'[c] \in {"trigger", "restore", "spin"}, SeenBit'
          PROVE  Settled(g)'
      <4>1. ~Check(c)
        BY <3>4, UnseenCheck
      <4>2. SeenBit /\ ~Start(c)
        BY <1>4, <3>4, SeenOther
      <4>3. Settled(g)
        BY <2>4, <3>2, <3>4, <4>1, <4>2
      <4> QED
        BY <2>4, <4>3, SettledSame
    <3> QED
      BY <2>4, <3>1, <3>2, <3>3, <3>4 DEF Settled, Requested
  <2> QED
    BY <2>1, <2>2, <2>3, <2>4
<1> QED
  BY <1>3, <1>4 DEF Next

\* The gain of a set_gain that returned is still settled after any step.
LEMMA AskedStep ==
  ASSUME AsMeant, GainInv, [Next]_vars
  PROVE  AskedSettled'
<1> USE DEF GainInv
<1>1. SmTypeOK /\ CallTypeOK /\ TypeOK /\ TypeOK'
  BY TypeParts, ReadStep DEF ReadInv
<1>2. SUFFICES ASSUME NEW g \in Gains, g = asked', en'
               PROVE  Settled(g)'
  BY <1>1 DEF AskedSettled, TypeOK, Settled, Requested
<1>3. g = asked /\ en => Settled(g)
  BY DEF AskedSettled, NoGain, Settled, Requested
<1>4. g # NoGain
  BY DEF NoGain, MultiSmAssumption, TypeOK
<1>5. CASE ReaderStep
  BY <1>1, <1>2, <1>3, <1>5, SettledReader DEF ReaderStep, history, Reader, ReaderBoot,
     ReaderNull, ReaderBegin, ReaderClear, ReaderEdge, ReaderBit, ReaderDone,
     ReaderPull, ReaderGain, At
<1>6. CASE ChipConverts \/ ChipSleeps
  BY <1>1, <1>2, <1>3, <1>6, SettledChip DEF ChipConverts, Convert, ChipSleeps, Sleep,
     history
<1>7. CASE UNCHANGED <<en, phase, count, x, tx, held, chip, asked>>
  BY <1>2, <1>3, <1>7, SettledSame
<1>8. ASSUME NEW c \in Cores, Call(c) \/ Body(c)
      PROVE  Settled(g)'
  <2>1. CASE Done(c) /\ op[c] = "set_gain"
    <3>1. /\ state = "done" /\ pc[c] = "spin"
          /\ UNCHANGED <<phase, count, x, tx, held, chip>>
          /\ asked' = IF Torn(buf) THEN NoGain ELSE arg[c]
      BY <2>1 DEF Done, Runs, smVars
    <3>2. ~Torn(buf) /\ g = arg[c]
      BY <1>2, <1>4, <3>1
    <3>3. SeenBit /\ Complete
      <4>1. Complete
        BY <3>1 DEF Complete
      <4>2. PICK i \in DOMAIN buf : buf[i].bit # 0
        BY <4>1 DEF NotOnlyNull
      <4>3. buf[i] \in Word /\ buf[i].bit # TornBit
        BY <1>1, <3>2 DEF TypeOK, Torn
      <4>4. IsBit(buf[i])
        <5>1. buf[i].bit \in 0..(Bits + 1) /\ Bits \in Nat
          BY <4>3, MultiSmAssumption DEF Word, TornBit
        <5> QED
          BY <4>2, <4>3, <5>1 DEF IsBit, TornBit
      <4> QED
        BY <4>1, <4>4 DEF SeenBit
    <3>4. Settled(g)
      BY <2>1, <3>1, <3>2, <3>3 DEF SetGainReads, SetGainRead
    <3> QED
      BY <3>1, <3>4, SettledSame
  <2>2. CASE PutGain(c)
    <3>1. pc[c] = "put" /\ op[c] = "set_gain" /\ asked' = asked
      BY <2>2 DEF PutGain, Runs, ReadInv, CallSteps, StepsOf, history
    <3> QED
      BY <1>2, <1>4, <3>1 DEF SetGainReads, SetGainRead
  <2>3. CASE DrainTx(c) \/ PowerUp(c) \/ PowerDown(c)
    BY <1>2, <1>4, <2>3 DEF DrainTx, PowerUp, PowerDown, StopSms
  <2>4. CASE ~(PutGain(c) \/ DrainTx(c) \/ PowerUp(c) \/ PowerDown(c)
               \/ (Done(c) /\ op[c] = "set_gain"))
    <3>1. UNCHANGED <<en, phase, count, x, tx, held, chip, asked>>
      BY <1>8, <2>4 DEF Call, Body, Begin, Enter, Check, Start, StartTrigger, Restore,
         Done, Copy, TimeReached, Disable, Finish, Unlock, Exit, ClearFifo, Trigger,
         ClearRx, smVars, history
    <3> QED
      BY <1>7, <3>1
  <2> QED
    BY <2>1, <2>2, <2>3, <2>4
<1>9. CASE DmaTransfer \/ Isr \/ UNCHANGED vars
  BY <1>7, <1>9, HandlerFacts DEF vars, smVars, history
<1> QED
  BY <1>5, <1>6, <1>8, <1>9 DEF Next

\* The chip has another gain only after the reader's last pulses.
LEMMA ChipGain ==
  ASSUME SmTypeOK, Reader, phase # "gain"
  PROVE  chip'.gain = chip.gain
<1>1. chip \in [gain : PulseCounts,
                frame : {"converting", "ready", "clocked", "torn", "asleep"}]
  BY DEF SmTypeOK
<1>2. CASE ReaderEdge
  <2>1. PICK f \in {"clocked", "torn"} : chip' = [chip EXCEPT !.frame = f]
    BY <1>2 DEF ReaderEdge
  <2> QED
    BY <1>1, <2>1
<1>3. CASE ~ReaderEdge
  BY <1>3 DEF Reader, ReaderBoot, ReaderNull, ReaderBegin, ReaderClear, ReaderBit,
     ReaderDone, ReaderPull, ReaderGain, At
<1> QED
  BY <1>2, <1>3

\* The other steps leave the gain that is due, or forget it.
LEMMA OtherDue ==
  ASSUME [Next]_vars, ~ReaderStep, ~DmaTransfer, ~PioIsrClear, ~PioIsrTrigger,
         \A c \in Cores : ~Start(c) /\ ~StartTrigger(c)
  PROVE  /\ state' = "reading" => state = "reading"
         /\ asked' = asked \/ asked' = NoGain \/ state = "done"
         /\ \/ due' = NoGain
            \/ due' = due /\ (asked' = asked \/ state' = "done")
<1>1. CASE UNCHANGED vars \/ ChipConverts \/ ChipSleeps \/ Isr
  BY <1>1 DEF vars, ChipConverts, ChipSleeps, Isr, PioIsr, PioIsrEnd, DmaIsr,
     DmaIsrFinish, DmaIsrEnd, coreVars, history
<1>2. ASSUME NEW c \in Cores, Call(c) \/ Body(c)
      PROVE  /\ state' = "reading" => state = "reading"
             /\ asked' = asked \/ asked' = NoGain \/ state = "done"
             /\ \/ due' = NoGain
                \/ due' = due /\ (asked' = asked \/ state' = "done")
  BY <1>2 DEF Call, Body, DrainTx, PutGain, Begin, Enter, Check, Restore, Done, Copy,
     TimeReached, Disable, Finish, Unlock, PowerDown, PowerUp, Exit, history
<1> QED
  BY <1>1, <1>2 DEF Next

\* A read whose clear comes before a frame finds the chips at the gain that was
\* asked for, and the reader pushes no other before the trigger.
LEMMA AppliedStep ==
  ASSUME AsMeant, GainInv, [Next]_vars
  PROVE  AskedApplied'
<1> USE DEF GainInv
<1>1. SmTypeOK /\ TypeOK /\ TypeOK'
  BY TypeParts, ReadStep DEF ReadInv
<1>2. SUFFICES ASSUME clean', asked' # NoGain, Triggering'
               PROVE  /\ \A i \in DOMAIN rx' : rx'[i].gain = GainPulses(asked')
                      /\ chip'.gain = GainPulses(asked')
  BY DEF AskedApplied, GainPulses
<1>3. clean /\ asked # NoGain /\ Triggering =>
        /\ \A i \in DOMAIN rx : rx[i].gain = GainPulses(asked)
        /\ chip.gain = GainPulses(asked)
  BY DEF AskedApplied
<1>4. CASE ReaderStep
  <2>1. Reader /\ UNCHANGED <<clean, asked, isr, pc>>
    BY <1>4 DEF ReaderStep, coreVars, callVars, history
  <2>2. clean /\ asked # NoGain /\ Triggering
    BY <1>2, <2>1 DEF Triggering
  <2>3. phase # "null" /\ phase # "gain"
    BY <2>2 DEF CleanWords, Cleared, BeforeFirstWord, Queued
  <2>4. chip'.gain = chip.gain
    BY <1>1, <2>1, <2>3, ChipGain
  <2>5. rx' = rx \/ PushNoblock(BitWord)
    BY <1>1, <2>1, <2>3, ReaderPushes
  <2>6. \A i \in DOMAIN rx' : rx'[i].gain = GainPulses(asked)
    BY <1>1, <1>3, <2>2, <2>5, PushFacts, BitWordFacts
  <2> QED
    BY <1>3, <2>1, <2>2, <2>4, <2>6
<1>5. CASE DmaTransfer
  <2>1. dma /\ UNCHANGED <<isr, pc>>
    BY <1>5 DEF DmaTransfer, coreVars, callVars
  <2> QED
    BY <1>2, <2>1, TriggeringStage DEF Triggering
<1>6. CASE PioIsrClear \/ \E c \in Cores : Start(c)
  <2>1. /\ rx' = <<>> /\ en /\ UNCHANGED <<chip, asked>>
        /\ BeforeFirstWord
    BY <1>2, <1>6, ClearWords
  <2>2. chip.gain = GainPulses(asked)
    BY <1>2, <2>1 DEF AskedSettled, Settled
  <2> QED
    BY <2>1, <2>2
<1>7. CASE PioIsrTrigger \/ \E c \in Cores : StartTrigger(c)
  BY <1>2, <1>3, <1>7, TriggerWords DEF smVars
<1>8. CASE /\ ~ReaderStep /\ ~DmaTransfer /\ ~PioIsrClear /\ ~PioIsrTrigger
           /\ \A c \in Cores : ~Start(c) /\ ~StartTrigger(c)
  <2>1. Triggering /\ clean /\ rx' = rx /\ chip'.gain = chip.gain
    BY <1>2, <1>8, OtherWords
  <2>2. asked' = asked
    BY <1>2, <1>8, <2>1, OtherDue, TriggeringStage
  <2> QED
    BY <1>2, <1>3, <2>1, <2>2
<1> QED
  BY <1>4, <1>5, <1>6, <1>7, <1>8

\* A word that the channel takes has the gain that is due.
LEMMA DueTransfer ==
  ASSUME GainInv, DmaTransfer
  PROVE  DueApplied'
<1> USE DEF GainInv
<1>1. /\ UNCHANGED <<state, clean, due, asked, chip>>
      /\ dma /\ dma' = (Len(buf') < Bits)
  BY DEF DmaTransfer, Take, coreVars, history
<1>2. TypeOK /\ state = "reading" /\ Transferring /\ Len(buf) < Bits
  BY <1>1 DEF ReadInv, Stages, Free, Powering, Entered, Waiting, Reading, Finishing,
     Quiet, Transferring
<1>3. SUFFICES ASSUME clean, due # NoGain
               PROVE  /\ due' = asked'
                      /\ \A i \in DOMAIN buf' : buf'[i].gain = GainPulses(due)
                      /\ \A i \in DOMAIN rx' : Len(buf') + i <= Bits =>
                                                 rx'[i].gain = GainPulses(due)
                      /\ Len(buf') + Len(rx') < Bits => chip'.gain = GainPulses(due)
  BY <1>1 DEF DueApplied, GainPulses
<1>4. /\ due = asked /\ \A i \in DOMAIN buf : buf[i].gain = GainPulses(due)
      /\ \A i \in DOMAIN rx : Len(buf) + i <= Bits => rx[i].gain = GainPulses(due)
      /\ Len(buf) + Len(rx) < Bits => chip.gain = GainPulses(due)
  BY <1>2, <1>3 DEF DueApplied
<1>5. /\ rx # <<>> /\ Len(rx') = Len(rx) - 1 /\ Len(rx) \in Nat
      /\ DOMAIN rx' = 1..(Len(rx) - 1) /\ DOMAIN rx = 1..Len(rx)
      /\ \A i \in 1..(Len(rx) - 1) : rx'[i] = rx[i + 1]
      /\ Len(buf) \in Nat /\ Len(buf') = Len(buf) + 1
      /\ DOMAIN buf' = 1..(Len(buf) + 1) /\ DOMAIN buf = 1..Len(buf)
      /\ \A i \in 1..Len(buf) : buf'[i] = buf[i]
      /\ buf'[Len(buf) + 1] = rx[1]
      /\ Bits \in Nat /\ Len(rx) >= 1
  BY <1>2, MoveFacts, MultiSmAssumption, EmptyFacts DEF TypeOK, SmTypeOK
<1>6. rx[1].gain = GainPulses(due)
  BY <1>2, <1>4, <1>5
<1>7. \A i \in DOMAIN buf' : buf'[i].gain = GainPulses(due)
  BY <1>4, <1>5, <1>6
<1>8. ASSUME NEW i \in DOMAIN rx', Len(buf') + i <= Bits
      PROVE  rx'[i].gain = GainPulses(due)
  <2>1. i + 1 \in DOMAIN rx /\ rx'[i] = rx[i + 1] /\ Len(buf) + (i + 1) <= Bits
    BY <1>5, <1>8
  <2> QED
    BY <1>4, <2>1
<1>9. Len(buf') + Len(rx') = Len(buf) + Len(rx)
  BY <1>5
<1> QED
  BY <1>1, <1>4, <1>7, <1>8, <1>9

\* So has a word that the reader pushes, if it is one of this read.
LEMMA DueReader ==
  ASSUME AsMeant, GainInv, ReaderStep
  PROVE  DueApplied'
<1> USE DEF GainInv
<1>1. /\ UNCHANGED <<state, dma, buf, clean, due, asked>> /\ Reader
      /\ phase = "bits" /\ dma => rx = <<>>
  BY DEF ReaderStep, irqVars, coreVars, history
<1>2. SmTypeOK /\ TypeOK /\ (Transferring' <=> Transferring)
  BY <1>1, TypeParts DEF Transferring, ReadInv
<1>3. ASSUME Transferring, clean, due # NoGain
      PROVE  /\ \A i \in DOMAIN rx' : Len(buf) + i <= Bits =>
                                        rx'[i].gain = GainPulses(due)
             /\ Len(buf) + Len(rx') < Bits => chip'.gain = GainPulses(due)
  <2>1. /\ \A i \in DOMAIN rx : Len(buf) + i <= Bits => rx[i].gain = GainPulses(due)
        /\ Len(buf) + Len(rx) < Bits => chip.gain = GainPulses(due)
        /\ NotBegun \/ InBits \/ LastLeft
    BY <1>3 DEF DueApplied, CleanWords
  <2>2. /\ Len(buf) \in Nat /\ Len(buf) < Bits /\ Len(rx) \in Nat /\ rx \in Seq(Word)
        /\ buf \in Seq(Word) /\ dma /\ Bits \in Nat
        /\ rx = <<>> <=> Len(rx) = 0
    BY <1>2, <1>3, StageSources, EmptyFacts, MultiSmAssumption
    DEF Transferring, TypeOK, SmTypeOK, ReadInv
  <2>3. LastLeft => Len(buf) = Bits - 1 /\ Len(rx) >= 1
    BY <2>2 DEF LastLeft
  <2>4. ~LastLeft => phase # "null" /\ phase # "gain"
    BY <2>1 DEF NotBegun, InBits, Queued, BeforeFirstWord
  <2>5. \A i \in DOMAIN rx' : Len(buf) + i <= Bits => rx'[i].gain = GainPulses(due)
    <3>1. CASE rx' = rx
      BY <2>1, <3>1
    <3>2. CASE PushNoblock(NullWord) /\ phase = "null"
      <4>1. \A i \in DOMAIN rx' : i = Len(rx) + 1 \/ (i \in DOMAIN rx /\ rx'[i] = rx[i])
        BY <1>2, <3>2, PushFacts, BitWordFacts
      <4>2. Len(buf) = Bits - 1 /\ Len(rx) >= 1
        BY <2>3, <2>4, <3>2
      <4>3. ~(Len(buf) + (Len(rx) + 1) <= Bits)
        BY <2>2, <4>2
      <4> QED
        BY <2>1, <4>1, <4>3
    <3>3. CASE PushNoblock(BitWord) /\ phase = "bits"
      <4>1. rx = <<>> /\ chip.gain = GainPulses(due)
        BY <1>1, <2>1, <2>2, <3>3
      <4>2. \A i \in DOMAIN rx' : rx'[i] = BitWord \/ i \in DOMAIN rx
        BY <1>2, <3>3, PushFacts, BitWordFacts
      <4>3. DOMAIN rx = {}
        BY <4>1
      <4> QED
        BY <1>2, <4>1, <4>2, <4>3, BitWordFacts
    <3> QED
      BY <1>1, <1>2, <3>1, <3>2, <3>3, ReaderPushes
  <2>6. Len(rx') \in Nat /\ Len(rx') >= Len(rx)
    <3>1. CASE rx' = rx
      BY <2>2, <3>1
    <3>2. CASE PushNoblock(NullWord) \/ PushNoblock(BitWord)
      BY <1>2, <3>2, PushFacts, BitWordFacts
    <3> QED
      BY <1>1, <1>2, <3>1, <3>2, ReaderPushes
  <2>7. ASSUME Len(buf) + Len(rx') < Bits PROVE chip'.gain = GainPulses(due)
    <3>1. Len(buf) + Len(rx) < Bits
      BY <2>2, <2>6, <2>7
    <3>2. ~LastLeft
      BY <2>2, <2>3, <3>1
    <3> QED
      BY <1>1, <1>2, <2>1, <2>4, <3>1, <3>2, ChipGain
  <2> QED
    BY <2>5, <2>7
<1> QED
  BY <1>1, <1>2, <1>3 DEF DueApplied, GainPulses

LEMMA DueStep ==
  ASSUME AsMeant, GainInv, [Next]_vars
  PROVE  DueApplied'
<1> USE DEF GainInv
<1>1. CASE PioIsrClear \/ \E c \in Cores : Start(c)
  BY <1>1, ClearWords DEF DueApplied, Transferring
<1>2. CASE PioIsrTrigger \/ \E c \in Cores : StartTrigger(c)
  <2>1. /\ Triggering /\ buf' = <<>> /\ state' = "reading" /\ due' = asked
        /\ UNCHANGED <<rx, chip, clean, asked>>
    BY <1>2, TriggerWords DEF smVars
  <2>2. clean' /\ due' # NoGain =>
          /\ \A i \in DOMAIN rx : rx[i].gain = GainPulses(asked)
          /\ chip.gain = GainPulses(asked)
    BY <2>1 DEF AskedApplied
  <2> QED
    BY <2>1, <2>2 DEF DueApplied, GainPulses
<1>3. CASE DmaTransfer
  BY <1>3, DueTransfer
<1>4. CASE ReaderStep
  BY <1>4, DueReader
<1>5. CASE /\ ~ReaderStep /\ ~DmaTransfer /\ ~PioIsrClear /\ ~PioIsrTrigger
           /\ \A c \in Cores : ~Start(c) /\ ~StartTrigger(c)
  <2>1. /\ UNCHANGED <<buf, clean>>
        /\ Complete' => Complete
        /\ Transferring' => Transferring /\ rx' = rx /\ chip'.gain = chip.gain
    BY <1>5, OtherWords
  <2>2. /\ state' = "reading" => state = "reading"
        /\ \/ due' = NoGain
           \/ due' = due /\ (asked' = asked \/ state' = "done")
    BY <1>5, OtherDue
  <2>3. state' \in {"reading", "done"} => state \in {"reading", "done"}
    BY <2>1, <2>2 DEF Complete
  <2> QED
    BY <2>1, <2>2, <2>3 DEF DueApplied, GainPulses
<1> QED
  BY <1>1, <1>2, <1>3, <1>4, <1>5

LEMMA GainStep ==
  ASSUME AsMeant, GainInv, [Next]_vars
  PROVE  GainInv'
<1>1. ReadInv' /\ CountedOut' /\ ClockRests' /\ CleanWords' /\ NotOnlyNull'
  BY ReadStep, CountedStep, ClockStep, WordsStep DEF GainInv, ReadInv
<1>2. SetGainReads' /\ AskedSettled' /\ AskedApplied' /\ DueApplied'
  BY SetGainStep, AskedStep, AppliedStep, DueStep
<1> QED
  BY <1>1, <1>2 DEF GainInv

\* The inductive invariant of the words a read gets, and of the gain they have.
THEOREM GainInvariant ==
  ASSUME AsMeant
  PROVE  Spec => []GainInv
<1>1. GainInv /\ [Next]_vars => GainInv'
  BY GainStep
<1> QED
  BY <1>1, InitGain, PTL DEF Spec

\* A read whose FIFO was seen empty before the first word of a frame, and after the
\* null word, gets that frame, whole and in order, however the reader, the channel,
\* the handlers and the cores interleave, between the clear and the trigger too:
\* hx711_multi.c:294-317, 750-754.
THEOREM CleanReadsAreWhole ==
  ASSUME AsMeant
  PROVE  Spec => []CleanReadIsWhole
<1>1. GainInv => CleanReadIsWhole
  <2>1. SUFFICES ASSUME GainInv, state = "done", clean, ~Torn(buf)
                 PROVE  WholeFrame(buf)
    BY DEF CleanReadIsWhole
  <2>2. Len(buf) = Bits /\ buf \in Seq(Word) /\ Bits \in Nat /\ Bits > 1
    <3>1. Depth \in Nat \ {0} /\ Depth < Bits /\ Bits \in Nat
      BY MultiSmAssumption DEF AsMeant
    <3> QED
      BY <2>1, <3>1 DEF GainInv, CleanWords, Complete, ReadInv, TypeOK
  <2>3. PICK f \in 0..1 : InOrder(f)
    BY <2>1 DEF GainInv, CleanWords, Complete
  <2>4. \A i \in 1..Bits : buf[i].bit = i /\ buf[i].frame = f
    BY <2>1, <2>2, <2>3 DEF InOrder, IsWord, Torn
  <2> QED
    BY <2>2, <2>4 DEF WholeFrame
<1> QED
  BY <1>1, GainInvariant, PTL

\* Such a read has the gain of the last set_gain that returned: whichever word
\* the reader was at when the gain was put, the read of the set_gain waits long
\* enough for the chips to have it: hx711_multi.c:655-680.
THEOREM GainsAreApplied ==
  ASSUME AsMeant
  PROVE  Spec => []GainApplied
<1>1. GainInv => GainApplied
  BY DEF GainInv, DueApplied, GainApplied, GainPulses
<1> QED
  BY <1>1, GainInvariant, PTL

=============================================================================

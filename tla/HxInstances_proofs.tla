------------------------- MODULE HxInstances_proofs -------------------------
(***************************************************************************)
(* Proofs about HxInstances for any number of hx711_multi_t and any        *)
(* configuration of them that keeps AsMeant: one instance's init, reads    *)
(* and close leave the others what is theirs, and the handlers find the    *)
(* one that raised the interrupt.                                          *)
(***************************************************************************)
EXTENDS HxInstances, FiniteSetTheorems, TLAPS

USE InstancesAssumption

-----------------------------------------------------------------------------
(* Types and lines. *)

\* TypeOK, variable by variable.
LEMMA TypeParts ==
  /\ TypeOK <=>
       /\ pc \in {"idle", "initPio", "initDma", "initDmaIrq", "initPioIrq", "release"}
       /\ cur \in Instances \cup {NoOne} /\ (pc = "idle" <=> cur = NoOne)
       /\ readers \in [1..ReadCount -> Instances \cup {NoOne}]
       /\ sms \subseteq Instances /\ channels \subseteq Instances /\ dmaEn \subseteq Instances
       /\ dma \subseteq Instances /\ intr \subseteq Instances /\ en \subseteq Instances
       /\ mut \subseteq Instances /\ held \subseteq Instances
       /\ handler \in [Lines -> {"none", "pio", "dma"}] /\ irqs \subseteq Lines
       /\ srcs \in [Instances -> SUBSET Lines] /\ flag \subseteq 0..1
       /\ state \in [Instances -> States] /\ fault \in BOOLEAN
  /\ TypeOK' <=>
       /\ pc' \in {"idle", "initPio", "initDma", "initDmaIrq", "initPioIrq", "release"}
       /\ cur' \in Instances \cup {NoOne} /\ (pc' = "idle" <=> cur' = NoOne)
       /\ readers' \in [1..ReadCount -> Instances \cup {NoOne}]
       /\ sms' \subseteq Instances /\ channels' \subseteq Instances /\ dmaEn' \subseteq Instances
       /\ dma' \subseteq Instances /\ intr' \subseteq Instances /\ en' \subseteq Instances
       /\ mut' \subseteq Instances /\ held' \subseteq Instances
       /\ handler' \in [Lines -> {"none", "pio", "dma"}] /\ irqs' \subseteq Lines
       /\ srcs' \in [Instances -> SUBSET Lines] /\ flag' \subseteq 0..1
       /\ state' \in [Instances -> States] /\ fault' \in BOOLEAN
<1>1. States' = States /\ Lines' = Lines
  BY DEF States, Lines
<1> QED
  BY <1>1 DEF TypeOK

\* PIO and DMA interrupts never share a line.
LEMMA LineFacts ==
  ASSUME NEW h \in Instances
  PROVE  /\ UtilPioGetIrqFromIndex(h) \in 7..9 /\ UtilPioGetIrqFromIndex(h) \in Lines
         /\ UtilDmaGetIrqn(h) \in 11..12 /\ UtilDmaGetIrqn(h) \in Lines
         /\ Pio[h] \in 0..1
<1>1. Pio[h] \in 0..1 /\ PioIndex[h] \in 0..1 /\ DmaIndex[h] \in 0..1
  OBVIOUS
<1> QED
  BY <1>1 DEF UtilPioGetIrqFromIndex, UtilDmaGetIrqn, Lines

\* The instances that are used are of one PIO, and their interrupt gets through.
LEMMA UsedFacts ==
  ASSUME AsMeant, NEW h \in Used
  PROVE  /\ h \in Instances /\ Pio[h] = 0 /\ UtilPioGetIrqFromIndex(h) = ConversionDoneSource
         /\ WiredLine(h) = UtilPioGetIrqFromIndex(h)
<1>1. /\ h \in Instances /\ UtilPioGetIrqFromIndex(h) = WiredLine(h)
      /\ WiredLine(h) = ConversionDoneSource
  BY DEF AsMeant
<1>2. Pio[h] \in 0..1 /\ PioIndex[h] \in 0..1
  BY <1>1
<1>3. Pio[h] = 0
  BY <1>1, <1>2 DEF UtilPioGetIrqFromIndex, WiredLine
<1> QED
  BY <1>1, <1>3

\* Two that are there at the same time have lines of their own.
LEMMA OtherLines ==
  ASSUME AsMeant, NEW g \in Instances, NEW h \in Instances, Pio[g] # Pio[h]
  PROVE  /\ UtilPioGetIrqFromIndex(g) # UtilPioGetIrqFromIndex(h)
         /\ UtilDmaGetIrqn(g) # UtilDmaGetIrqn(h)
         /\ UtilPioGetIrqFromIndex(g) # UtilDmaGetIrqn(h)
         /\ UtilDmaGetIrqn(g) # UtilPioGetIrqFromIndex(h)
<1>1. /\ UtilPioGetIrqFromIndex(g) # UtilPioGetIrqFromIndex(h)
      /\ UtilDmaGetIrqn(g) # UtilDmaGetIrqn(h)
  BY DEF AsMeant
<1> QED
  BY <1>1, LineFacts

\* Whose clock pins a stop may leave high.
LEMMA StopFacts ==
  ASSUME TypeOK, NEW h, StopSms(h)
  PROVE  en' = en \ {h} /\ held' \subseteq Instances
<1>1. held \subseteq Instances
  BY TypeParts
<1> QED
  BY <1>1 DEF StopSms

LEMMA InitInv == Init => InstancesInv
<1> SUFFICES ASSUME Init PROVE InstancesInv
  OBVIOUS
<1>1. TypeOK
  BY TypeParts DEF Init, Lines, States
<1>2. OnePerPio /\ Stages /\ OwnLines /\ NoFault
  BY DEF Init, OnePerPio, Stages, OwnLines, NoFault, Up
<1>3. OneEntry
  BY DEF Init, OneEntry, Listed
<1>4. OwnReads
  BY DEF Init, OwnReads, OwnRead, Running
<1> QED
  BY <1>1, <1>2, <1>3, <1>4 DEF InstancesInv

\* The calls and the hardware that leave the set-up alone keep what it owns.
LEMMA SetupStays ==
  ASSUME OnePerPio, Stages, OneEntry, OwnLines,
         UNCHANGED <<pc, cur, readers, sms, channels, handler, irqs>>
  PROVE  OnePerPio' /\ Stages' /\ OneEntry' /\ OwnLines'
<1>1. \A h \in Instances : (Up(h)' <=> Up(h)) /\ (Listed(h)' <=> Listed(h))
  BY DEF Up, Listed, Initing
<1>2. OnePerPio' /\ Stages'
  BY DEF OnePerPio, Stages
<1>3. OneEntry'
  BY <1>1 DEF OneEntry
<1>4. OwnLines'
  <2>1. \A h \in Instances : /\ UtilDmaGetIrqn(h)' = UtilDmaGetIrqn(h)
                             /\ UtilPioGetIrqFromIndex(h)' = UtilPioGetIrqFromIndex(h)
    BY DEF UtilDmaGetIrqn, UtilPioGetIrqFromIndex
  <2> QED
    BY <1>1, <2>1 DEF OwnLines
<1> QED
  BY <1>2, <1>3, <1>4

-----------------------------------------------------------------------------
(* Power, reads and the hardware. *)

\* Who is powered up, and who is not.
LEMMA PowerInv ==
  ASSUME AsMeant, InstancesInv, NEW h \in Used, PowerUp(h) \/ PowerDown(h)
  PROVE  InstancesInv'
<1>1. /\ TypeOK /\ OnePerPio /\ Stages /\ OneEntry /\ OwnLines /\ OwnReads /\ NoFault
      /\ h \in Instances /\ pc = "idle" /\ IsInitd(h) /\ h \notin mut
      /\ held' \subseteq Instances
      /\ UNCHANGED <<pc, cur, readers, sms, channels, handler, irqs, intr, flag, state, mut, fault>>
  BY TypeParts, StopFacts DEF InstancesInv, PowerUp, PowerDown, setupVars
<1>2. \/ en' = en \cup {h} /\ UNCHANGED <<dma, dmaEn, srcs>>
      \/ /\ en' = en \ {h} /\ dma' = dma \ {h} /\ dmaEn' = dmaEn \ {h}
         /\ srcs' = [srcs EXCEPT ![h] = @ \ {ConversionDoneSource}]
  BY DEF PowerUp, PowerDown, AsyncFinish, StopSms
<1>3. TypeOK'
  <2>1. srcs' \in [Instances -> SUBSET Lines]
    BY <1>1, <1>2, TypeParts
  <2>2. en' \subseteq Instances /\ dma' \subseteq Instances /\ dmaEn' \subseteq Instances
    BY <1>1, <1>2, TypeParts
  <2> QED
    BY <1>1, <2>1, <2>2, TypeParts
<1>4. OnePerPio' /\ Stages' /\ OneEntry' /\ OwnLines'
  BY <1>1, SetupStays
<1>5. ASSUME NEW g \in Instances PROVE OwnRead(g)'
  <2>1. OwnRead(g) /\ srcs \in [Instances -> SUBSET Lines]
    BY <1>1, TypeParts DEF OwnReads
  <2>2. ~Running(h) /\ h \in sms
    BY <1>1 DEF OwnReads, OwnRead, IsInitd
  <2>3. /\ (Up(g)' <=> Up(g)) /\ (Listed(g)' <=> Listed(g)) /\ (Initing' <=> Initing)
        /\ (Running(g)' <=> Running(g))
    BY <1>1 DEF Up, Listed, Initing, Running
  <2>4. srcs'[g] # {} => srcs'[g] = srcs[g] /\ srcs[g] # {}
    BY <1>1, <1>2, <2>1 DEF OwnRead
  <2>5. /\ g \in en' => g \in en \/ g = h
        /\ g \in en /\ g # h => g \in en'
        /\ g \in dmaEn' => g \in dmaEn
        /\ g \in dma' => g \in dma
    BY <1>2
  <2> QED
    BY <1>1, <2>1, <2>2, <2>3, <2>4, <2>5 DEF OwnRead
<1> QED
  BY <1>1, <1>3, <1>4, <1>5 DEF InstancesInv, OwnReads, NoFault

\* hx711_multi_async_start.
LEMMA StartInv ==
  ASSUME AsMeant, InstancesInv, NEW h \in Used, AsyncStart(h)
  PROVE  InstancesInv'
<1>1. /\ TypeOK /\ OnePerPio /\ Stages /\ OneEntry /\ OwnLines /\ OwnReads /\ NoFault
      /\ h \in Instances /\ pc = "idle" /\ IsInitd(h) /\ h \in en /\ ~Running(h)
      /\ mut' = mut \cup {h}
      /\ UNCHANGED <<pc, cur, readers, sms, channels, handler, irqs, intr, en, flag, held, fault>>
  BY DEF InstancesInv, AsyncStart, setupVars
<1>2. /\ srcs \in [Instances -> SUBSET Lines] /\ state \in [Instances -> States]
      /\ cur = NoOne /\ h \in sms /\ h \in channels
  BY <1>1, TypeParts DEF IsInitd
<1>3. \/ /\ dmaEn' = dmaEn \cup {h} /\ dma' = dma \cup {h} /\ srcs' = srcs
         /\ state' = [state EXCEPT ![h] = "reading"]
      \/ /\ UNCHANGED <<dmaEn, dma>> /\ state' = [state EXCEPT ![h] = "waiting"]
         /\ srcs' = [srcs EXCEPT ![h] = @ \cup {UtilPioGetIrqFromIndex(h)}]
  BY DEF AsyncStart, AsyncStartDma
<1>4. TypeOK'
  <2>1. srcs' \in [Instances -> SUBSET Lines]
    <3>1. UtilPioGetIrqFromIndex(h) \in Lines
      BY <1>1, LineFacts
    <3> QED
      BY <1>2, <1>3, <3>1
  <2>2. state' \in [Instances -> States]
    BY <1>2, <1>3 DEF States
  <2>3. dma' \subseteq Instances /\ dmaEn' \subseteq Instances /\ mut' \subseteq Instances
    BY <1>1, <1>3, TypeParts
  <2> QED
    BY <1>1, <2>1, <2>2, <2>3, TypeParts
<1>5. OnePerPio' /\ Stages' /\ OneEntry' /\ OwnLines'
  BY <1>1, SetupStays
<1>6. ASSUME NEW g \in Instances PROVE OwnRead(g)'
  <2>1. OwnRead(g) /\ OwnRead(h)
    BY <1>1 DEF OwnReads
  <2>2. /\ (Up(g)' <=> Up(g)) /\ (Listed(g)' <=> Listed(g)) /\ (Initing' <=> Initing)
    BY <1>1 DEF Up, Listed, Initing
  <2>3. CASE g # h
    <3>1. srcs'[g] = srcs[g] /\ state'[g] = state[g]
      BY <1>2, <1>3, <2>3
    <3>2. (g \in dma' <=> g \in dma) /\ (g \in dmaEn' <=> g \in dmaEn) /\ (g \in mut' <=> g \in mut)
      BY <1>1, <1>3, <2>3
    <3>3. Running(g)' <=> Running(g)
      BY <3>1 DEF Running
    <3> QED
      BY <1>1, <2>1, <2>2, <3>1, <3>2, <3>3 DEF OwnRead
  <2>4. CASE g = h
    <3>1. Up(h) /\ Listed(h) /\ ~Initing
      BY <1>1, <1>2 DEF Up, Listed, Initing
    <3>2. srcs[h] = {} /\ h \notin dma \cup intr
      BY <1>1, <2>1 DEF OwnRead, Running
    <3>3. UtilPioGetIrqFromIndex(h) = ConversionDoneSource
      BY UsedFacts
    <3>4. /\ state'[h] \in {"waiting", "reading"}
          /\ srcs'[h] # {} => srcs'[h] = {ConversionDoneSource} /\ state'[h] = "waiting"
          /\ h \in dma' \cup intr' => state'[h] = "reading"
      BY <1>1, <1>2, <1>3, <3>2, <3>3
    <3>5. Running(h)'
      BY <3>4 DEF Running
    <3> QED
      BY <1>1, <1>2, <2>1, <2>2, <2>4, <3>1, <3>4, <3>5 DEF OwnRead
  <2> QED
    BY <2>3, <2>4
<1> QED
  BY <1>1, <1>4, <1>5, <1>6 DEF InstancesInv, OwnReads, NoFault

\* Frames and transfers.
LEMMA HardwareInv ==
  ASSUME AsMeant, InstancesInv, NEW h \in Instances, Hardware(h)
  PROVE  InstancesInv'
<1>1. /\ TypeOK /\ OnePerPio /\ Stages /\ OneEntry /\ OwnLines /\ OwnReads /\ NoFault
      /\ h \in en /\ held' \subseteq Instances
      /\ UNCHANGED <<pc, cur, readers, sms, channels, handler, irqs, srcs, dmaEn, en, state, mut, fault>>
  BY TypeParts DEF InstancesInv, Hardware, FrameBegins, FrameEnds, DmaCompletes, setupVars
<1>2. /\ flag' \subseteq flag \cup {Pio[h]}
      /\ dma' \cup intr' \subseteq dma \cup intr
  BY DEF Hardware, FrameBegins, FrameEnds, DmaCompletes
<1>3. h \in Used
  BY <1>1 DEF OwnReads, OwnRead
<1>4. TypeOK'
  <2>1. flag' \subseteq 0..1
    BY <1>1, <1>2, LineFacts, TypeParts
  <2>2. dma' \subseteq Instances /\ intr' \subseteq Instances
    BY <1>1, <1>2, TypeParts
  <2> QED
    BY <1>1, <2>1, <2>2, TypeParts
<1>5. OnePerPio' /\ Stages' /\ OneEntry' /\ OwnLines'
  BY <1>1, SetupStays
<1>6. flag' \subseteq {Pio[g] : g \in Used}
  BY <1>1, <1>2, <1>3 DEF OwnReads
<1>7. ASSUME NEW g \in Instances PROVE OwnRead(g)'
  <2>1. OwnRead(g)
    BY <1>1 DEF OwnReads
  <2>2. /\ (Up(g)' <=> Up(g)) /\ (Listed(g)' <=> Listed(g)) /\ (Initing' <=> Initing)
        /\ (Running(g)' <=> Running(g))
    BY <1>1 DEF Up, Listed, Initing, Running
  <2> QED
    BY <1>1, <1>2, <2>1, <2>2 DEF OwnRead
<1> QED
  BY <1>1, <1>4, <1>5, <1>6, <1>7 DEF InstancesInv, OwnReads, NoFault

-----------------------------------------------------------------------------
(* The handlers. *)

\* While a read runs, all that are in the array are initialised.
LEMMA AllInitd ==
  ASSUME InstancesInv, NEW h \in Instances, Running(h),
         NEW j \in 1..ReadCount, readers[j] # NoOne
  PROVE  readers[j] \in Instances /\ Up(readers[j]) /\ IsInitd(readers[j])
<1>1. TypeOK /\ Stages /\ OneEntry /\ OwnLines /\ ~Initing
  BY DEF InstancesInv, OwnReads, OwnRead
<1>2. readers[j] \in Instances
  BY <1>1, TypeParts
<1>3. Listed(readers[j])
  BY <1>1, <1>2 DEF OneEntry
<1>4. Up(readers[j]) /\ readers[j] \in sms /\ readers[j] \in channels
  BY <1>1, <1>2, <1>3 DEF Listed, Up, Stages
<1> QED
  BY <1>1, <1>2, <1>4 DEF OwnLines, IsInitd

\* The search of a handler finds the one of which all others that are in the
\* array are of another PIO.
LEMMA SearchFinds ==
  ASSUME InstancesInv, NEW h \in Instances, Running(h), NEW S, h \in S, NoOne \notin S,
         \A g \in Instances : g \in S /\ g # h => Pio[g] = Pio[h]
  PROVE  Finds(S, h)
<1>1. TypeOK /\ OnePerPio /\ Stages /\ OneEntry /\ Up(h)
  BY DEF InstancesInv, OwnReads, OwnRead
<1>2. h \in sms /\ Listed(h)
  BY <1>1 DEF Up, Stages, Listed
<1>3. PICK i \in 1..ReadCount : \A j \in 1..ReadCount : readers[j] = h <=> j = i
  BY <1>1, <1>2 DEF OneEntry
<1>4. ASSUME NEW j \in 1..ReadCount, j # i PROVE readers[j] \notin S
  <2>1. CASE readers[j] = NoOne
    BY <2>1
  <2>2. CASE readers[j] # NoOne
    <3>1. readers[j] \in Instances /\ Up(readers[j])
      BY <2>2, AllInitd
    <3>2. readers[j] # h /\ readers[j] \in sms
      BY <1>1, <1>3, <1>4, <3>1 DEF Up, Stages
    <3>3. Pio[readers[j]] # Pio[h]
      BY <1>2, <2>2, <3>1, <3>2, <1>1 DEF OnePerPio
    <3> QED
      BY <3>1, <3>2, <3>3
  <2> QED
    BY <2>1, <2>2
<1>5. \A j \in 1..i : readers[j] = NoOne \/ IsInitd(readers[j])
  <2>1. ASSUME NEW j \in 1..i PROVE j \in 1..ReadCount
    OBVIOUS
  <2> QED
    BY <2>1, AllInitd
<1>6. \A j \in 1..(i - 1) : readers[j] \notin S
  <2>1. ASSUME NEW j \in 1..(i - 1) PROVE j \in 1..ReadCount /\ j # i
    OBVIOUS
  <2> QED
    BY <1>4, <2>1
<1>7. readers[i] = h
  BY <1>3
<1> QED
  BY <1>3, <1>5, <1>6, <1>7 DEF Finds
\* hx711_multi__async_pio_irq_handler finds the one that waits.
LEMMA PioInv ==
  ASSUME AsMeant, InstancesInv, PioIrqHandler
  PROVE  InstancesInv'
<1>1. /\ TypeOK /\ OnePerPio /\ Stages /\ OneEntry /\ OwnLines /\ OwnReads /\ NoFault
      /\ srcs \in [Instances -> SUBSET Lines] /\ state \in [Instances -> States]
  BY TypeParts DEF InstancesInv
<1>2. PICK h \in Instances : Raises(h)
  BY DEF PioIrqHandler, PioInterrupts, Interrupted
<1>3. OwnRead(h)
  BY <1>1 DEF OwnReads
<1>4. state[h] = "waiting" /\ Running(h) /\ h \in en /\ h \in Used /\ Pio[h] \in flag
  BY <1>2, <1>3 DEF OwnRead, Raises, Running, ConversionDoneSource
<1>5. Finds(PioRequests, h)
  <2>1. h \in PioRequests
    BY <1>4 DEF PioRequests
  <2>2. NoOne \notin PioRequests
    BY DEF PioRequests
  <2>3. ASSUME NEW g \in Instances, g \in PioRequests PROVE Pio[g] = Pio[h]
    <3>1. PICK u \in Used : Pio[g] = Pio[u]
      BY <1>1, <2>3 DEF OwnReads, PioRequests
    <3> QED
      BY <1>4, <3>1, UsedFacts
  <2> QED
    BY <1>4, <2>1, <2>2, <2>3, SearchFinds
<1>6. PICK r \in Instances : PioServed(r)
  BY <1>4, <1>5 DEF PioIrqHandler, PioRequester
<1>7. /\ r \in en /\ state[r] = "waiting"
      /\ dma' = dma \cup {r} /\ dmaEn' = dmaEn \cup {r}
      /\ state' = [state EXCEPT ![r] = "reading"]
      /\ srcs' = [srcs EXCEPT ![r] = @ \ {ConversionDoneSource}]
      /\ UNCHANGED <<pc, cur, readers, sms, channels, handler, irqs, intr, en, flag, held, mut, fault>>
  BY <1>6 DEF PioServed, PioRequester, AsyncStartDma, setupVars
<1>8. TypeOK'
  <2>1. srcs' \in [Instances -> SUBSET Lines]
    BY <1>1, <1>7
  <2>2. state' \in [Instances -> States]
    BY <1>1, <1>7 DEF States
  <2>3. dma' \subseteq Instances /\ dmaEn' \subseteq Instances
    BY <1>1, <1>7, TypeParts
  <2> QED
    BY <1>1, <1>7, <2>1, <2>2, <2>3, TypeParts
<1>9. OnePerPio' /\ Stages' /\ OneEntry' /\ OwnLines'
  BY <1>1, <1>7, SetupStays
<1>10. ASSUME NEW g \in Instances PROVE OwnRead(g)'
  <2>1. OwnRead(g) /\ OwnRead(r)
    BY <1>1 DEF OwnReads
  <2>2. /\ (Up(g)' <=> Up(g)) /\ (Listed(g)' <=> Listed(g)) /\ (Initing' <=> Initing)
    BY <1>7 DEF Up, Listed, Initing
  <2>3. CASE g # r
    <3>1. srcs'[g] = srcs[g] /\ state'[g] = state[g]
      BY <1>1, <1>7, <2>3
    <3>2. (g \in dma' <=> g \in dma) /\ (g \in dmaEn' <=> g \in dmaEn)
      BY <1>7, <2>3
    <3>3. Running(g)' <=> Running(g)
      BY <3>1 DEF Running
    <3> QED
      BY <1>7, <2>1, <2>2, <3>1, <3>2, <3>3 DEF OwnRead
  <2>4. CASE g = r
    <3>1. Running(r) /\ ~Initing /\ Up(r)
      BY <1>7, <2>1 DEF OwnRead, Running
    <3>2. Listed(r)
      BY <1>1, <3>1 DEF Listed, Up, Stages
    <3>3. srcs'[r] = {} /\ state'[r] = "reading"
      BY <1>1, <1>7, <2>1 DEF OwnRead
    <3>4. Running(r)'
      BY <3>3 DEF Running
    <3> QED
      BY <1>7, <2>1, <2>2, <2>4, <3>1, <3>2, <3>3, <3>4 DEF OwnRead
  <2> QED
    BY <2>3, <2>4
<1> QED
  BY <1>1, <1>7, <1>8, <1>9, <1>10 DEF InstancesInv, OwnReads, NoFault

\* hx711_multi__async_dma_irq_handler finds the one whose transfer is over.
LEMMA DmaInv ==
  ASSUME AsMeant, InstancesInv, DmaIrqHandler
  PROVE  InstancesInv'
<1>1. /\ TypeOK /\ OnePerPio /\ Stages /\ OneEntry /\ OwnLines /\ OwnReads /\ NoFault
      /\ srcs \in [Instances -> SUBSET Lines] /\ state \in [Instances -> States]
  BY TypeParts DEF InstancesInv
<1>2. ASSUME NEW g \in DmaRequests
      PROVE  g \in Instances /\ state[g] = "reading" /\ Running(g) /\ g \in en /\ g \in Used
  BY <1>1 DEF DmaRequests, OwnReads, OwnRead, Running
<1>3. PICK h \in Instances : h \in DmaRequests
  BY DEF DmaIrqHandler, DmaInterrupts, Interrupted, DmaRequests
<1>4. Finds(DmaRequests, h)
  <2>1. NoOne \notin DmaRequests
    BY DEF DmaRequests
  <2>2. ASSUME NEW g \in Instances, g \in DmaRequests PROVE Pio[g] = Pio[h]
    <3>1. g \in Used /\ h \in Used
      BY <1>2, <1>3, <2>2
    <3> QED
      BY <3>1, UsedFacts
  <2> QED
    BY <1>2, <1>3, <2>1, <2>2, SearchFinds
<1>5. PICK r \in Instances : DmaServed(r)
  BY <1>2, <1>3, <1>4 DEF DmaIrqHandler, DmaRequester
<1>6. /\ state[r] = "reading"
      /\ state' = [state EXCEPT ![r] = "done"]
      /\ intr' = intr \ {r} /\ mut' = mut \ {r}
      /\ dma' = dma \ {r} /\ dmaEn' = dmaEn \ {r}
      /\ srcs' = [srcs EXCEPT ![r] = @ \ {ConversionDoneSource}]
      /\ UNCHANGED <<pc, cur, readers, sms, channels, handler, irqs, en, flag, held, fault>>
  BY <1>5 DEF DmaServed, DmaRequester, AsyncFinish, setupVars
<1>7. TypeOK'
  <2>1. srcs' \in [Instances -> SUBSET Lines]
    BY <1>1, <1>6
  <2>2. state' \in [Instances -> States]
    BY <1>1, <1>6 DEF States
  <2>3. /\ dma' \subseteq Instances /\ dmaEn' \subseteq Instances /\ intr' \subseteq Instances
        /\ mut' \subseteq Instances
    BY <1>1, <1>6, TypeParts
  <2> QED
    BY <1>1, <1>6, <2>1, <2>2, <2>3, TypeParts
<1>8. OnePerPio' /\ Stages' /\ OneEntry' /\ OwnLines'
  BY <1>1, <1>6, SetupStays
<1>9. ASSUME NEW g \in Instances PROVE OwnRead(g)'
  <2>1. OwnRead(g) /\ OwnRead(r)
    BY <1>1 DEF OwnReads
  <2>2. /\ (Up(g)' <=> Up(g)) /\ (Listed(g)' <=> Listed(g)) /\ (Initing' <=> Initing)
    BY <1>6 DEF Up, Listed, Initing
  <2>3. CASE g # r
    <3>1. srcs'[g] = srcs[g] /\ state'[g] = state[g]
      BY <1>1, <1>6, <2>3
    <3>2. /\ (g \in dma' <=> g \in dma) /\ (g \in dmaEn' <=> g \in dmaEn)
          /\ (g \in intr' <=> g \in intr) /\ (g \in mut' <=> g \in mut)
      BY <1>6, <2>3
    <3>3. Running(g)' <=> Running(g)
      BY <3>1 DEF Running
    <3> QED
      BY <1>6, <2>1, <2>2, <3>1, <3>2, <3>3 DEF OwnRead
  <2>4. CASE g = r
    <3>1. srcs'[r] = {} /\ state'[r] = "done"
      BY <1>1, <1>6, <2>1 DEF OwnRead
    <3>2. ~Running(r)'
      BY <3>1 DEF Running
    <3>3. r \notin dma' \cup intr' \cup mut' \cup dmaEn'
      BY <1>6
    <3> QED
      BY <1>6, <2>1, <2>2, <2>4, <3>1, <3>2, <3>3 DEF OwnRead
  <2> QED
    BY <2>3, <2>4
<1> QED
  BY <1>1, <1>6, <1>7, <1>8, <1>9 DEF InstancesInv, OwnReads, NoFault
-----------------------------------------------------------------------------
(* init. *)

\* One instance at most is there when another one is initialised, so that the
\* array has a free entry.
LEMMA FreeEntry ==
  ASSUME AsMeant, InstancesInv, NEW h \in Instances, InitBegins(h)
  PROVE  \E m \in 1..ReadCount :
           readers[m] = NoOne /\ readers' = [readers EXCEPT ![m] = h]
<1>1. /\ TypeOK /\ OnePerPio /\ OneEntry /\ cur = NoOne /\ 1 \in 1..ReadCount /\ 2 \in 1..ReadCount
      /\ readers \in [1..ReadCount -> Instances \cup {NoOne}]
  BY TypeParts DEF InstancesInv, InitBegins, AsMeant
<1>2. ASSUME NEW j \in 1..ReadCount, readers[j] # NoOne
      PROVE  /\ readers[j] \in Instances /\ readers[j] \in sms
             /\ \A i \in 1..ReadCount : readers[i] = readers[j] => i = j
  <2>1. readers[j] \in Instances
    BY <1>1, <1>2
  <2>2. Listed(readers[j])
    BY <1>1, <2>1 DEF OneEntry
  <2>3. readers[j] \in sms
    BY <1>1, <2>1, <2>2 DEF Listed
  <2>4. \E k \in 1..ReadCount : \A i \in 1..ReadCount : readers[i] = readers[j] <=> i = k
    BY <1>1, <2>1, <2>2 DEF OneEntry
  <2> QED
    BY <2>1, <2>3, <2>4
<1>3. readers[1] = NoOne \/ readers[2] = NoOne
  <2> SUFFICES ASSUME readers[1] # NoOne, readers[2] # NoOne PROVE FALSE
    OBVIOUS
  <2>1. /\ readers[1] \in Instances /\ readers[2] \in Instances /\ readers[1] # readers[2]
        /\ readers[1] \in sms /\ readers[2] \in sms
    BY <1>1, <1>2
  <2>2. Pio[readers[1]] # Pio[readers[2]]
    BY <1>1, <2>1 DEF OnePerPio
  <2>3. Pio[readers[1]] # Pio[h] /\ Pio[readers[2]] # Pio[h]
    BY <2>1 DEF InitBegins
  <2>4. Pio[readers[1]] \in 0..1 /\ Pio[readers[2]] \in 0..1 /\ Pio[h] \in 0..1
    BY <2>1, LineFacts
  <2> QED
    BY <2>2, <2>3, <2>4
<1>4. PICK m \in 1..ReadCount :
        readers[m] = NoOne /\ \A i \in 1..ReadCount : readers[i] = NoOne => m <= i
  <2>1. CASE readers[1] = NoOne
    BY <1>1, <2>1
  <2>2. CASE readers[1] # NoOne
    <3>1. \A i \in 1..ReadCount : readers[i] = NoOne => 2 <= i
      BY <2>2
    <3> QED
      BY <1>1, <1>3, <2>2, <3>1
  <2> QED
    BY <2>1, <2>2
<1> DEFINE free == {i \in 1..ReadCount : readers[i] = NoOne}
<1>5. readers' = [i \in 1..ReadCount |->
                    IF i \in free /\ \A j \in free : i <= j THEN h ELSE readers[i]]
  BY DEF InitBegins, AsyncAddReader
<1>6. ASSUME NEW i \in 1..ReadCount
      PROVE  (i \in free /\ \A j \in free : i <= j) <=> i = m
  <2>1. i = m => i \in free /\ \A j \in free : i <= j
    BY <1>4
  <2>2. i \in free /\ (\A j \in free : i <= j) => i = m
    <3> SUFFICES ASSUME i \in free, \A j \in free : i <= j PROVE i = m
      OBVIOUS
    <3>1. i <= m /\ m <= i
      BY <1>4
    <3> QED
      BY <3>1
  <2> QED
    BY <2>1, <2>2
<1>7. readers' = [i \in 1..ReadCount |-> IF i = m THEN h ELSE readers[i]]
  BY <1>5, <1>6
<1>8. readers' = [readers EXCEPT ![m] = h]
  BY <1>1, <1>7
<1> QED
  BY <1>4, <1>8

\* Nothing runs and nobody listens while an instance is initialised.
Quiet ==
  \A g \in Instances :
    ~Running(g) /\ srcs[g] = {} /\ g \notin dma \cup intr /\ (g \in mut => g = cur)

LEMMA InitIsQuiet ==
  ASSUME InstancesInv, \A g \in Instances : ~Running(g)
  PROVE  Quiet
BY DEF InstancesInv, OwnReads, OwnRead, Running, Quiet

LEMMA InitBeginsInv ==
  ASSUME AsMeant, InstancesInv, NEW h \in Instances, InitBegins(h)
  PROVE  InstancesInv'
<1>1. /\ TypeOK /\ OnePerPio /\ Stages /\ OneEntry /\ OwnLines /\ OwnReads /\ NoFault
      /\ pc = "idle" /\ cur = NoOne /\ pc' = "initPio" /\ cur' = h
      /\ \A g \in sms : Pio[g] # Pio[h]
      /\ \A g \in Instances : ~Running(g)
      /\ mut' = mut \cup {h} /\ state' = [state EXCEPT ![h] = "none"]
      /\ UNCHANGED <<sms, channels, handler, irqs, srcs, dmaEn, dma, intr, en, flag, held, fault>>
  BY TypeParts DEF InstancesInv, InitBegins, hwVars, AsMeant
<1>2. PICK m \in 1..ReadCount : readers[m] = NoOne /\ readers' = [readers EXCEPT ![m] = h]
  BY FreeEntry
<1>3. /\ state \in [Instances -> States] /\ h # NoOne /\ h \notin sms /\ h \notin channels
      /\ readers \in [1..ReadCount -> Instances \cup {NoOne}]
  BY <1>1, TypeParts DEF Stages
<1>4. Quiet
  BY <1>1, InitIsQuiet
<1>5. TypeOK'
  <2>1. state' \in [Instances -> States] /\ mut' \subseteq Instances
    BY <1>1, <1>3, TypeParts DEF States
  <2>2. readers' \in [1..ReadCount -> Instances \cup {NoOne}]
    BY <1>2, <1>3
  <2> QED
    BY <1>1, <1>3, <2>1, <2>2, TypeParts
<1>6. ASSUME NEW g \in Instances
      PROVE  /\ Up(g)' <=> Up(g)
             /\ Listed(g)' <=> Listed(g) \/ g = h
             /\ (Listed(g) => g # h) /\ Initing'
             /\ UtilDmaGetIrqn(g)' = UtilDmaGetIrqn(g)
             /\ UtilPioGetIrqFromIndex(g)' = UtilPioGetIrqFromIndex(g)
  BY <1>1, <1>3 DEF Up, Listed, Initing, UtilDmaGetIrqn, UtilPioGetIrqFromIndex
<1>7. OnePerPio'
  BY <1>1 DEF OnePerPio
<1>8. Stages'
  BY <1>1, <1>3 DEF Stages
<1>9. OneEntry'
  <2>1. ASSUME NEW g \in Instances, g # h
        PROVE  \A j \in 1..ReadCount : readers'[j] = g <=> readers[j] = g
    BY <1>2, <1>3, <2>1
  <2>2. \A j \in 1..ReadCount : readers[j] # h
    BY <1>1, <1>6 DEF OneEntry
  <2>3. \A j \in 1..ReadCount : readers'[j] = h <=> j = m
    BY <1>2, <1>3, <2>2
  <2> QED
    BY <1>1, <1>6, <2>1, <2>3 DEF OneEntry
<1>10. OwnLines'
  BY <1>1, <1>6 DEF OwnLines
<1>11. ASSUME NEW g \in Instances PROVE OwnRead(g)'
  <2>1. OwnRead(g)
    BY <1>1 DEF OwnReads
  <2>2. ~Running(g)'
    BY <1>1, <1>3 DEF Running
  <2> QED
    BY <1>1, <1>4, <1>6, <2>1, <2>2 DEF OwnRead, Quiet
<1> QED
  BY <1>1, <1>5, <1>7, <1>8, <1>9, <1>10, <1>11 DEF InstancesInv, OwnReads, NoFault

\* hx711_multi__init_pio and the claiming of the DMA channel.
LEMMA InitClaimsInv ==
  ASSUME AsMeant, InstancesInv, InitPio \/ InitDma
  PROVE  InstancesInv'
<1>1. /\ TypeOK /\ OnePerPio /\ Stages /\ OneEntry /\ OwnLines /\ OwnReads /\ NoFault
      /\ UNCHANGED <<cur, readers, handler, irqs, srcs, dmaEn, dma, intr, en, held, state, mut, fault>>
      /\ flag' \subseteq flag
      /\ \/ /\ pc = "initPio" /\ pc' = "initDma" /\ sms' = sms \cup {cur} /\ channels' = channels
         \/ /\ pc = "initDma" /\ pc' = "initDmaIrq" /\ sms' = sms /\ channels' = channels \cup {cur}
  BY DEF InstancesInv, InitPio, InitDma, PioInit, hwVars
<1>2. cur \in Instances /\ Initing
  BY <1>1, TypeParts DEF Initing
<1>3. TypeOK'
  BY <1>1, <1>2, TypeParts
<1>4. ASSUME NEW g \in Instances
      PROVE  /\ (Up(g)' <=> Up(g)) /\ (Listed(g)' <=> Listed(g)) /\ Initing'
             /\ UtilDmaGetIrqn(g)' = UtilDmaGetIrqn(g)
             /\ UtilPioGetIrqFromIndex(g)' = UtilPioGetIrqFromIndex(g)
  BY <1>1 DEF Up, Listed, Initing, UtilDmaGetIrqn, UtilPioGetIrqFromIndex
<1>5. OnePerPio' /\ Stages'
  BY <1>1, <1>2 DEF OnePerPio, Stages
<1>6. OneEntry' /\ OwnLines'
  BY <1>1, <1>4 DEF OneEntry, OwnLines
<1>7. ASSUME NEW g \in Instances PROVE OwnRead(g)'
  <2>1. OwnRead(g) /\ (Running(g)' <=> Running(g))
    BY <1>1 DEF OwnReads, Running
  <2> QED
    BY <1>1, <1>2, <1>4, <2>1 DEF OwnRead
<1> QED
  BY <1>1, <1>3, <1>5, <1>6, <1>7 DEF InstancesInv, OwnReads, NoFault

\* The first half of hx711_multi__init_irq.
LEMMA InitDmaIrqInv ==
  ASSUME AsMeant, InstancesInv, InitDmaIrq
  PROVE  InstancesInv'
<1>1. /\ TypeOK /\ OnePerPio /\ Stages /\ OneEntry /\ OwnLines /\ OwnReads /\ NoFault
      /\ pc = "initDmaIrq" /\ pc' = "initPioIrq"
      /\ dmaEn' = dmaEn \cup {cur}
      /\ handler' = [handler EXCEPT ![UtilDmaGetIrqn(cur)] = "dma"]
      /\ irqs' = irqs \cup {UtilDmaGetIrqn(cur)}
      /\ UNCHANGED <<cur, readers, sms, channels, srcs, dma, intr, en, flag, held, state, mut, fault>>
  BY DEF InstancesInv, InitDmaIrq, hwVars
<1>2. /\ cur \in Instances /\ Initing
      /\ handler \in [Lines -> {"none", "pio", "dma"}]
  BY <1>1, TypeParts DEF Initing
<1>3. TypeOK'
  <2>1. UtilDmaGetIrqn(cur) \in Lines
    BY <1>2, LineFacts
  <2>2. handler' \in [Lines -> {"none", "pio", "dma"}] /\ irqs' \subseteq Lines
    BY <1>1, <1>2, <2>1, TypeParts
  <2> QED
    BY <1>1, <1>2, <2>2, TypeParts
<1>4. ASSUME NEW g \in Instances
      PROVE  /\ (Up(g)' <=> Up(g)) /\ (Listed(g)' <=> Listed(g)) /\ Initing' /\ (g = cur => Listed(g))
             /\ UtilDmaGetIrqn(g)' = UtilDmaGetIrqn(g)
             /\ UtilPioGetIrqFromIndex(g)' = UtilPioGetIrqFromIndex(g)
  BY <1>1 DEF Up, Listed, Initing, UtilDmaGetIrqn, UtilPioGetIrqFromIndex
<1>5. OnePerPio' /\ Stages' /\ OneEntry'
  <2>1. OnePerPio' /\ Stages'
    BY <1>1 DEF OnePerPio, Stages
  <2>2. OneEntry'
    BY <1>1, <1>4 DEF OneEntry
  <2> QED
    BY <2>1, <2>2
<1>6. OwnLines'
  <2> SUFFICES ASSUME NEW g \in Instances
               PROVE  /\ Up(g) \/ cur = g =>
                           handler'[UtilDmaGetIrqn(g)] = "dma" /\ UtilDmaGetIrqn(g) \in irqs'
                      /\ Up(g) => /\ handler'[UtilPioGetIrqFromIndex(g)] = "pio"
                                  /\ UtilPioGetIrqFromIndex(g) \in irqs'
    BY <1>1, <1>4 DEF OwnLines
  <2>1. /\ UtilDmaGetIrqn(g) \in Lines /\ UtilPioGetIrqFromIndex(g) \in Lines
        /\ UtilPioGetIrqFromIndex(g) # UtilDmaGetIrqn(cur)
    BY <1>2, LineFacts
  <2> QED
    BY <1>1, <1>2, <2>1 DEF OwnLines
<1>7. ASSUME NEW g \in Instances PROVE OwnRead(g)'
  <2>1. OwnRead(g) /\ (Running(g)' <=> Running(g))
    BY <1>1 DEF OwnReads, Running
  <2> QED
    BY <1>1, <1>2, <1>4, <2>1 DEF OwnRead
<1> QED
  BY <1>1, <1>3, <1>5, <1>6, <1>7 DEF InstancesInv, OwnReads, NoFault

\* Its second half, with which init ends.
LEMMA InitPioIrqInv ==
  ASSUME AsMeant, InstancesInv, InitPioIrq
  PROVE  InstancesInv'
<1>1. /\ TypeOK /\ OnePerPio /\ Stages /\ OneEntry /\ OwnLines /\ OwnReads /\ NoFault
      /\ pc = "initPioIrq" /\ pc' = "idle" /\ cur' = NoOne
      /\ srcs' = [srcs EXCEPT ![cur] = @ \ {ConversionDoneSource}]
      /\ handler' = [handler EXCEPT ![UtilPioGetIrqFromIndex(cur)] = "pio"]
      /\ irqs' = irqs \cup {UtilPioGetIrqFromIndex(cur)}
      /\ mut' = mut \ {cur}
      /\ UNCHANGED <<readers, sms, channels, dmaEn, dma, intr, en, flag, held, state, fault>>
  BY DEF InstancesInv, InitPioIrq, hwVars
<1>2. /\ cur \in Instances /\ cur # NoOne /\ Initing
      /\ handler \in [Lines -> {"none", "pio", "dma"}] /\ srcs \in [Instances -> SUBSET Lines]
  BY <1>1, TypeParts DEF Initing
<1>3. Quiet
  BY <1>1, <1>2, InitIsQuiet DEF OwnReads, OwnRead
<1>4. cur \in sms /\ cur \in channels
  BY <1>1, <1>2 DEF Stages
<1>5. srcs' \in [Instances -> SUBSET Lines] /\ \A g \in Instances : srcs'[g] = {}
  BY <1>1, <1>2, <1>3 DEF Quiet
<1>6. TypeOK'
  <2>1. UtilPioGetIrqFromIndex(cur) \in Lines
    BY <1>2, LineFacts
  <2>2. handler' \in [Lines -> {"none", "pio", "dma"}] /\ irqs' \subseteq Lines
    BY <1>1, <1>2, <2>1, TypeParts
  <2> QED
    BY <1>1, <1>2, <1>5, <2>2, TypeParts
<1>7. ASSUME NEW g \in Instances
      PROVE  /\ Up(g)' <=> Up(g) \/ g = cur
             /\ (Listed(g)' <=> Listed(g))
             /\ UtilDmaGetIrqn(g)' = UtilDmaGetIrqn(g)
             /\ UtilPioGetIrqFromIndex(g)' = UtilPioGetIrqFromIndex(g)
  BY <1>1, <1>2, <1>4 DEF Up, Listed, Initing, UtilDmaGetIrqn, UtilPioGetIrqFromIndex
<1>8. OnePerPio' /\ Stages' /\ OneEntry'
  <2>1. OnePerPio'
    BY <1>1, <1>4 DEF OnePerPio
  <2>2. Stages'
    BY <1>1, <1>4 DEF Stages
  <2>3. OneEntry'
    BY <1>1, <1>7 DEF OneEntry
  <2> QED
    BY <2>1, <2>2, <2>3
<1>9. OwnLines'
  <2> SUFFICES ASSUME NEW g \in Instances, Up(g) \/ g = cur
               PROVE  /\ handler'[UtilDmaGetIrqn(g)] = "dma" /\ UtilDmaGetIrqn(g) \in irqs'
                      /\ handler'[UtilPioGetIrqFromIndex(g)] = "pio"
                      /\ UtilPioGetIrqFromIndex(g) \in irqs'
    BY <1>1, <1>7 DEF OwnLines
  <2>1. /\ UtilDmaGetIrqn(g) \in Lines /\ UtilPioGetIrqFromIndex(g) \in Lines
        /\ UtilDmaGetIrqn(g) # UtilPioGetIrqFromIndex(cur)
    BY <1>2, LineFacts
  <2> QED
    BY <1>1, <1>2, <2>1 DEF OwnLines
<1>10. ASSUME NEW g \in Instances PROVE OwnRead(g)'
  <2>1. OwnRead(g) /\ ~Running(g)'
    BY <1>1, <1>3 DEF OwnReads, Running, Quiet
  <2> QED
    BY <1>1, <1>3, <1>5, <1>7, <2>1 DEF OwnRead, Quiet
<1> QED
  BY <1>1, <1>6, <1>8, <1>9, <1>10 DEF InstancesInv, OwnReads, NoFault
-----------------------------------------------------------------------------
(* close. *)

\* What it does with interrupts off: the lines it disables are its own.
LEMMA CloseBeginsInv ==
  ASSUME AsMeant, InstancesInv, NEW h \in Instances, CloseBegins(h)
  PROVE  InstancesInv'
<1>1. /\ TypeOK /\ OnePerPio /\ Stages /\ OneEntry /\ OwnLines /\ OwnReads /\ NoFault
      /\ pc = "idle" /\ IsInitd(h) /\ h \notin mut /\ pc' = "release" /\ cur' = h
      /\ mut' = mut \cup {h} /\ dma' = dma \ {h} /\ dmaEn' = dmaEn \ {h}
      /\ irqs' = irqs \ {UtilPioGetIrqFromIndex(h), UtilDmaGetIrqn(h)}
      /\ srcs' = [srcs EXCEPT ![h] = @ \ {ConversionDoneSource}]
      /\ state' = [state EXCEPT ![h] = "none"]
      /\ UNCHANGED <<sms, channels, intr, en, flag, held, fault>>
  BY DEF InstancesInv, CloseBegins
<1>2. /\ readers' = [i \in 1..ReadCount |-> IF readers[i] = h THEN NoOne ELSE readers[i]]
      /\ handler' = [l \in Lines |->
                       IF l \in {UtilPioGetIrqFromIndex(h), UtilDmaGetIrqn(h)}
                          /\ handler[l] = "pio" THEN "none" ELSE handler[l]]
  BY DEF CloseBegins, AsyncRemoveReader, IrqRemoveHandlers
<1>3. /\ state \in [Instances -> States] /\ srcs \in [Instances -> SUBSET Lines]
      /\ readers \in [1..ReadCount -> Instances \cup {NoOne}]
      /\ handler \in [Lines -> {"none", "pio", "dma"}]
      /\ h # NoOne /\ cur = NoOne /\ h \in sms /\ h \in channels
  BY <1>1, TypeParts DEF IsInitd
<1>4. OwnRead(h) /\ ~Running(h) /\ srcs[h] = {} /\ h \notin dma \cup intr
  BY <1>1 DEF OwnReads, OwnRead, Running
<1>5. TypeOK'
  <2>1. srcs' \in [Instances -> SUBSET Lines]
    BY <1>1, <1>3
  <2>2. state' \in [Instances -> States]
    BY <1>1, <1>3 DEF States
  <2>3. readers' \in [1..ReadCount -> Instances \cup {NoOne}]
    BY <1>2, <1>3
  <2>4. handler' \in [Lines -> {"none", "pio", "dma"}]
    BY <1>2, <1>3
  <2>5. /\ dma' \subseteq Instances /\ dmaEn' \subseteq Instances /\ mut' \subseteq Instances
        /\ irqs' \subseteq Lines
    BY <1>1, TypeParts
  <2> QED
    BY <1>1, <1>3, <2>1, <2>2, <2>3, <2>4, <2>5, TypeParts
<1>6. ASSUME NEW g \in Instances
      PROVE  /\ Up(g)' <=> Up(g) /\ g # h
             /\ Listed(g)' <=> Listed(g) /\ g # h
             /\ Up(g) => g \in sms
             /\ ~Initing /\ ~Initing'
             /\ UtilDmaGetIrqn(g)' = UtilDmaGetIrqn(g)
             /\ UtilPioGetIrqFromIndex(g)' = UtilPioGetIrqFromIndex(g)
  BY <1>1, <1>3 DEF Up, Listed, Initing, Stages, UtilDmaGetIrqn, UtilPioGetIrqFromIndex
<1>7. OnePerPio' /\ Stages'
  BY <1>1, <1>3 DEF OnePerPio, Stages
<1>8. OneEntry'
  <2>1. ASSUME NEW g \in Instances, g # h
        PROVE  \A j \in 1..ReadCount : readers'[j] = g <=> readers[j] = g
    BY <1>2, <1>3, <2>1
  <2>2. \A j \in 1..ReadCount : readers'[j] # h
    BY <1>2, <1>3
  <2> QED
    BY <1>1, <1>6, <2>1, <2>2 DEF OneEntry
<1>9. OwnLines'
  <2> SUFFICES ASSUME NEW g \in Instances, Up(g), g # h
               PROVE  /\ handler'[UtilDmaGetIrqn(g)] = "dma" /\ UtilDmaGetIrqn(g) \in irqs'
                      /\ handler'[UtilPioGetIrqFromIndex(g)] = "pio"
                      /\ UtilPioGetIrqFromIndex(g) \in irqs'
    BY <1>1, <1>3, <1>6 DEF OwnLines
  <2>1. Pio[g] # Pio[h]
    BY <1>1, <1>3, <1>6 DEF OnePerPio
  <2>2. /\ UtilPioGetIrqFromIndex(g) \notin {UtilPioGetIrqFromIndex(h), UtilDmaGetIrqn(h)}
        /\ UtilDmaGetIrqn(g) \notin {UtilPioGetIrqFromIndex(h), UtilDmaGetIrqn(h)}
    BY <2>1, OtherLines
  <2>3. /\ handler'[UtilDmaGetIrqn(g)] = handler[UtilDmaGetIrqn(g)]
        /\ handler'[UtilPioGetIrqFromIndex(g)] = handler[UtilPioGetIrqFromIndex(g)]
    BY <1>2, <2>2, LineFacts
  <2> QED
    BY <1>1, <2>2, <2>3 DEF OwnLines
<1>10. ASSUME NEW g \in Instances PROVE OwnRead(g)'
  <2>1. OwnRead(g)
    BY <1>1 DEF OwnReads
  <2>2. CASE g # h
    <3>1. srcs'[g] = srcs[g] /\ state'[g] = state[g]
      BY <1>1, <1>3, <2>2
    <3>2. Running(g)' <=> Running(g)
      BY <3>1 DEF Running
    <3> QED
      BY <1>1, <1>3, <1>6, <2>1, <2>2, <3>1, <3>2 DEF OwnRead
  <2>3. CASE g = h
    <3>1. srcs'[h] = {} /\ state'[h] = "none"
      BY <1>1, <1>3, <1>4
    <3>2. ~Running(h)'
      BY <3>1 DEF Running
    <3> QED
      BY <1>1, <1>4, <2>1, <2>3, <3>1, <3>2 DEF OwnRead
  <2> QED
    BY <2>2, <2>3
<1> QED
  BY <1>1, <1>5, <1>7, <1>8, <1>9, <1>10 DEF InstancesInv, OwnReads, NoFault

\* What it does after it.
LEMMA ReleaseInv ==
  ASSUME AsMeant, InstancesInv, Release
  PROVE  InstancesInv'
<1>1. /\ TypeOK /\ OnePerPio /\ Stages /\ OneEntry /\ OwnLines /\ OwnReads /\ NoFault
      /\ pc = "release" /\ pc' = "idle" /\ cur' = NoOne
      /\ en' = en \ {cur} /\ sms' = sms \ {cur} /\ channels' = channels \ {cur}
      /\ mut' = mut \ {cur} /\ held' \subseteq Instances
      /\ UNCHANGED <<readers, handler, irqs, srcs, dmaEn, dma, intr, flag, state, fault>>
  BY StopFacts DEF InstancesInv, Release
<1>2. cur \in Instances /\ cur # NoOne
  BY <1>1, TypeParts
<1>3. TypeOK'
  BY <1>1, TypeParts
<1>4. ASSUME NEW g \in Instances
      PROVE  /\ (Up(g)' <=> Up(g)) /\ (Listed(g)' <=> Listed(g))
             /\ (g = cur => ~Up(g) /\ ~Listed(g)) /\ ~Initing /\ ~Initing'
             /\ (Running(g)' <=> Running(g))
             /\ UtilDmaGetIrqn(g)' = UtilDmaGetIrqn(g)
             /\ UtilPioGetIrqFromIndex(g)' = UtilPioGetIrqFromIndex(g)
  BY <1>1, <1>2 DEF Up, Listed, Initing, Running, UtilDmaGetIrqn, UtilPioGetIrqFromIndex
<1>5. OnePerPio'
  BY <1>1 DEF OnePerPio
<1>6. Stages'
  BY <1>1, <1>2 DEF Stages
<1>7. OneEntry'
  <2>1. readers' = readers /\ \A g \in Instances : Listed(g)' <=> Listed(g)
    BY <1>1, <1>4
  <2> QED
    BY <1>1, <2>1 DEF OneEntry
<1>8. OwnLines'
  BY <1>1, <1>2, <1>4 DEF OwnLines
<1>9. ASSUME NEW g \in Instances PROVE OwnRead(g)'
  <2>1. OwnRead(g)
    BY <1>1 DEF OwnReads
  <2> QED
    BY <1>1, <1>4, <2>1 DEF OwnRead
<1> QED
  BY <1>1, <1>3, <1>5, <1>6, <1>7, <1>8, <1>9 DEF InstancesInv, OwnReads, NoFault

-----------------------------------------------------------------------------
(* The theorems. *)

LEMMA InvStep ==
  ASSUME AsMeant, InstancesInv, [Next]_vars
  PROVE  InstancesInv'
<1>1. CASE UNCHANGED vars
  <2>1. /\ TypeOK /\ OnePerPio /\ Stages /\ OneEntry /\ OwnLines /\ OwnReads /\ NoFault
        /\ UNCHANGED <<pc, cur, readers, sms, channels, handler, irqs, srcs, dmaEn, dma, intr, en,
                       flag, held, state, mut, fault>>
    BY <1>1 DEF InstancesInv, vars, setupVars, hwVars
  <2>2. TypeOK'
    BY <2>1, TypeParts
  <2>3. OnePerPio' /\ Stages' /\ OneEntry' /\ OwnLines'
    BY <2>1, SetupStays
  <2>4. OwnReads' /\ NoFault'
    BY <2>1 DEF OwnReads, OwnRead, NoFault, Running, Initing, Listed, Up
  <2> QED
    BY <2>2, <2>3, <2>4 DEF InstancesInv
<1>2. CASE \E h \in Instances : InitBegins(h) \/ CloseBegins(h)
  BY <1>2, InitBeginsInv, CloseBeginsInv
<1>3. CASE \E h \in Used : PowerUp(h) \/ PowerDown(h) \/ AsyncStart(h)
  BY <1>3, PowerInv, StartInv
<1>4. CASE Continues
  BY <1>4, InitClaimsInv, InitDmaIrqInv, InitPioIrqInv, ReleaseInv DEF Continues
<1>5. CASE Handlers
  BY <1>5, PioInv, DmaInv DEF Handlers
<1>6. CASE \E h \in Instances : Hardware(h)
  BY <1>6, HardwareInv
<1> QED
  BY <1>1, <1>2, <1>3, <1>4, <1>5, <1>6 DEF Next, Calls

\* The inductive invariant holds in every state, for any number of instances of
\* which those that share a PIO take turns.
THEOREM InstancesInvariant ==
  ASSUME AsMeant
  PROVE  Spec => []InstancesInv
<1>1. Init => InstancesInv
  BY InitInv
<1>2. InstancesInv /\ [Next]_vars => InstancesInv'
  BY InvStep
<1> QED
  BY <1>1, <1>2, PTL DEF Spec

\* Every variable keeps its type.
THEOREM TypeCorrect ==
  ASSUME AsMeant
  PROVE  Spec => []TypeOK
<1>1. InstancesInv => TypeOK
  BY DEF InstancesInv
<1> QED
  BY <1>1, InstancesInvariant, PTL

\* The handlers find the instance that raised the interrupt, in the state they
\* expect, whatever was initialised and closed before (hx711_multi.c:254-292,
\* 361-388).
THEOREM HandlersFindInstances ==
  ASSUME AsMeant
  PROVE  Spec => []NoFault
<1>1. InstancesInv => NoFault
  BY DEF InstancesInv
<1> QED
  BY <1>1, InstancesInvariant, PTL

\* init and close of the others leave an instance its interrupts, its handlers and
\* its one entry in the array (hx711_multi.c:182-230, 579-616).
THEOREM OthersKeepTheirs ==
  ASSUME AsMeant
  PROVE  Spec => []KeepsItsOwn
<1>1. ASSUME InstancesInv, NEW h \in Instances, Up(h)
      PROVE  /\ IsInitd(h)
             /\ {UtilPioGetIrqFromIndex(h), UtilDmaGetIrqn(h)} \subseteq irqs
             /\ Cardinality({i \in 1..ReadCount : readers[i] = h}) = 1
  <2>1. Stages /\ OneEntry /\ OwnLines
    BY <1>1 DEF InstancesInv
  <2>2. h \in sms /\ h \in channels /\ Listed(h)
    BY <1>1, <2>1 DEF Stages, Up, Listed
  <2>3. PICK i \in 1..ReadCount : \A j \in 1..ReadCount : readers[j] = h <=> j = i
    BY <2>1, <2>2 DEF OneEntry
  <2>4. {j \in 1..ReadCount : readers[j] = h} = {i}
    BY <2>3
  <2>5. Cardinality({i}) = 1
    BY FS_Singleton
  <2> QED
    BY <1>1, <2>1, <2>2, <2>4, <2>5 DEF OwnLines, IsInitd
<1>2. InstancesInv => KeepsItsOwn
  BY <1>1 DEF KeepsItsOwn
<1> QED
  BY <1>2, InstancesInvariant, PTL

\* close leaves nothing of an instance that could disturb the next one
\* (hx711_multi.c:566-653).
THEOREM CloseLeavesNothing ==
  ASSUME AsMeant
  PROVE  Spec => []ClosedIsGone
<1>1. ASSUME InstancesInv, NEW h \in Instances, ~Up(h), cur # h
      PROVE  /\ h \notin Range(readers)
             /\ h \notin sms \cup en \cup dma \cup dmaEn \cup intr \cup mut
             /\ srcs[h] = {}
  <2>1. TypeOK /\ Stages /\ OneEntry /\ OwnRead(h)
    BY <1>1 DEF InstancesInv, OwnReads
  <2>2. h \notin sms /\ ~Listed(h)
    BY <1>1, <2>1 DEF Stages, Up, Listed
  <2>3. \A j \in 1..ReadCount : readers[j] # h
    BY <2>1, <2>2 DEF OneEntry
  <2>4. h \notin Range(readers)
    BY <2>1, <2>3, TypeParts DEF Range
  <2>5. ~Running(h)
    BY <1>1, <2>1 DEF OwnRead
  <2> QED
    BY <1>1, <2>1, <2>2, <2>4, <2>5 DEF OwnRead, Running
<1>2. InstancesInv => ClosedIsGone
  BY <1>1 DEF ClosedIsGone
<1> QED
  BY <1>2, InstancesInvariant, PTL

=============================================================================

---------------------------- MODULE Hx711_proofs ----------------------------
(***************************************************************************)
(* Proofs about Hx711 for any number of cores, any gain codes, any FIFO    *)
(* depth and any set of API functions in use: type correctness, GainOrder  *)
(* and SetGainPrompt.  All three follow from IInv, which is inductive.     *)
(***************************************************************************)
EXTENDS Hx711, SequenceFacts, TLAPS

USE ReaderAssumption, DriverAssumption, NoGainAssumption

-----------------------------------------------------------------------------
(* Calls and the mutex. *)

\* Where a call starts.
LEMMA FirstFacts ==
  ASSUME NEW o \in AllOps
  PROVE  /\ First(o) \in Labels \ {"idle", "enter", "put", "discard", "exit"}
         /\ o = "set_gain" => First(o) = "drain"
         /\ First(o) = "block" => o # "set_gain"
  BY DEF First, AllOps, Labels

\* The mutex and the control state change with the calls only.
LEMMA LockStep ==
  ASSUME TypeOK, MutexGuards, [Next]_vars
  PROVE  MutexGuards'
<1> USE DEF MutexGuards, InBody, TypeOK
<1>1. CASE UNCHANGED <<coreVars>>
  BY <1>1 DEF coreVars
<1>2. ASSUME NEW c \in Cores, Call(c) PROVE MutexGuards'
  BY <1>2 DEF Call, Goto
<1>3. ASSUME NEW c \in Cores, Enter(c) PROVE MutexGuards'
  BY <1>3, FirstFacts DEF Enter, Goto
<1>4. ASSUME NEW c \in Cores, Exit(c) PROVE MutexGuards'
  BY <1>4 DEF Exit, Goto
<1>5. ASSUME NEW c \in Cores,
             InitHw(c) \/ CloseHw(c) \/ PowerUp(c) \/ PowerDown(c)
             \/ DrainTx(c) \/ PutGain(c) \/ Discard(c) \/ GetBlocking(c)
             \/ Obtain(c) \/ TryFails(c) \/ TimeReached(c)
      PROVE  MutexGuards'
  BY <1>5 DEF InitHw, CloseHw, PowerUp, PowerDown, DrainTx, PutGain, Discard,
              GetBlocking, Obtain, TryFails, TimeReached, Goto
<1> QED
  BY <1>1, <1>2, <1>3, <1>4, <1>5 DEF Next, Reader, Body, ReaderBoot,
     ReaderBegin, ReaderPush, ReaderPull, ReaderPulse, ChipConvert, ChipSleep,
     vars, coreVars

\* The statements of set_gain follow one another, alone.
LEMMA SetGainStep ==
  ASSUME TypeOK, MutexGuards, SetGainSteps, [Next]_vars
  PROVE  SetGainSteps'
<1> USE DEF MutexGuards, SetGainSteps, InBody, AfterPut, TypeOK, SmTypeOK
<1>1. CASE ReaderBoot \/ ReaderPull
  BY <1>1 DEF ReaderBoot, ReaderPull, Boot, Pull, PullInto, coreVars, history
<1>2. CASE ReaderBegin \/ ReaderPush \/ ReaderPulse \/ ChipConvert \/ ChipSleep
  BY <1>2 DEF ReaderBegin, ReaderPush, ReaderPulse, ChipConvert, ChipSleep,
     Begin, Push, Pulse, Convert, Sleep, PushNoted, coreVars, history
<1>3. CASE UNCHANGED vars
  BY <1>3 DEF vars, smVars, coreVars, history
<1>4. ASSUME NEW c \in Cores, Call(c) \/ Exit(c) \/ TryFails(c) \/ TimeReached(c)
      PROVE  SetGainSteps'
  BY <1>4 DEF Call, Exit, TryFails, TimeReached, Goto, smVars, history
<1>5. ASSUME NEW c \in Cores, Enter(c) PROVE SetGainSteps'
  BY <1>5, FirstFacts DEF Enter, Goto, smVars, history
<1>6. ASSUME NEW c \in Cores,
             InitHw(c) \/ CloseHw(c) \/ PowerUp(c) \/ PowerDown(c)
      PROVE  SetGainSteps'
  BY <1>6 DEF InitHw, CloseHw, PowerUp, PowerDown, Goto, Prepare, Start,
     Stop, history
<1>7. ASSUME NEW c \in Cores, DrainTx(c) \/ PutGain(c) PROVE SetGainSteps'
  <2>1. CASE DrainTx(c)
    BY <2>1 DEF DrainTx, Goto, Drain
  <2>2. CASE PutGain(c)
    BY <2>2 DEF PutGain, Goto, Put, Requested
  <2> QED
    BY <1>7, <2>1, <2>2
<1>8. ASSUME NEW c \in Cores, Discard(c) \/ GetBlocking(c) \/ Obtain(c)
      PROVE  SetGainSteps'
  BY <1>8 DEF Discard, GetBlocking, Obtain, TryGetValue, Goto, Get, PopNoted
<1> QED
  BY <1>1, <1>2, <1>3, <1>4, <1>5, <1>6, <1>7, <1>8 DEF Next, Reader, Body


-----------------------------------------------------------------------------
(* Types. *)

LEMMA InitType == Init => TypeOK
<1> SUFFICES ASSUME Init PROVE TypeOK
  OBVIOUS
<1>1. chip \in Chips
  BY DEF Init, SmInit, Chips
<1>2. SmTypeOK
  <2>1. <<>> \in Seq(Gains) /\ <<>> \in Seq(Word) /\ Len(<<>>) = 0
    OBVIOUS
  <2>2. Len(<<>>) <= 1 /\ Len(<<>>) <= Depth
    BY <2>1
  <2>3. running \in BOOLEAN /\ held \in BOOLEAN /\ x \in Gains /\ phase \in Phases
    BY DEF Init, SmInit, Phases
  <2> QED
    BY <1>1, <2>1, <2>2, <2>3, Zenon DEF Init, SmInit, SmTypeOK
<1>3. /\ pc \in [Cores -> Labels]
      /\ op \in [Cores -> AllOps]
      /\ arg \in [Cores -> Gains]
  BY DEF Init, Labels, AllOps
<1>4. sure \in Seq(BOOLEAN) /\ Len(sure) = Len(rx)
  BY DEF Init, SmInit
<1>5. owed \in 0..2 /\ asked \in Gains \cup {NoGain} /\ mut \in Cores \cup {None}
  BY DEF Init
<1>6. initd \in BOOLEAN /\ sio \in BOOLEAN /\ prompt \in BOOLEAN
  BY Zenon DEF Init
<1> QED
  BY <1>2, <1>3, <1>4, <1>5, <1>6 DEF TypeOK

\* Every level the pin can be left at is a level.
LEMMA LatchType ==
  ASSUME TypeOK, NEW l \in LatchAfterStop PROVE l \in BOOLEAN
  BY DEF LatchAfterStop, TypeOK, SmTypeOK

\* A chip that is woken, or was awake, is a chip that is on.
LEMMA WokenType ==
  ASSUME TypeOK, NEW c \in Woken(chip)
  PROVE  /\ c \in Chips /\ c.on
         /\ chip.on => c = chip
         /\ ~chip.on => c.frame = "converting"
<1> USE DEF TypeOK, SmTypeOK, Chips
<1>1. CASE chip.on
  BY <1>1 DEF Woken
<1>2. CASE ~chip.on
  <2>1. PICK g \in {chip.gain, GainPulses(DefaultGain)} :
          c = [on |-> TRUE, gain |-> g, frame |-> "converting"]
    BY <1>2 DEF Woken
  <2>2. g \in PulseCounts
    BY DEF PulseCounts
  <2> QED
    BY <1>2, <2>1, <2>2
<1> QED
  BY <1>1, <1>2

\* The pulse of hx711_init leaves a chip, and one that is on if it was.
LEMMA PreparedType ==
  ASSUME TypeOK, Prepare
  PROVE  chip' \in Chips /\ (chip.on => chip'.on)
<1>1. CASE ~held
  BY <1>1 DEF Prepare, Pulsed, TypeOK, SmTypeOK
<1>2. CASE held
  <2>1. PICK d \in Woken(chip) :
          chip' = [d EXCEPT !.frame = IF @ = "ready" THEN "clocked" ELSE @]
    BY <1>2 DEF Prepare, Pulsed
  <2>2. d \in Chips /\ d.on
    BY WokenType
  <2> QED
    BY <2>1, <2>2 DEF Chips
<1> QED
  BY <1>1, <1>2

\* `pull noblock; out x` leaves a gain code in x.
LEMMA PullType ==
  ASSUME TypeOK, NEW d \in Gains, PullInto(d)
  PROVE  x' \in Gains /\ tx' \in Seq(Gains) /\ Len(tx') <= 1
<1>1. CASE tx = <<>>
  BY <1>1 DEF PullInto, TypeOK, SmTypeOK
<1>2. CASE tx # <<>>
  BY <1>2, TailFacts DEF PullInto, TypeOK, SmTypeOK
<1> QED
  BY <1>1, <1>2

\* The gain pulses leave the chip converting, with the gain of x if it was
\* being clocked out.
LEMMA PulseType ==
  ASSUME TypeOK, Pulse
  PROVE  /\ chip' \in Chips /\ chip'.on = chip.on
         /\ chip'.frame = "converting"
         /\ chip.frame = "clocked" => chip'.gain = GainPulses(x)
<1> USE DEF TypeOK, SmTypeOK, Chips
<1>1. CASE chip.frame = "converting"
  BY <1>1 DEF Pulse
<1>3. GainPulses(x) \in PulseCounts
  BY DEF PulseCounts
<1>2. ASSUME NEW g \in PulseCounts,
             chip.frame # "converting" /\ (chip.frame = "clocked" => g = GainPulses(x)),
             chip' = [chip EXCEPT !.frame = "converting", !.gain = g]
      PROVE  /\ chip' \in Chips /\ chip'.on = chip.on
             /\ chip'.frame = "converting"
             /\ chip.frame = "clocked" => chip'.gain = GainPulses(x)
  BY <1>2
<1> QED
  BY <1>1, <1>2, <1>3, Zenon DEF Pulse

\* A read takes the oldest word, if there is one, and its history with it.
LEMMA PopType ==
  ASSUME TypeOK, Get, PopNoted
  PROVE  /\ rx' \in Seq(Word) /\ sure' \in Seq(BOOLEAN)
         /\ Len(sure') = Len(rx') /\ Len(rx') <= Len(rx) /\ Len(rx') <= Depth
         /\ rx # <<>> => Len(rx') = Len(rx) - 1
         /\ DOMAIN rx' = 1..Len(rx') /\ DOMAIN sure' = 1..Len(rx')
         /\ rx # <<>> => \A i \in 1..Len(rx') : /\ i + 1 \in 1..Len(rx)
                                               /\ rx'[i] = rx[i + 1]
                                               /\ sure'[i] = sure[i + 1]
<1> USE DEF TypeOK, SmTypeOK
<1>1. CASE rx = <<>>
  BY <1>1 DEF Get, PopNoted
<1>2. CASE rx # <<>>
  <2>1. sure # <<>>
    BY <1>2
  <2>2. rx' = Tail(rx) /\ sure' = Tail(sure)
    BY <1>2 DEF Get, PopNoted
  <2>3. /\ Tail(rx) \in Seq(Word) /\ Len(rx) \in Nat \ {0}
        /\ Len(Tail(rx)) = Len(rx) - 1
        /\ DOMAIN Tail(rx) = 1..(Len(rx) - 1)
        /\ \A i \in 1..(Len(rx) - 1) : Tail(rx)[i] = rx[i + 1]
    BY <1>2, TailFacts
  <2>4. /\ Tail(sure) \in Seq(BOOLEAN)
        /\ Len(Tail(sure)) = Len(sure) - 1
        /\ DOMAIN Tail(sure) = 1..(Len(sure) - 1)
        /\ \A i \in 1..(Len(sure) - 1) : Tail(sure)[i] = sure[i + 1]
    BY <2>1, TailFacts
  <2> HIDE DEF TypeOK, SmTypeOK
  <2>5. Len(sure) = Len(rx) /\ Len(rx) <= Depth
    BY DEF TypeOK, SmTypeOK
  <2> QED
    BY <1>2, <2>2, <2>3, <2>4, <2>5
<1> QED
  BY <1>1, <1>2

\* Every variable keeps to its set.
LEMMA TypeStep ==
  ASSUME TypeOK, MutexGuards, SetGainSteps, [Next]_vars
  PROVE  TypeOK'
<1> USE DEF TypeOK, SmTypeOK, Phases, Labels
<1>1. CASE ReaderBoot \/ ReaderPull
  <2>1. x' \in Gains /\ tx' \in Seq(Gains) /\ Len(tx') <= 1
    BY <1>1, PullType DEF ReaderBoot, ReaderPull, Boot, Pull
  <2> QED
    BY <1>1, <2>1 DEF ReaderBoot, ReaderPull, Boot, Pull, coreVars, history
<1>2. CASE ReaderBegin
  <2>1. chip' \in Chips
    BY <1>2 DEF ReaderBegin, Begin, Chips
  <2>2. owed' \in 0..2
    BY <1>2 DEF ReaderBegin
  <2>3. prompt' \in BOOLEAN /\ held' \in BOOLEAN
    BY <1>2 DEF ReaderBegin, Begin
  <2> QED
    BY <1>2, <2>1, <2>2, <2>3 DEF ReaderBegin, Begin, coreVars
<1>3. CASE ReaderPush
  <2>1. [gain |-> chip.gain, whole |-> chip.frame = "clocked"] \in Word
    BY DEF Word, Chips
  <2>2. chip' \in Chips
    BY <1>3, WokenType DEF ReaderPush, Push
  <2>3. rx' \in Seq(Word) /\ Len(rx') = Len(rx) + 1 /\ Len(rx') <= Depth
    BY <1>3, <2>1, AppendFacts DEF ReaderPush, Push
  <2>4. sure' \in Seq(BOOLEAN) /\ Len(sure') = Len(sure) + 1
    BY <1>3, AppendFacts DEF ReaderPush, PushNoted
  <2>5. owed' \in 0..2
    BY <1>3 DEF ReaderPush, PushNoted
  <2> QED
    BY <1>3, <2>2, <2>3, <2>4, <2>5 DEF ReaderPush, Push, PushNoted, coreVars
<1>4. CASE ReaderPulse
  BY <1>4, PulseType DEF ReaderPulse, Pulse, coreVars, history
<1>5. CASE ChipConvert
  BY <1>5 DEF ChipConvert, Convert, Chips, coreVars, history
<1>6. CASE ChipSleep
  BY <1>6 DEF ChipSleep, Sleep, Chips, coreVars
<1>7. CASE UNCHANGED vars
  BY <1>7 DEF vars, smVars, coreVars, history
<1>8. ASSUME NEW c \in Cores, Call(c) PROVE TypeOK'
  BY <1>8 DEF Call, Goto, smVars, history
<1>9. ASSUME NEW c \in Cores, Enter(c) \/ Exit(c) \/ TryFails(c) \/ TimeReached(c)
      PROVE  TypeOK'
  BY <1>9, FirstFacts DEF Enter, Exit, TryFails, TimeReached, Goto, smVars, history
<1>10. ASSUME NEW c \in Cores, CloseHw(c) \/ PowerDown(c) PROVE TypeOK'
  BY <1>10, LatchType DEF CloseHw, PowerDown, Goto, Stop, history
<1>11. ASSUME NEW c \in Cores, InitHw(c) \/ PowerUp(c) PROVE TypeOK'
  <2>1. /\ rx' = <<>> /\ sure' = <<>>
        /\ tx' = <<>> \/ tx' = <<arg[c]>>
    BY <1>11, Zenon DEF InitHw, PowerUp, Prepare, Start
  <2>2. /\ rx' \in Seq(Word) /\ Len(rx') <= Depth
        /\ sure' \in Seq(BOOLEAN) /\ Len(sure') = Len(rx')
    BY <2>1
  <2>0. tx' \in Seq(Gains) /\ Len(tx') <= 1
    <3>1. arg[c] \in Gains
      OBVIOUS
    <3>2. <<>> \in Seq(Gains) /\ Len(<<>>) <= 1
      OBVIOUS
    <3>3. <<arg[c]>> \in Seq(Gains) /\ Len(<<arg[c]>>) <= 1
      BY <3>1
    <3> QED
      BY <2>1, <3>2, <3>3, Zenon
  <2>3. CASE InitHw(c)
    BY <2>0, <2>2, <2>3, PreparedType DEF InitHw, Goto, Prepare
  <2>4. CASE PowerUp(c)
    <3>1. held' \in BOOLEAN /\ prompt' \in BOOLEAN /\ sio' \in BOOLEAN
      BY <2>4, LatchType, Zenon DEF PowerUp, Start
    <3> QED
      BY <2>0, <2>2, <2>4, <3>1 DEF PowerUp, Goto, Start
  <2> QED
    BY <1>11, <2>3, <2>4
<1>12. ASSUME NEW c \in Cores, DrainTx(c) \/ PutGain(c) PROVE TypeOK'
  <2>1. tx' \in Seq(Gains) /\ Len(tx') <= 1
    <3>1. PutGain(c) => tx = <<>>
      BY DEF PutGain, SetGainSteps
    <3>2. tx' = <<>> \/ (tx = <<>> /\ tx' = Append(tx, arg[c]))
      BY <1>12, <3>1, Zenon DEF DrainTx, PutGain, Drain, Put
    <3>3. <<>> \in Seq(Gains) /\ Len(<<>>) <= 1 /\ arg[c] \in Gains
      OBVIOUS
    <3>4. tx = <<>> => /\ Append(tx, arg[c]) \in Seq(Gains)
                       /\ Len(Append(tx, arg[c])) <= 1
      BY <3>3, AppendFacts
    <3> QED
      BY <3>2, <3>3, <3>4, Zenon
  <2>2. Nothing \in Seq(BOOLEAN) /\ Len(Nothing) = Len(rx)
    BY DEF Nothing
  <2>3. OwedAtPut \in 0..2
    BY DEF OwedAtPut
  <2>4. prompt' \in BOOLEAN
    BY <1>12, Zenon DEF DrainTx, PutGain, Requested
  <2>5. /\ sure' = Nothing /\ rx' = rx /\ owed' \in 0..2
        /\ asked' \in Gains \cup {NoGain}
    BY <1>12, <2>3 DEF DrainTx, PutGain, Drain, Put, Requested
  <2> QED
    BY <1>12, <2>1, <2>2, <2>4, <2>5 DEF DrainTx, PutGain, Goto, Drain, Put
<1>13. ASSUME NEW c \in Cores, Discard(c) \/ GetBlocking(c) \/ Obtain(c)
       PROVE  TypeOK'
  <2>1. Get /\ PopNoted
    BY <1>13 DEF Discard, GetBlocking, Obtain, TryGetValue
  <2>2. /\ rx' \in Seq(Word) /\ Len(rx') <= Depth
        /\ sure' \in Seq(BOOLEAN) /\ Len(sure') = Len(rx')
    BY <2>1, PopType
  <2> QED
    BY <1>13, <2>1, <2>2 DEF Discard, GetBlocking, Obtain, Goto, Get, PopNoted
<1> QED
  BY <1>1, <1>2, <1>3, <1>4, <1>5, <1>6, <1>7, <1>8, <1>9, <1>10, <1>11, <1>12,
     <1>13
     DEF Next, Reader, Body


-----------------------------------------------------------------------------
(* The reader and the request. *)

\* Steps of a core that touch neither the request nor the SM's own state; the
\* FIFO with its history either stays or loses its oldest word.
Quiet(c) ==
  Call(c) \/ Enter(c) \/ Exit(c) \/ TryFails(c) \/ TimeReached(c)
  \/ Discard(c) \/ GetBlocking(c) \/ Obtain(c)

LEMMA QuietSteps ==
  ASSUME NEW c \in Cores, Quiet(c) \/ UNCHANGED vars
  PROVE  /\ UNCHANGED <<running, phase, x, tx, chip, asked, owed, prompt>>
         /\ UNCHANGED <<rx, sure>> \/ (Get /\ PopNoted)
  BY DEF Quiet, Call, Enter, Exit, TryFails, TimeReached, Discard, GetBlocking,
         Obtain, TryGetValue, Get, PopNoted, vars, smVars, coreVars, history

\* Next, with the quiet steps put together.
LEMMA NextCases ==
  ASSUME [Next]_vars
  PROVE  \/ ReaderBoot \/ ReaderBegin \/ ReaderPush \/ ReaderPull \/ ReaderPulse
         \/ ChipConvert \/ ChipSleep \/ UNCHANGED vars
         \/ \E c \in Cores : \/ Quiet(c)
                            \/ InitHw(c) \/ CloseHw(c) \/ PowerUp(c) \/ PowerDown(c)
                            \/ DrainTx(c) \/ PutGain(c)
  BY DEF Next, Reader, Body, Quiet

\* A frame the SM has begun is being clocked out until its last bit.
LEMMA ShiftStep ==
  ASSUME TypeOK, ShiftClocks, [Next]_vars
  PROVE  ShiftClocks'
<1> USE DEF ShiftClocks, TypeOK, SmTypeOK, Chips
<1>1. CASE ReaderBoot \/ ReaderPull \/ ReaderPush \/ ReaderPulse
  BY <1>1 DEF ReaderBoot, ReaderPull, ReaderPush, ReaderPulse, Boot, Pull, Push, Pulse
<1>2. CASE ReaderBegin
  BY <1>2 DEF ReaderBegin, Begin
<1>3. CASE ChipConvert \/ ChipSleep
  BY <1>3 DEF ChipConvert, ChipSleep, Convert, Sleep
<1>4. ASSUME NEW c \in Cores, Quiet(c) \/ UNCHANGED vars PROVE ShiftClocks'
  BY <1>4, QuietSteps
<1>5. ASSUME NEW c \in Cores,
             InitHw(c) \/ CloseHw(c) \/ PowerUp(c) \/ PowerDown(c)
             \/ DrainTx(c) \/ PutGain(c)
      PROVE  ShiftClocks'
  BY <1>5 DEF InitHw, CloseHw, PowerUp, PowerDown, DrainTx, PutGain, Prepare,
     Start, Stop, Drain, Put
<1>6. CASE UNCHANGED vars
  BY <1>6 DEF vars, smVars
<1> QED
  BY <1>1, <1>2, <1>3, <1>4, <1>5, <1>6, NextCases

\* While no request stands, no word counts as covered by one.
LEMMA NothingStep ==
  ASSUME TypeOK, NothingAsked, [Next]_vars
  PROVE  NothingAsked'
<1> USE DEF NothingAsked, TypeOK, SmTypeOK
<1>1. CASE ReaderBoot \/ ReaderPull \/ ReaderPulse \/ ChipConvert
  BY <1>1 DEF ReaderBoot, ReaderPull, ReaderPulse, ChipConvert, history
<1>2. CASE ReaderBegin \/ ChipSleep
  BY <1>2 DEF ReaderBegin, ChipSleep
<1>3. CASE ReaderPush
  <2> DEFINE v == (asked # NoGain /\ owed = 0)
  <2>1. sure' = Append(sure, v) /\ asked' = asked
    BY <1>3 DEF ReaderPush, PushNoted
  <2>2. v \in BOOLEAN /\ (asked = NoGain => ~v)
    OBVIOUS
  <2> HIDE DEF v
  <2>3. /\ Len(sure) \in Nat
        /\ DOMAIN sure' = 1..(Len(sure) + 1) /\ DOMAIN sure = 1..Len(sure)
        /\ \A i \in 1..Len(sure) : sure'[i] = sure[i]
        /\ sure'[Len(sure) + 1] = v
    BY <2>1, <2>2, AppendFacts
  <2> QED
    BY <2>1, <2>2, <2>3
<1>4. ASSUME NEW c \in Cores, Quiet(c) PROVE NothingAsked'
  <2>1. CASE UNCHANGED <<rx, sure>>
    BY <1>4, <2>1, QuietSteps
  <2>2. CASE Get /\ PopNoted
    <3>1. CASE rx = <<>>
      BY <2>2, <3>1 DEF PopNoted
    <3>2. CASE rx # <<>>
      BY <2>2, <3>2, PopType DEF PopNoted
    <3> QED BY <3>1, <3>2
  <2> QED
    BY <1>4, <2>1, <2>2, QuietSteps
<1>5. ASSUME NEW c \in Cores, InitHw(c) \/ PowerUp(c) PROVE NothingAsked'
  BY <1>5 DEF InitHw, PowerUp
<1>6. ASSUME NEW c \in Cores, CloseHw(c) \/ PowerDown(c) PROVE NothingAsked'
  BY <1>6 DEF CloseHw, PowerDown, history
<1>7. ASSUME NEW c \in Cores, DrainTx(c) \/ PutGain(c) PROVE NothingAsked'
  BY <1>7 DEF DrainTx, PutGain, Requested, Nothing
<1>8. CASE UNCHANGED vars
  BY <1>8 DEF vars, history
<1> QED
  BY <1>1, <1>2, <1>3, <1>4, <1>5, <1>6, <1>7, <1>8, NextCases

\* Words that are covered have the gain, because a word that is not owed was
\* converted with it and is whole.
LEMMA GainOrderStep ==
  ASSUME TypeOK, NothingAsked, RequestPending, ShiftClocks, GainOrder, [Next]_vars
  PROVE  GainOrder'
<1> USE DEF GainOrder
<1>1. CASE ReaderBoot \/ ReaderPull \/ ReaderPulse
  BY <1>1 DEF ReaderBoot, ReaderPull, ReaderPulse, Boot, Pull, Pulse, history
<1>2. CASE ReaderBegin \/ ChipSleep
  BY <1>2 DEF ReaderBegin, ChipSleep, Begin, Sleep
<1>3. CASE ChipConvert
  BY <1>3 DEF ChipConvert, Convert, history
<1>4. CASE ReaderPush
  <2> DEFINE w == [gain |-> chip.gain, whole |-> chip.frame = "clocked"]
             v == (asked # NoGain /\ owed = 0)
             n == Len(rx)
  <2>1. /\ rx' = Append(rx, w) /\ sure' = Append(sure, v) /\ asked' = asked
        /\ running /\ phase = "shift"
    BY <1>4 DEF ReaderPush, Push, PushNoted
  <2>2. /\ w \in Word /\ v \in BOOLEAN
        /\ rx \in Seq(Word) /\ sure \in Seq(BOOLEAN) /\ Len(sure) = n
    BY DEF TypeOK, SmTypeOK, Chips, Word
  <2>3. v => w.gain = GainPulses(asked) /\ w.whole
    <3>1. asked # NoGain /\ owed = 0 => chip.gain = GainPulses(asked) /\ chip.frame = "clocked"
      BY <2>1 DEF RequestPending, ShiftClocks
    <3> QED
      BY <3>1
  <2> HIDE DEF w, v
  <2>4. /\ DOMAIN rx' = 1..(n + 1) /\ n \in Nat /\ DOMAIN rx = 1..n
        /\ \A i \in 1..n : rx'[i] = rx[i]
        /\ rx'[n + 1] = w
    BY <2>1, <2>2, AppendFacts
  <2>5. /\ \A i \in 1..n : sure'[i] = sure[i]
        /\ sure'[n + 1] = v
    BY <2>1, <2>2, AppendFacts
  <2> SUFFICES ASSUME NEW i \in 1..(n + 1), sure'[i]
               PROVE  rx'[i].gain = GainPulses(asked) /\ rx'[i].whole
    BY <2>1, <2>4
  <2>6. CASE i = n + 1
    BY <2>3, <2>4, <2>5, <2>6
  <2>7. CASE i \in 1..n
    BY <2>4, <2>5, <2>7
  <2> QED
    BY <2>4, <2>6, <2>7
<1>5. ASSUME NEW c \in Cores, Quiet(c) PROVE GainOrder'
  <2>1. CASE UNCHANGED <<rx, sure>>
    BY <1>5, <2>1, QuietSteps
  <2>2. CASE Get /\ PopNoted
    <3>1. CASE rx = <<>>
      BY <2>2, <3>1 DEF Get, PopNoted
    <3>2. CASE rx # <<>>
      <4>1. DOMAIN rx = 1..Len(rx)
        BY DEF TypeOK, SmTypeOK
      <4> QED
        BY <2>2, <3>2, <4>1, PopType DEF PopNoted
    <3> QED BY <3>1, <3>2
  <2> QED
    BY <1>5, <2>1, <2>2, QuietSteps
<1>6. ASSUME NEW c \in Cores, InitHw(c) \/ PowerUp(c) PROVE GainOrder'
  BY <1>6 DEF InitHw, PowerUp, Prepare, Start
<1>7. ASSUME NEW c \in Cores, CloseHw(c) \/ PowerDown(c) PROVE GainOrder'
  BY <1>7 DEF CloseHw, PowerDown, Stop, history
<1>8. ASSUME NEW c \in Cores, DrainTx(c) \/ PutGain(c) PROVE GainOrder'
  <2>1. rx' = rx /\ sure' = Nothing
    BY <1>8 DEF DrainTx, PutGain, Drain, Put, Requested
  <2>2. DOMAIN rx = 1..Len(rx)
    BY DEF TypeOK, SmTypeOK
  <2> QED
    BY <2>1, <2>2 DEF Nothing
<1>9. CASE UNCHANGED vars
  BY <1>9 DEF vars, smVars, history
<1> QED
  BY <1>1, <1>2, <1>3, <1>4, <1>5, <1>6, <1>7, <1>8, <1>9, NextCases


\* The request goes from the FIFO to x to the chip and is not lost on the way.
LEMMA RequestStep ==
  ASSUME TypeOK, SetGainSteps, RequestPending, ShiftClocks, [Next]_vars
  PROVE  RequestPending'
<1> USE DEF RequestPending, RequestKept
<1>1. CASE ReaderBoot \/ ReaderPull
  <2>1. /\ running' = running /\ chip' = chip
        /\ asked' = asked /\ owed' = owed
        /\ \/ phase = "boot" /\ phase' = "wait"
           \/ phase = "pull" /\ phase' = "gain"
    BY <1>1 DEF ReaderBoot, ReaderPull, Boot, Pull, history
  <2>2. /\ x' = IF tx = <<>> THEN (IF phase = "boot" THEN DefaultGain ELSE x)
                 ELSE Head(tx)
        /\ tx' = IF tx = <<>> THEN tx ELSE Tail(tx)
    BY <1>1 DEF ReaderBoot, ReaderPull, Boot, Pull, PullInto
  <2>3. Head(<<asked>>) = asked /\ Tail(<<asked>>) = <<>> /\ <<asked>> # <<>>
    OBVIOUS
  <2>4. running /\ asked # NoGain => tx' = <<>> /\ x' = asked
    BY <2>1, <2>2, <2>3
  <2>5. running /\ asked # NoGain /\ phase = "boot" => owed > 0
    OBVIOUS
  <2>6. owed \in 0..2
    BY DEF TypeOK
  <2> QED
    BY <2>1, <2>4, <2>5, <2>6
<1>2. CASE ReaderBegin
  BY <1>2 DEF ReaderBegin, Begin, TypeOK, SmTypeOK, Chips
<1>3. CASE ReaderPush
  <2>1. /\ running /\ phase = "shift" /\ phase' = "pull" /\ running' = running
        /\ x' = x /\ tx' = tx /\ asked' = asked
        /\ owed' = (IF owed = 0 THEN 0 ELSE owed - 1) + (IF chip.on THEN 0 ELSE 1)
    BY <1>3 DEF ReaderPush, Push, PushNoted
  <2>2. chip.on => chip' = chip
    BY <1>3, WokenType DEF ReaderPush, Push
  <2>3. owed \in 0..2
    BY DEF TypeOK
  <2>4. chip.frame \in {"clocked", "torn"}
    BY <2>1 DEF ShiftClocks
  <2> QED
    BY <2>1, <2>2, <2>3, <2>4
<1>4. CASE ReaderPulse
  BY <1>4, PulseType DEF ReaderPulse, Pulse, history
<1>5. CASE ChipConvert
  BY <1>5 DEF ChipConvert, Convert, history, TypeOK, SmTypeOK, Chips, Phases
<1>6. CASE ChipSleep
  BY <1>6 DEF ChipSleep, Sleep, TypeOK, SmTypeOK, Chips
<1>7. ASSUME NEW c \in Cores, Quiet(c) PROVE RequestPending'
  BY <1>7, QuietSteps
<1>8. ASSUME NEW c \in Cores, InitHw(c) \/ CloseHw(c) \/ PowerDown(c) \/ DrainTx(c)
      PROVE  RequestPending'
  BY <1>8 DEF InitHw, CloseHw, PowerDown, DrainTx, Stop
<1>9. ASSUME NEW c \in Cores, PowerUp(c) PROVE RequestPending'
  BY <1>9 DEF PowerUp, Start
<1>10. ASSUME NEW c \in Cores, PutGain(c) PROVE RequestPending'
  <2>1. /\ tx = <<>> /\ tx' = Append(tx, arg[c]) /\ asked' = arg[c]
        /\ owed' = OwedAtPut
        /\ UNCHANGED <<running, phase, x, chip>>
    BY <1>10 DEF PutGain, Put, Requested, SetGainSteps
  <2>2. tx' = <<asked'>>
    BY <2>1
  <2> QED
    BY <2>1, <2>2 DEF OwedAtPut, TypeOK, SmTypeOK, Phases
<1>11. CASE UNCHANGED vars
  BY <1>11 DEF vars, smVars, history
<1> QED
  BY <1>1, <1>2, <1>3, <1>4, <1>5, <1>6, <1>7, <1>8, <1>9, <1>10, <1>11, NextCases


-----------------------------------------------------------------------------
(* set_gain reads away what it promised to. *)

\* In a set_gain that nothing upset, the uncovered words stay within the reads
\* that are left.
LEMMA PromptStep ==
  ASSUME TypeOK, MutexGuards, SetGainSteps, PromptStill, [Next]_vars, MutexGuards'
  PROVE  PromptStill'
<1> DEFINE Ok(c) == /\ owed <= 1 /\ owed <= ReadsLeft(c)
                    /\ owed = 1 => Len(rx) < ReadsLeft(c)
                    /\ \A i \in DOMAIN sure : i > ReadsLeft(c) - owed => sure[i]
<1>1. CASE ReaderBoot \/ ReaderPull \/ ReaderPulse
  <2>1. UNCHANGED <<pc, op, rx, owed, sure, prompt>> /\ chip'.on = chip.on
    BY <1>1, PulseType DEF ReaderBoot, ReaderPull, ReaderPulse, Boot, Pull, Pulse,
       coreVars, history
  <2> QED
    BY <2>1 DEF PromptStill, AfterPut, ReadsLeft
<1>2. CASE ReaderBegin
  <2>1. UNCHANGED <<pc, op, rx, sure>> /\ chip'.on = chip.on
    BY <1>2 DEF ReaderBegin, Begin, coreVars, TypeOK, SmTypeOK, Chips
  <2>2. prompt' => prompt /\ owed' = owed
    BY <1>2 DEF ReaderBegin
  <2> QED
    BY <2>1, <2>2 DEF PromptStill, AfterPut, ReadsLeft
<1>3. CASE ReaderPush
  <2> SUFFICES ASSUME prompt' PROVE chip'.on /\ \A c \in Cores : AfterPut(c)' => Ok(c)'
    BY DEF PromptStill
  <2>1. prompt /\ chip.on /\ chip'.on
    BY <1>3, WokenType DEF ReaderPush, Push, PushNoted, PromptStill
  <2> SUFFICES ASSUME NEW c \in Cores, AfterPut(c)' PROVE Ok(c)'
    BY <2>1
  <2>2. UNCHANGED <<pc, op>>
    BY <1>3 DEF ReaderPush, coreVars
  <2>3. AfterPut(c) /\ ReadsLeft(c)' = ReadsLeft(c) /\ ReadsLeft(c) \in 0..2
    BY <2>2 DEF AfterPut, ReadsLeft
  <2>4. Ok(c) /\ asked # NoGain
    BY <2>1, <2>3 DEF PromptStill, SetGainSteps
  <2> DEFINE v == (asked # NoGain /\ owed = 0)
             n == Len(rx)
             w == [gain |-> chip.gain, whole |-> chip.frame = "clocked"]
  <2>5. /\ rx' = Append(rx, w) /\ sure' = Append(sure, v)
        /\ owed' = (IF owed = 0 THEN 0 ELSE owed - 1)
    BY <1>3, <2>1 DEF ReaderPush, Push, PushNoted, TypeOK
  <2>6. /\ w \in Word /\ v \in BOOLEAN /\ (v <=> owed = 0)
        /\ rx \in Seq(Word) /\ sure \in Seq(BOOLEAN) /\ Len(sure) = n /\ owed \in 0..2
    BY <2>4 DEF TypeOK, SmTypeOK, Chips, Word
  <2> HIDE DEF w, v
  <2>7. n \in Nat /\ Len(rx') = n + 1 /\ DOMAIN sure = 1..n
    BY <2>5, <2>6, AppendFacts
  <2>8. /\ DOMAIN sure' = 1..(n + 1)
        /\ \A i \in 1..n : sure'[i] = sure[i]
        /\ sure'[n + 1] = v
    BY <2>5, <2>6, AppendFacts
  <2>9. owed' = 0
    BY <2>4, <2>5, <2>6
  <2>10. ASSUME NEW i \in 1..(n + 1), i > ReadsLeft(c) PROVE sure'[i]
    <3>1. CASE owed = 0
      <4>1. CASE i = n + 1
        BY <2>6, <2>8, <3>1, <4>1
      <4>2. CASE i \in 1..n
        <5>1. sure[i]
          BY <2>3, <2>4, <2>7, <2>10, <3>1, <4>2
        <5> QED
          BY <2>8, <4>2, <5>1
      <4> QED
        BY <2>7, <4>1, <4>2
    <3>2. CASE owed = 1
      BY <2>3, <2>4, <2>7, <2>10, <3>2
    <3> QED
      BY <2>4, <2>6, <3>1, <3>2
  <2> QED
    BY <2>3, <2>8, <2>9, <2>10
<1>4. CASE ChipConvert
  <2>1. UNCHANGED <<pc, op, owed, sure, prompt>> /\ Len(rx') = Len(rx)
    BY <1>4 DEF ChipConvert, Convert, coreVars, history
  <2>2. chip'.on = chip.on
    BY <1>4 DEF ChipConvert, Convert, TypeOK, SmTypeOK, Chips
  <2> QED
    BY <2>1, <2>2 DEF PromptStill, AfterPut, ReadsLeft
<1>5. CASE ChipSleep
  BY <1>5 DEF ChipSleep, PromptStill
<1>6. CASE UNCHANGED vars
  BY <1>6 DEF vars, smVars, coreVars, history, PromptStill, AfterPut, ReadsLeft
<1>7. ASSUME NEW c \in Cores, Call(c) \/ Enter(c) \/ Exit(c) PROVE PromptStill'
  <2>1. UNCHANGED <<chip, rx, owed, sure, prompt>>
    BY <1>7 DEF Call, Enter, Exit, smVars, history
  <2>2. ~AfterPut(c)'
    BY <1>7, FirstFacts DEF Call, Enter, Exit, Goto, AfterPut, TypeOK
  <2>3. \A d \in Cores \ {c} : pc'[d] = pc[d] /\ op'[d] = op[d]
    BY <1>7 DEF Call, Enter, Exit, Goto, TypeOK
  <2> QED
    BY <2>1, <2>2, <2>3 DEF PromptStill, AfterPut, ReadsLeft
<1>8. ASSUME NEW c \in Cores, Body(c), ~Exit(c) PROVE PromptStill'
  <2>1. /\ mut = c /\ op' = op /\ mut' = mut
        /\ \A d \in Cores \ {c} : ~AfterPut(d)'
    <3>1. mut' = mut /\ InBody(c) /\ op' = op
      BY <1>8 DEF Body, InitHw, CloseHw, PowerUp, PowerDown, DrainTx, PutGain,
         Discard, GetBlocking, Obtain, TryFails, TimeReached, InBody
    <3> QED
      BY <3>1 DEF MutexGuards, AfterPut, InBody
  <2>2. CASE InitHw(c) \/ CloseHw(c) \/ PowerUp(c) \/ PowerDown(c) \/ DrainTx(c)
             \/ Obtain(c) \/ TryFails(c) \/ TimeReached(c)
    <3>1. ~AfterPut(c)'
      BY <2>2 DEF InitHw, CloseHw, PowerUp, PowerDown, DrainTx, Obtain, TryFails,
         TimeReached, Goto, AfterPut, InBody, SetGainSteps, TypeOK
    <3>3. InitHw(c) => prompt' = prompt /\ (chip.on => chip'.on)
      BY PreparedType DEF InitHw
    <3>4. InitHw(c) \/ (prompt' => prompt /\ chip' = chip)
      BY <2>2 DEF InitHw, CloseHw, PowerUp, PowerDown, DrainTx, Obtain, TryFails,
         TimeReached, Stop, Drain, TryGetValue, Get, PopNoted, smVars,
         history
    <3> QED
      BY <2>1, <3>1, <3>3, <3>4 DEF PromptStill
  <2>3. CASE PutGain(c)
    <3>1. /\ rx' = rx /\ chip' = chip /\ sure' = Nothing /\ owed' = OwedAtPut
          /\ prompt' => Len(rx) <= 1 /\ chip.on /\ OwedAtPut <= 1
      BY <2>3 DEF PutGain, Put, Requested
    <3>2. ReadsLeft(c)' = 2
      BY <2>3 DEF PutGain, Goto, ReadsLeft, TypeOK
    <3>3. OwedAtPut \in 0..2 /\ Len(rx) \in Nat /\ DOMAIN Nothing = 1..Len(rx)
      BY DEF OwedAtPut, Nothing, TypeOK, SmTypeOK
    <3>4. prompt' => Ok(c)'
      BY <3>1, <3>2, <3>3
    <3> QED
      BY <2>1, <3>1, <3>4 DEF PromptStill
  <2>4. CASE Discard(c) \/ GetBlocking(c)
    <3> SUFFICES ASSUME prompt' PROVE chip'.on /\ (AfterPut(c)' => Ok(c)')
      BY <2>1 DEF PromptStill
    <3>1. Get /\ PopNoted /\ chip' = chip /\ owed' = owed /\ prompt
      BY <2>4 DEF Discard, GetBlocking, Get, PopNoted
    <3> SUFFICES ASSUME AfterPut(c)' PROVE Ok(c)'
      BY <3>1 DEF PromptStill
    <3>2. /\ AfterPut(c)
          /\ ReadsLeft(c)' = ReadsLeft(c) - 1 /\ ReadsLeft(c) \in 1..2
          /\ rx = <<>> => ReadsLeft(c) = 2
      BY <2>1, <2>4 DEF Discard, GetBlocking, Goto, AfterPut, ReadsLeft, TypeOK
    <3>3. Ok(c)
      BY <3>1, <3>2 DEF PromptStill
    <3>4. owed \in 0..2 /\ Len(rx) \in Nat /\ DOMAIN sure = 1..Len(rx)
      BY DEF TypeOK, SmTypeOK
    <3>5. CASE rx = <<>>
      <4>1. rx' = rx /\ sure' = sure /\ Len(rx) = 0
        BY <3>1, <3>5 DEF Get, PopNoted
      <4> QED
        BY <3>1, <3>2, <3>3, <3>4, <3>5, <4>1
    <3>6. CASE rx # <<>>
      <4>1. /\ Len(rx') = Len(rx) - 1 /\ DOMAIN sure' = 1..Len(rx')
            /\ Len(rx) > 0
            /\ \A i \in 1..Len(rx') : i + 1 \in 1..Len(rx) /\ sure'[i] = sure[i + 1]
        BY <3>1, <3>6, PopType DEF TypeOK, SmTypeOK
      <4>2. owed' <= 1 /\ owed' <= ReadsLeft(c)' /\ (owed' = 1 => Len(rx') < ReadsLeft(c)')
        BY <3>1, <3>2, <3>3, <3>4, <4>1
      <4>3. \A i \in DOMAIN sure' : i > ReadsLeft(c)' - owed' => sure'[i]
        BY <3>1, <3>2, <3>3, <3>4, <4>1
      <4> QED
        BY <4>2, <4>3
    <3> QED
      BY <3>5, <3>6
  <2> QED
    BY <1>8, <2>2, <2>3, <2>4 DEF Body
<1> QED
  BY <1>1, <1>2, <1>3, <1>4, <1>5, <1>6, <1>7, <1>8 DEF Next, Reader, Body

-----------------------------------------------------------------------------
(* The theorems. *)

LEMMA InitInvariant == Init => IInv
<1> SUFFICES ASSUME Init PROVE IInv
  OBVIOUS
<1>1. TypeOK
  BY InitType
<1>2. /\ MutexGuards /\ SetGainSteps
  BY DEF Init, MutexGuards, SetGainSteps, InBody, AfterPut
<1>3. NothingAsked /\ GainOrder /\ RequestPending /\ ShiftClocks /\ PromptStill
  BY DEF Init, SmInit, NothingAsked, GainOrder, RequestPending, ShiftClocks, PromptStill
<1> QED
  BY <1>1, <1>2, <1>3 DEF IInv

LEMMA NextInvariant == IInv /\ [Next]_vars => IInv'
  BY LockStep, SetGainStep, TypeStep, NothingStep, RequestStep, ShiftStep, PromptStep,
     GainOrderStep DEF IInv

\* IInv holds of every reachable state.
THEOREM Invariant == Spec => []IInv
  BY InitInvariant, NextInvariant, PTL DEF Spec

\* Every variable keeps to its set; in particular the FIFOs never overflow and
\* never more than one request waits in the TX FIFO.
THEOREM TypeCorrect == Spec => []TypeOK
<1>1. IInv => TypeOK
  BY DEF IInv
<1> QED
  BY <1>1, Invariant, PTL

\* A word that is promised the requested gain has it, and is one conversion
\* (hx711.c:182-201).
THEOREM GainOrderHolds == Spec => []GainOrder
<1>1. IInv => GainOrder
  BY DEF IInv
<1> QED
  BY <1>1, Invariant, PTL

\* set_gain returns with nothing but words of its gain queued or to come, unless
\* more than one word was queued before or the chip was torn or asleep
\* (hx711.c:195-225).
THEOREM SetGainPromptHolds == Spec => SetGainPrompt
<1> DEFINE A == \A c \in Cores :
                  pc[c] = "exit" /\ pc'[c] = "idle" /\ op[c] = "set_gain" /\ prompt =>
                    owed = 0 /\ \A i \in DOMAIN sure : sure[i]
<1>1. IInv /\ [Next]_vars => [A]_vars
  <2> SUFFICES ASSUME IInv, NEW c \in Cores,
                      pc[c] = "exit", op[c] = "set_gain", prompt
               PROVE  owed = 0 /\ \A i \in DOMAIN sure : sure[i]
    OBVIOUS
  <2>1. /\ owed <= 0 /\ owed \in 0..2
        /\ \A i \in DOMAIN sure : i > 0 - owed => sure[i]
    BY DEF IInv, PromptStill, AfterPut, ReadsLeft, TypeOK
  <2>2. DOMAIN sure = 1..Len(sure)
    BY DEF IInv, TypeOK
  <2> QED
    BY <2>1, <2>2
<1>2. Spec => [][A]_vars
  BY <1>1, Invariant, PTL DEF Spec
<1> QED
  BY <1>2 DEF SetGainPrompt

=============================================================================

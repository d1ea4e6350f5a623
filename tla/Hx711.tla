------------------------------- MODULE Hx711 -------------------------------
(***************************************************************************)
(* The single-chip driver, src/src/hx711.c: the API calls that the cores   *)
(* of the RP2040 make on one hx711_t, serialised by its mutex, composed    *)
(* with the reader SM and the chip of ReaderSm.tla.                        *)
(*                                                                         *)
(* A call goes idle -> enter -> body steps -> exit -> idle.  Its assertions *)
(* are evaluated when it is made, before the mutex is taken, as the code   *)
(* does; the models make only calls whose assertions hold.                 *)
(***************************************************************************)
EXTENDS ReaderSm

CONSTANTS
  Cores,       \* the cores that use the hx711_t
  PowerCores,  \* those that also call init, power_up, power_down and close
  Ops,         \* the API functions the application calls
  Threshold,   \* FIFO level hx711__try_get_value asks for: HX711_READ_BITS / 8
  None         \* no core

AllOps == {"init", "close", "set_gain", "get_value", "get_value_timeout",
           "get_value_noblock", "power_up", "power_down"}

ASSUME DriverAssumption ==
  /\ Ops \subseteq AllOps
  /\ PowerCores \subseteq Cores
  /\ None \notin Cores
  /\ Threshold \in Nat \ {0}

NoGain == -1

ASSUME NoGainAssumption == NoGain \notin Gains

VARIABLES
  initd,  \* hx711__is_initd: the SM is claimed
  mut,    \* hx->_mut: the core that holds it, or None
  pc,     \* where each core is in its call
  op,     \* the function each core is in, or last was in
  arg,    \* its gain argument
  sio,    \* the SIO output latch of the clock pin, what gpio_put writes
  \* History, read by properties only:
  asked,  \* the gain last requested; NoGain while a request is being replaced
  owed,   \* how many of the next words may still have another gain
  sure,   \* for each word of rx, that it was not one of those
  prompt  \* set_gain found at most one word queued, and nothing upset it since

coreVars == <<initd, mut, pc, op, arg, sio>>
history  == <<asked, owed, sure, prompt>>
vars     == <<smVars, coreVars, history>>

Labels == {"idle", "enter", "init", "close", "drain", "put", "discard",
           "block", "poll", "try", "power_up", "power_down", "exit"}

\* The first statement under the mutex.
First(o) == CASE o = "set_gain" -> "drain"
              [] o = "get_value" -> "block"
              [] o = "get_value_timeout" -> "poll"
              [] o = "get_value_noblock" -> "try"
              [] OTHER -> o

TypeOK ==
  /\ SmTypeOK
  /\ initd \in BOOLEAN
  /\ mut \in Cores \cup {None}
  /\ pc \in [Cores -> Labels]
  /\ op \in [Cores -> AllOps]
  /\ arg \in [Cores -> Gains]
  /\ sio \in BOOLEAN
  /\ asked \in Gains \cup {NoGain}
  /\ owed \in 0..2
  /\ sure \in Seq(BOOLEAN) /\ Len(sure) = Len(rx)
  /\ prompt \in BOOLEAN

Init ==
  /\ SmInit
  /\ initd = FALSE
  /\ mut = None
  /\ pc = [c \in Cores |-> "idle"]
  /\ op = [c \in Cores |-> "init"]
  /\ arg = [c \in Cores |-> DefaultGain]
  /\ sio = FALSE
  /\ asked = NoGain
  /\ owed = 0
  /\ sure = <<>>
  /\ prompt = FALSE

-----------------------------------------------------------------------------
(* History: which words the last request for a gain covers. *)

Nothing == [i \in 1..Len(rx) |-> FALSE]

\* A request that reaches the FIFO before the SM pulls applies to the next
\* conversion; after the pull, one more conversion has the gain before it, and
\* so has the one the chip makes after a torn frame or after it woke.
OwedAtPut == (IF phase = "pull" THEN 0 ELSE 1)
             + (IF phase \in {"shift", "pull"} /\ chip.frame # "clocked"
                THEN 1 ELSE 0)

Requested(g) ==
  /\ asked' = g
  /\ owed' = OwedAtPut
  /\ sure' = Nothing
  /\ prompt' = (Len(rx) <= 1 /\ chip.on /\ OwedAtPut <= 1
                /\ (phase \in {"boot", "wait"} =>
                      chip.frame \in {"converting", "ready"}))

\* A conversion after the chip slept may have the chip's reset gain.
PushNoted ==
  /\ sure' = Append(sure, asked # NoGain /\ owed = 0)
  /\ owed' = (IF owed = 0 THEN 0 ELSE owed - 1) + (IF chip.on THEN 0 ELSE 1)
  /\ UNCHANGED <<asked, prompt>>

PopNoted ==
  /\ sure' = IF rx = <<>> THEN sure ELSE Tail(sure)
  /\ UNCHANGED <<asked, owed, prompt>>

-----------------------------------------------------------------------------
(* The state machine and the chip take steps of their own. *)

ReaderBoot  == Boot  /\ UNCHANGED <<coreVars, history>>
ReaderPush  == Push  /\ PushNoted /\ UNCHANGED coreVars
ReaderPull  == Pull  /\ UNCHANGED <<coreVars, history>>
ReaderPulse == Pulse /\ UNCHANGED <<coreVars, history>>

ReaderBegin ==
  /\ Begin
  /\ IF chip'.frame = "torn" THEN owed' = 2 /\ prompt' = FALSE
     ELSE UNCHANGED <<owed, prompt>>
  /\ UNCHANGED <<coreVars, asked, sure>>

ChipConvert == Convert /\ UNCHANGED <<coreVars, history>>

\* pio_gpio_init gave the pin to the PIO, so its level is the SM's latch and
\* not `sio`.
ClockPad == held

ChipSleep ==
  /\ Sleep(ClockPad \/ Stalled)
  /\ prompt' = FALSE
  /\ UNCHANGED <<coreVars, asked, owed, sure>>

-----------------------------------------------------------------------------
(* Calls. *)

Goto(c, l) == pc' = [pc EXCEPT ![c] = l]

\* The assertions at the head of each function.
Asserted(o) ==
  CASE o = "init" -> ~initd
    [] o \in {"close", "power_down"} -> initd
    [] o = "power_up" -> initd /\ ~running
    [] OTHER -> initd /\ running

\* hx711_init makes the mutex, so it has no other call to wait for.
Call(c) ==
  \E o \in Ops, g \in Gains :
    /\ pc[c] = "idle"
    /\ o \in {"init", "close", "power_up", "power_down"} => c \in PowerCores
    /\ o = "init" => \A d \in Cores : pc[d] = "idle"
    /\ o \notin {"set_gain", "power_up"} => g = DefaultGain
    /\ Asserted(o)
    /\ \A d \in Cores : pc[d] # "idle" => op[d] # "init"
    /\ op' = [op EXCEPT ![c] = o]
    /\ arg' = [arg EXCEPT ![c] = g]
    /\ Goto(c, "enter")
    /\ UNCHANGED <<smVars, initd, mut, sio, history>>

\* Mutant of Enter: built with HX711_NO_MUTEX.
EnterNoMutex(c) ==
  /\ pc[c] = "enter"
  /\ mut' = c
  /\ Goto(c, First(op[c]))
  /\ UNCHANGED <<smVars, initd, op, arg, sio, history>>

\* mutex_enter_blocking.
Enter(c) ==
  /\ pc[c] = "enter" /\ mut = None
  /\ mut' = c
  /\ Goto(c, First(op[c]))
  /\ UNCHANGED <<smVars, initd, op, arg, sio, history>>

\* mutex_exit and the return.
Exit(c) ==
  /\ pc[c] = "exit"
  /\ mut' = None
  /\ Goto(c, "idle")
  /\ UNCHANGED <<smVars, initd, op, arg, sio, history>>

\* hx711_init, with the pio_init and reader_prog_init callbacks of the default
\* configuration: gpio_init clears the SIO latch and drives the pin with it, the
\* SM is claimed, the pin is given to the PIO, the FIFOs are cleared.
InitHw(c) ==
  /\ pc[c] = "init"
  /\ Prepare
  /\ initd' = TRUE
  /\ sio' = FALSE
  /\ asked' = NoGain /\ sure' = <<>>
  /\ Goto(c, "exit")
  /\ UNCHANGED <<mut, op, arg, owed, prompt>>

\* hx711_close: stop and unclaim the SM.
CloseHw(c) ==
  /\ pc[c] = "close"
  /\ Stop
  /\ initd' = FALSE
  /\ Goto(c, "exit")
  /\ UNCHANGED <<mut, op, arg, sio, history>>

\* hx711_power_up: gpio_put low, reset the SM, put the gain, enable the SM.
PowerUp(c) ==
  /\ pc[c] = "power_up"
  /\ sio' = FALSE
  /\ Start(arg[c])
  /\ asked' = arg[c] /\ owed' = 1 /\ sure' = <<>> /\ prompt' = FALSE
  /\ Goto(c, "exit")
  /\ UNCHANGED <<initd, mut, op, arg>>

\* hx711_power_down: stop the SM, gpio_put high.
PowerDown(c) ==
  /\ pc[c] = "power_down"
  /\ Stop
  /\ sio' = TRUE
  /\ Goto(c, "exit")
  /\ UNCHANGED <<initd, mut, op, arg, history>>

-----------------------------------------------------------------------------
(* hx711_set_gain. *)

DrainTx(c) ==
  /\ pc[c] = "drain"
  /\ Drain
  /\ asked' = NoGain /\ sure' = Nothing
  /\ Goto(c, "put")
  /\ UNCHANGED <<initd, mut, op, arg, sio, owed, prompt>>

PutGain(c) ==
  /\ pc[c] = "put"
  /\ Put(arg[c])
  /\ Requested(arg[c])
  /\ Goto(c, "discard")
  /\ UNCHANGED <<initd, mut, op, arg, sio>>

\* Mutant of Discard: without the first of the two reads.
DiscardNothing(c) ==
  /\ pc[c] = "discard"
  /\ Goto(c, "block")
  /\ UNCHANGED <<smVars, initd, mut, op, arg, sio, history>>

\* pio_sm_get: not blocking, and one word at most.
Discard(c) ==
  /\ pc[c] = "discard"
  /\ Get /\ PopNoted
  /\ Goto(c, "block")
  /\ UNCHANGED <<initd, mut, op, arg, sio>>

\* pio_sm_get_blocking, here and in hx711_get_value.
GetBlocking(c) ==
  /\ pc[c] = "block"
  /\ rx # <<>>
  /\ Get /\ PopNoted
  /\ Goto(c, "exit")
  /\ UNCHANGED <<initd, mut, op, arg, sio>>

-----------------------------------------------------------------------------
(* hx711_get_value_timeout and hx711_get_value_noblock. *)

\* hx711__try_get_value asserts that the SM is enabled: a core that finds it
\* stopped by another one goes no further.
TryGetValue == running /\ Len(rx) >= Threshold /\ Get /\ PopNoted

\* One turn of the polling loop that finds a word, or the only try.
Obtain(c) ==
  /\ pc[c] \in {"poll", "try"}
  /\ TryGetValue
  /\ Goto(c, "exit")
  /\ UNCHANGED <<initd, mut, op, arg, sio>>

\* The only try fails.
TryFails(c) ==
  /\ pc[c] = "try"
  /\ running /\ Len(rx) < Threshold
  /\ Goto(c, "exit")
  /\ UNCHANGED <<smVars, initd, mut, op, arg, sio, history>>

\* time_reached(endTime): the time was fixed before the mutex was taken, so it
\* may have passed before the first turn of the loop.
TimeReached(c) ==
  /\ pc[c] = "poll"
  /\ Goto(c, "exit")
  /\ UNCHANGED <<smVars, initd, mut, op, arg, sio, history>>

-----------------------------------------------------------------------------

Reader == ReaderBoot \/ ReaderBegin \/ ReaderPush \/ ReaderPull \/ ReaderPulse

\* The steps of a call once it has the mutex.
Body(c) ==
  \/ InitHw(c) \/ CloseHw(c) \/ PowerUp(c) \/ PowerDown(c)
  \/ DrainTx(c) \/ PutGain(c) \/ Discard(c) \/ GetBlocking(c)
  \/ Obtain(c) \/ TryFails(c) \/ TimeReached(c)
  \/ Exit(c)

Next ==
  \/ Reader
  \/ ChipConvert
  \/ ChipSleep
  \/ \E c \in Cores : Call(c) \/ Enter(c) \/ Body(c)

Spec == Init /\ [][Next]_vars

\* A state machine executes an instruction in every cycle, the chip converts
\* at its sample rate, a core that holds the mutex executes and time passes.
\* Nothing makes the application call, and a mutex waiter may be overtaken.
Fairness ==
  /\ WF_vars(Reader)
  /\ WF_vars(ChipConvert)
  /\ \A c \in Cores : WF_vars(Body(c))

FairSpec == Spec /\ Fairness

-----------------------------------------------------------------------------
(* Properties that hold. *)

\* A word that set_gain or power_up promised really was converted with the
\* last requested gain, and all its bits belong to one conversion - however
\* the request raced with the SM's pulls (hx711.c:182-201), whatever other
\* cores did and wherever the SM was stopped.
GainOrder ==
  \A i \in DOMAIN rx : sure[i] => rx[i].gain = GainPulses(asked) /\ rx[i].whole

\* When set_gain returns, every word that is queued or still to come has the
\* gain it asked for (hx711.c:195-201, 216-225), provided that it found at
\* most one word queued and the chip neither torn nor asleep.
SetGainPrompt ==
  [][\A c \in Cores :
       pc[c] = "exit" /\ pc'[c] = "idle" /\ op[c] = "set_gain" /\ prompt =>
         owed = 0 /\ \A i \in DOMAIN sure : sure[i]]_vars

\* While the application leaves the power alone every call gives the mutex
\* back: the blocking reads always get their word (hx711.c:209-213, 273-284).
MutexReleased == (mut # None) ~> (mut = None)

\* A started SM delivers words if its latch was low when it was started; that
\* is the whole condition, whatever state the chip was left in.
ReadsIfClockLow == (running /\ ~held) ~> (rx # <<>> \/ ~running)

-----------------------------------------------------------------------------
(* The inductive invariant behind GainOrder and SetGainPrompt. *)

InBody(c) == pc[c] \notin {"idle", "enter"}

\* The mutex does its work.
MutexGuards == \A c \in Cores : InBody(c) <=> mut = c

\* The reads set_gain still has to make after its put.
ReadsLeft(c) == IF pc[c] = "discard" THEN 2 ELSE IF pc[c] = "block" THEN 1 ELSE 0

AfterPut(c) ==
  pc[c] = "discard" \/ (pc[c] \in {"block", "exit"} /\ op[c] = "set_gain")

\* set_gain is in its own statements, and the TX FIFO stays empty from the
\* drain to the put.
SetGainSteps ==
  \A c \in Cores :
    /\ InBody(c) /\ op[c] = "set_gain" =>
         pc[c] \in {"drain", "put", "discard", "block", "exit"}
    /\ pc[c] = "put" => tx = <<>> /\ asked = NoGain
    /\ AfterPut(c) => asked # NoGain

NothingAsked == asked = NoGain => \A i \in DOMAIN sure : ~sure[i]

\* A request is in the TX FIFO until it is in x, where it stays.
RequestKept == tx = <<asked>> \/ (tx = <<>> /\ x = asked)

\* What still stands between the request and a word that has its gain.
RequestPending ==
  running /\ asked # NoGain =>
    /\ phase = "boot" => tx = <<asked>> /\ owed > 0
    /\ phase # "boot" => RequestKept
    /\ phase \in {"wait", "shift"} /\ owed = 0 => chip.gain = GainPulses(asked)
    /\ phase = "shift" /\ chip.frame = "torn" => owed = 2
    /\ phase \in {"pull", "gain"} /\ owed = 0 => chip.frame = "clocked"
    /\ phase = "gain" /\ owed = 0 => x = asked

ShiftClocks ==
  running /\ phase = "shift" => chip.frame \in {"clocked", "torn"}

\* While nothing upsets a set_gain that found at most one word, the words that
\* do not have its gain are at the front, and it has that many reads left.
PromptStill ==
  prompt =>
    /\ chip.on
    /\ \A c \in Cores : AfterPut(c) =>
         /\ owed <= 1 /\ owed <= ReadsLeft(c)
         /\ owed = 1 => Len(rx) < ReadsLeft(c)
         /\ \A i \in DOMAIN sure : i > ReadsLeft(c) - owed => sure[i]

IInv ==
  /\ TypeOK
  /\ MutexGuards
  /\ SetGainSteps
  /\ NothingAsked
  /\ RequestPending
  /\ ShiftClocks
  /\ PromptStill
  /\ GainOrder

-----------------------------------------------------------------------------
(* Claims of the documentation that the code does not keep. *)

\* hx711.c:267 asserts that the SM is enabled, so that the blocking read has
\* somebody to wait for.
BlocksOnlyWhileRunning ==
  \A c \in Cores : pc[c] = "block" => running \/ rx # <<>>

\* hx711.c:468-481 "set clock pin high to start the power down process": after
\* power_down and until power_up the clock pin is high.
PowerDownClockHigh == sio => ClockPad

=============================================================================

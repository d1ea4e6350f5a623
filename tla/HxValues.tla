------------------------------ MODULE HxValues ------------------------------
(***************************************************************************)
(* What the driver makes of the words of the multi-chip SMs: the values of *)
(* the chips, from the reader's words, and whether the chips are in sync,  *)
(* from the awaiter's.  The words and the registers keep their widths.     *)
(***************************************************************************)
EXTENDS Integers, Sequences, FiniteSets, FiniteSetsExt

CONSTANTS
  ChipsLen,  \* _chips_len: chip c is at bit c of a word
  Bits,      \* HX711_READ_BITS: 24
  IntBits,   \* 32
  Depth      \* entries of the awaiter's RX FIFO: 4

ASSUME ValuesAssumption ==
  /\ {ChipsLen, Bits, IntBits, Depth} \subseteq Nat \ {0}
  /\ Bits < IntBits /\ ChipsLen < IntBits

VARIABLES
  conv,   \* each chip: the value of its last conversion
  ready,  \* the chips that have one to send: DOUT is low
  sent,   \* bits of the frame that were clocked out
  buf,    \* _buffer: the reader's words of this frame
  fifo    \* the awaiter's RX FIFO

vars == <<conv, ready, sent, buf, fifo>>

Chips == 0..(ChipsLen - 1)

HX711_MIN_VALUE == -(2^(Bits - 1))
HX711_MAX_VALUE == 2^(Bits - 1) - 1

TypeOK ==
  /\ conv \in [Chips -> HX711_MIN_VALUE..HX711_MAX_VALUE]
  /\ ready \subseteq Chips /\ sent \in 0..Bits
  /\ buf \in Seq(0..(2^ChipsLen - 1)) /\ Len(buf) = sent
  /\ fifo \in Seq(0..(2^ChipsLen - 1)) /\ Len(fifo) <= Depth

Init ==
  /\ conv \in [Chips -> HX711_MIN_VALUE..HX711_MAX_VALUE]
  /\ ready = {} /\ sent = 0 /\ buf = <<>> /\ fifo = <<>>

-----------------------------------------------------------------------------
(* Bits. *)

Bit(n, k) == (n \div 2^k) % 2

\* A number from its bits: the ones `|=` sets one by one.
FromBits(bit) == MapThenSumSet(LAMBDA k : bit[k] * 2^k, DOMAIN bit)

\* `in pins, chips_len`, with the ISR shifted left.
InPins(high) == MapThenSumSet(LAMBDA c : 2^c, high)

\* The DOUT pins after n pulses: high while a chip converts, then its bits, the
\* sign first.
PinsHigh(n) ==
  IF n = 0 THEN Chips \ ready
  ELSE {c \in Chips : Bit(conv[c] % 2^Bits, Bits - n) = 1}

-----------------------------------------------------------------------------
(* hx711.c and hx711_multi.c. *)

Int32(u) == IF u >= 2^(IntBits - 1) THEN u - 2^IntBits ELSE u

\* Mutant of Hx711GetTwosComp: without the sign.
Hx711GetOnesComp(raw) == raw % 2^(Bits - 1)

\* -(raw & MIN) is unsigned and wraps.
Hx711GetTwosComp(raw) ==
  LET max == raw % 2^(Bits - 1)
  IN Int32((-(raw - max)) % 2^IntBits) + max

\* hx711_multi_pinvals_to_values: bitPos 0 of the buffer is the sign.
PinvalsToValues(pinvals) ==
  [chipNum \in Chips |->
     Hx711GetTwosComp(
       FromBits([shift \in 0..(Bits - 1) |-> Bit(pinvals[Bits - shift], chipNum)]))]

\* Mutant of AllReady: what a mask with room for one chip less would be.
AllReadyHalved == 2^(ChipsLen - 1)

\* allReady of hx711_multi_is_syncd: a power of 2.  A sample with all pins high is
\* one less, so none has this value.
AllReady == 2^ChipsLen

IsSyncd(state) == state = 0 \/ state = AllReady

-----------------------------------------------------------------------------

Convert(c) ==
  /\ sent = 0 /\ c \notin ready
  /\ \E v \in HX711_MIN_VALUE..HX711_MAX_VALUE : conv' = [conv EXCEPT ![c] = v]
  /\ ready' = ready \cup {c}
  /\ UNCHANGED <<sent, buf, fifo>>

\* Mutant of AwaiterPush: push without noblock's test of the FIFO.
AwaiterPushAnyway ==
  /\ Len(fifo) <= Depth
  /\ fifo' = Append(fifo, InPins(PinsHigh(sent)))
  /\ UNCHANGED <<conv, ready, sent, buf>>

\* A turn of the awaiter: with the FIFO full the sample is lost.
AwaiterPush ==
  /\ Len(fifo) < Depth
  /\ fifo' = Append(fifo, InPins(PinsHigh(sent)))
  /\ UNCHANGED <<conv, ready, sent, buf>>

\* A turn of the reader's bit loop, and the DMA channel.
ReaderPush ==
  /\ ready = Chips /\ sent < Bits
  /\ sent' = sent + 1
  /\ buf' = Append(buf, InPins(PinsHigh(sent + 1)))
  /\ UNCHANGED <<conv, ready, fifo>>

\* The pulses after the last bit.
FrameEnds ==
  /\ sent = Bits
  /\ ready' = {} /\ sent' = 0 /\ buf' = <<>>
  /\ UNCHANGED <<conv, fifo>>

\* hx711_multi_get_sync_state.
GetSyncState ==
  /\ fifo # <<>> /\ fifo' = Tail(fifo)
  /\ UNCHANGED <<conv, ready, sent, buf>>

\* hx711_multi_sync: all chips power down and start again, and power_up clears
\* the FIFO.
Sync ==
  /\ ready' = {} /\ sent' = 0 /\ buf' = <<>> /\ fifo' = <<>>
  /\ UNCHANGED conv

Next ==
  \/ \E c \in Chips : Convert(c)
  \/ AwaiterPush \/ ReaderPush \/ FrameEnds \/ GetSyncState \/ Sync

Spec == Init /\ [][Next]_vars

-----------------------------------------------------------------------------

\* The words of a whole frame, transposed, are the values of the chips: each
\* bit at its place, each chip at its index and the sign right
\* (hx711_multi.c:462-514, hx711.c:231-235), in the range that the assertion at
\* hx711_multi.c:510 asks for.
ValuesAreConversions == sent = Bits => PinvalsToValues(buf) = conv

\* is_syncd says yes only of a sample in which all chips are alike, all of them 0
\* or all of them 1, as the comment at hx711_multi.c:873-874 has it.  The converse
\* is not stated: the code says no when all are 1.
SyncdOnlyIfAlike ==
  fifo # <<>> /\ IsSyncd(Head(fifo)) =>
    \A c, d \in Chips : Bit(Head(fifo), c) = Bit(Head(fifo), d)

-----------------------------------------------------------------------------
(* The invariant behind them. *)

\* The words of the frame so far are what the pins were after each of its pulses.
FrameWords == \A i \in 1..sent : buf[i] = InPins(PinsHigh(i))

ValuesInv == TypeOK /\ FrameWords

=============================================================================

------------------------------ MODULE LedFrame ------------------------------
(***************************************************************************)
(* The frame path of main.cpp: the main loop that renders the 32 LED       *)
(* colours into `buffer`, the two interrupt service routines that clock    *)
(* the buffer out over SPI 120 times a second and keep the software clock, *)
(* and the hardware between them (the SPI shift register and timer 3).     *)
(*                                                                         *)
(* The main loop and the routines share `buffer`, `bufferIndex` and the    *)
(* flag `refreshFrame`; there is no lock.  An interrupt service routine is *)
(* one action (AVR masks interrupts in a routine), the main loop is cut at *)
(* every access to what it shares with them.                               *)
(*                                                                         *)
(* Time passes in units of one SPI byte (8 us); the compare match of       *)
(* timer 3 comes every Period units (8332 us / 8 us = 1041).  An interrupt *)
(* that is pending may be served late, by at most MaxLate units in all     *)
(* from one compare match to the next.                                     *)
(***************************************************************************)
EXTENDS Integers, Sequences

CONSTANTS
  NumLeds,      \* LEDs on the strip (32).
  NumLit,       \* LEDs lit grey at power-up (3).
  Colors,       \* The colours a report can carry.
  Black, Grey,  \* The colours LEDs have at power-up.
  IndexRange,   \* Values of an unsigned char (256).
  MillisRange,  \* Values of `millis` (2^32).
  ByteRange,    \* Values of one byte of it (256).
  ByteWeight,   \* What one unit of each byte of it counts (256^k, k in 0..3).
  MsMicros,     \* Microseconds in a millisecond (1000).
  TickMs,       \* Whole milliseconds in a timer period (8) ...
  TickMicros,   \* ... and the microseconds left over (332).
  Period,       \* Byte times from one compare match to the next (1041).
  MaxLate       \* Byte times interrupts can be late in one period.

FrameBytes    == 3 * NumLeds
Slots         == 0 .. FrameBytes - 1
Leds          == 0 .. NumLeds - 1
BytePositions == DOMAIN ByteWeight
Times         == [BytePositions -> 0 .. ByteRange - 1]
NoTime        == [k \in BytePositions |-> 0]
TickLength    == MsMicros * TickMs + TickMicros
ClockRange    == MsMicros * MillisRange

ASSUME SizeAssumption ==
  /\ NumLeds \in Nat \ {0}
  /\ NumLit \in Nat
  /\ IndexRange \in Nat
  /\ FrameBytes < IndexRange

ASSUME ColorAssumption == {Black, Grey} \subseteq Colors

ASSUME ClockAssumption ==
  /\ ByteRange \in Nat \ {0}
  /\ MillisRange \in Nat \ {0}
  /\ ByteWeight \in [BytePositions -> Nat \ {0}]
  /\ BytePositions # {}
  /\ MsMicros \in Nat \ {0}
  /\ TickMs \in Nat
  /\ TickMicros \in 0 .. MsMicros - 1

ASSUME TimingAssumption ==
  /\ Period \in Nat \ {0}
  /\ MaxLate \in Nat

VARIABLES
  (* The main loop: where it is, and its locals.                           *)
  pc,            \* "poll", "copy", "fill", "release" or "usb".
  unread,        \* The bytes of `millis` not yet copied to now.
  now,           \* The local copy of `millis`, byte by byte.
  idx,           \* The next slot of `buffer` to fill.
  (* The globals of main.cpp.                                              *)
  buffer, bufferIndex, colors, refreshFrame, millis, extraMicros,
  (* The SPI transmitter: "idle", "shifting", or "done" while its          *)
  (* interrupt is pending; and the byte last written to it.                *)
  spi, spdr,
  (* Timer 3: units since the last compare match, and its interrupt flag.  *)
  count, ocf,
  (* The strip (external): the bytes of the current frame it has received, *)
  (* and the last frame it received in full.                               *)
  wire, shown,
  (* Bookkeeping no code reads: units interrupts were late since the last  *)
  (* compare match, microseconds timed by timer 3 (modulo ClockRange), and *)
  (* the values `millis` had while main copied it.                         *)
  late, elapsed, seen

localVars  == <<unread, now, idx, seen>>
clockVars  == <<millis, extraMicros>>
spiVars    == <<spi, spdr>>
timerVars  == <<count, ocf, late, elapsed>>
stripVars  == <<wire, shown>>
vars == <<pc, localVars, buffer, bufferIndex, colors, refreshFrame,
          clockVars, spiVars, timerVars, stripVars>>

-----------------------------------------------------------------------------
(* Bytes of a frame.  A byte is the component of a colour dimmed by the    *)
(* time of rendering; the floating-point product is left uninterpreted.    *)

Bytes == [channel : {"b", "g", "r"}, color : Colors, now : Times]

Channel(i) == <<"b", "g", "r">>[(i % 3) + 1]

PixelByte(i, c, n) ==
  [channel |-> Channel(i), color |-> c[i \div 3], now |-> n]

RenderOf(c, n) == [j \in 1 .. FrameBytes |-> PixelByte(j - 1, c, n)]

Uniform(c) == [l \in Leds |-> c]

(* The buffer starts as zeros, which is what black renders to.             *)
Dark == RenderOf(Uniform(Black), NoTime)

BufferSeq == [j \in 1 .. FrameBytes |-> buffer[j - 1]]

(* Byte k of a value of `millis`.                                          *)
MillisByte(m, k) == (m \div ByteWeight[k]) % ByteRange

-----------------------------------------------------------------------------
(* Power-up, up to the sei() that lets the interrupts in.                  *)
Init ==
  /\ pc = "poll"
  /\ unread = {} /\ now = NoTime /\ idx = 0 /\ seen = {}
  /\ buffer = [i \in Slots |-> Dark[i + 1]]
  /\ bufferIndex = IndexRange - 1
  /\ colors = [l \in Leds |-> IF l < NumLit THEN Grey ELSE Black]
  /\ refreshFrame = FALSE
  /\ millis = 0 /\ extraMicros = 0
  /\ spi = "idle" /\ spdr = Dark[1]
  /\ count = 0 /\ ocf = FALSE /\ late = 0 /\ elapsed = 0
  /\ wire = <<>> /\ shown = Dark

-----------------------------------------------------------------------------
(* The main loop.                                                          *)

(* Mutation: renders whether or not the strip has taken the last frame.    *)
FrameWantedAlways == TRUE

FrameWanted == refreshFrame

Poll ==
  /\ pc = "poll"
  /\ \/ /\ FrameWanted
        /\ pc' = "copy"
        /\ unread' = BytePositions
        /\ seen' = {millis}
     \/ /\ ~ FrameWanted
        /\ pc' = "usb"
        /\ UNCHANGED <<unread, seen>>
  /\ UNCHANGED <<now, idx, buffer, bufferIndex, colors, refreshFrame,
                 clockVars, spiVars, timerVars, stripVars>>

(* `now = millis` is one load per byte; the compiler orders the loads.     *)
CopyByte(k) ==
  /\ pc = "copy"
  /\ k \in unread
  /\ now' = [now EXCEPT ![k] = MillisByte(millis, k)]
  /\ unread' = unread \ {k}
  /\ pc' = IF unread' = {} THEN "fill" ELSE "copy"
  /\ UNCHANGED <<idx, seen, buffer, bufferIndex, colors, refreshFrame,
                 clockVars, spiVars, timerVars, stripVars>>

(* One assignment of the rendering loop.                                   *)
Fill ==
  /\ pc = "fill"
  /\ buffer' = [buffer EXCEPT ![idx] = PixelByte(idx, colors, now)]
  /\ idx' = idx + 1
  /\ pc' = IF idx' = FrameBytes THEN "release" ELSE "fill"
  /\ UNCHANGED <<unread, now, seen, bufferIndex, colors, refreshFrame,
                 clockVars, spiVars, timerVars, stripVars>>

(* Mutations: the flag is left set; the index is rewound at the hand-over  *)
(* and not when the timer starts the frame.                                *)
HandOverNothing == UNCHANGED <<refreshFrame, bufferIndex>>
HandOverRewound == refreshFrame' = FALSE /\ bufferIndex' = 0

HandOver == refreshFrame' = FALSE /\ UNCHANGED bufferIndex

(* Hands the buffer over; the locals go out of scope.                      *)
Release ==
  /\ pc = "release"
  /\ HandOver
  /\ pc' = "usb"
  /\ now' = NoTime /\ idx' = 0 /\ seen' = {}
  /\ UNCHANGED <<unread, buffer, colors,
                 clockVars, spiVars, timerVars, stripVars>>

(* A report of `size` bytes, the first three of them colour c.             *)
ProcessHIDReport(type, size, c) ==
  colors' = IF type = "Out" /\ size = 3 THEN Uniform(c) ELSE colors

ReportTypes == {"Out", "Feature"}
ReportSizes == {2, 3}

(* The USB part of the loop as the frame path sees it: perhaps one report  *)
(* (report types and sizes other than the accepted one change nothing).    *)
UsbTask ==
  /\ pc = "usb"
  /\ pc' = "poll"
  /\ \E type \in ReportTypes, size \in ReportSizes, c \in Colors :
        ProcessHIDReport(type, size, c)
  /\ UNCHANGED <<localVars, buffer, bufferIndex, refreshFrame,
                 clockVars, spiVars, timerVars, stripVars>>

Main ==
  \/ Poll
  \/ \E k \in BytePositions : CopyByte(k)
  \/ Fill
  \/ Release
  \/ UsbTask

-----------------------------------------------------------------------------
(* The interrupt service routines.                                         *)

(* A write to SPDR while a byte is being shifted is a collision: the       *)
(* hardware ignores it.                                                    *)
WriteSpdr(b) ==
  IF spi = "shifting"
  THEN UNCHANGED spiVars
  ELSE spi' = "shifting" /\ spdr' = b

NextIndex == (bufferIndex + 1) % IndexRange

(* Mutation: indexes with bufferIndex++ where the code has ++bufferIndex.  *)
NextByteLate == buffer[bufferIndex]

NextByte == buffer[NextIndex]

SpiStc ==
  /\ spi = "done"
  /\ bufferIndex' = NextIndex
  /\ IF NextIndex < FrameBytes
     THEN /\ WriteSpdr(NextByte)
          /\ UNCHANGED <<refreshFrame, stripVars>>
     ELSE /\ refreshFrame' = TRUE
          /\ spi' = "idle" /\ UNCHANGED spdr
          /\ shown' = wire /\ wire' = <<>>
  /\ UNCHANGED <<pc, localVars, buffer, colors, clockVars, timerVars>>

(* Mutations: a carry drops the remainder; a carry leaves it in place.     *)
CarryDroppingRest(micros) == 0
CarryKeepingAll(micros) == micros

Carry(micros) == micros - MsMicros

AdvanceClock ==
  LET micros == extraMicros + TickMicros
      carry  == micros > MsMicros
  IN  /\ millis' = (millis + TickMs + (IF carry THEN 1 ELSE 0)) % MillisRange
      /\ extraMicros' = IF carry THEN Carry(micros) ELSE micros

(* Mutation: starts a frame at every tick, whoever has the buffer.         *)
StartFrameAlways == bufferIndex' = 0 /\ WriteSpdr(buffer[0])

StartFrame ==
  IF refreshFrame
  THEN UNCHANGED <<bufferIndex, spiVars>>
  ELSE bufferIndex' = 0 /\ WriteSpdr(buffer[0])

(* The SPI interrupt has the higher priority when both are pending.        *)
Timer3Compa ==
  /\ ocf
  /\ spi # "done"
  /\ ocf' = FALSE
  /\ AdvanceClock
  /\ StartFrame
  /\ seen' = IF pc = "copy" THEN seen \cup {millis'} ELSE seen
  /\ UNCHANGED <<pc, unread, now, idx, buffer, colors, refreshFrame,
                 count, late, elapsed, stripVars>>

-----------------------------------------------------------------------------
(* The hardware: one byte time passes.  The strip counts at most one byte  *)
(* more than a frame, which is all a property can tell.                    *)

InterruptPending == ocf \/ spi = "done"

Waiting == IF InterruptPending THEN 1 ELSE 0

Receive(b) == IF Len(wire) > FrameBytes THEN wire ELSE Append(wire, b)

Elapse ==
  LET match == count = Period - 1
  IN  /\ InterruptPending => late < MaxLate
      /\ count' = IF match THEN 0 ELSE count + 1
      /\ ocf' = (ocf \/ match)
      /\ elapsed' = IF match THEN (elapsed + TickLength) % ClockRange
                             ELSE elapsed
      /\ late' = IF match THEN 0 ELSE late + Waiting
      /\ IF spi = "shifting"
         THEN spi' = "done" /\ wire' = Receive(spdr)
         ELSE UNCHANGED <<spi, wire>>
      /\ UNCHANGED <<pc, localVars, buffer, bufferIndex, colors, refreshFrame,
                     clockVars, spdr, shown>>

Next == Main \/ SpiStc \/ Timer3Compa \/ Elapse

(* The CPU runs (it executes an instruction of main between any two        *)
(* interrupts), serves pending interrupts, and time passes.                *)
Fairness ==
  /\ WF_vars(Main)
  /\ WF_vars(SpiStc)
  /\ WF_vars(Timer3Compa)
  /\ WF_vars(Elapse)

Spec == Init /\ [][Next]_vars

FairSpec == Spec /\ Fairness

-----------------------------------------------------------------------------
(* Properties.                                                             *)

LocalsOK ==
  /\ pc \in {"poll", "copy", "fill", "release", "usb"}
  /\ unread \subseteq BytePositions
  /\ now \in Times
  /\ idx \in 0 .. FrameBytes
  /\ seen \subseteq 0 .. MillisRange - 1

GlobalsOK ==
  /\ buffer \in [Slots -> Bytes]
  /\ bufferIndex \in 0 .. IndexRange - 1
  /\ colors \in [Leds -> Colors]
  /\ refreshFrame \in BOOLEAN
  /\ millis \in 0 .. MillisRange - 1
  /\ extraMicros \in 0 .. MsMicros

HardwareOK ==
  /\ spi \in {"idle", "shifting", "done"}
  /\ spdr \in Bytes
  /\ count \in 0 .. Period - 1
  /\ ocf \in BOOLEAN
  /\ late \in 0 .. MaxLate
  /\ elapsed \in 0 .. ClockRange - 1
  /\ wire \in Seq(Bytes)
  /\ shown \in Seq(Bytes)

(* Every variable stays in its type: the index in an unsigned char, and    *)
(* `extraMicros` within a millisecond, so its 16 bits never overflow.      *)
TypeOK == LocalsOK /\ GlobalsOK /\ HardwareOK

Rendering == pc \in {"copy", "fill", "release"}

(* While the main loop renders into `buffer` the interrupts have finished  *)
(* with it: the flag is set, all bytes have been shifted out, none is left *)
(* to send and no SPI interrupt is due.  It needs no timing assumption.    *)
ExclusiveBuffer ==
  /\ Rendering => refreshFrame
  /\ refreshFrame => spi = "idle" /\ bufferIndex = FrameBytes

(* A frame and all the lateness of one period fit between two ticks.       *)
FrameFitsPeriod == FrameBytes + MaxLate < Period

(* The timer interrupt finds no frame on its way, so it never rewinds one  *)
(* or writes SPDR while a byte is being shifted.                           *)
FrameDoneBeforeTick ==
  FrameFitsPeriod => (ocf => bufferIndex >= FrameBytes /\ spi = "idle")

AllRenders == {RenderOf(c, n) : c \in [Leds -> Colors], n \in Times}

(* The strip only ever shows frames that are one rendering of one set of   *)
(* colours at one time: never the bytes of two renderings, too few or too  *)
(* many of them, or bytes in another order.                                *)
WholeFrame == FrameFitsPeriod => shown \in AllRenders

(* The software clock counts every microsecond timer 3 has timed: it is    *)
(* behind by exactly the tick whose interrupt is pending, none is lost and *)
(* the carry of 332 us remainders loses nothing.                           *)
ClockTracksTimer ==
  FrameFitsPeriod =>
    (MsMicros * millis + extraMicros + (IF ocf THEN TickLength ELSE 0)
       - elapsed) % ClockRange = 0

(* "copy out of volatile" (main.cpp:147): the time a frame is rendered for *)
(* is a value `millis` had while it was copied.                            *)
NowWasMillis ==
  pc = "fill" =>
    \E m \in seen : \A k \in BytePositions : now[k] = MillisByte(m, k)

(* The buffer is passed between main and the strip as FrameExchange says:  *)
(* every rendered frame is shown exactly once, whole, in order, and the    *)
(* exchange never stops.                                                   *)
Exchange == INSTANCE FrameExchange WITH
  Frames <- AllRenders,
  owner  <- IF refreshFrame THEN "main" ELSE "strip",
  frame  <- IF refreshFrame THEN shown ELSE BufferSeq

ExchangesFrames == Exchange!Spec

ShowsColor(c) == \A j \in 1 .. FrameBytes : shown[j].color = c

(* A colour the host leaves set is in the end what the strip shows, and    *)
(* the strip never goes back from it.                                      *)
StripSettles ==
  \A c \in Colors : <>[](colors = Uniform(c)) => <>[]ShowsColor(c)

-----------------------------------------------------------------------------
(* The inductive invariant behind the safety properties.                   *)

(* Who is where: a frame is on its way exactly while the index is inside   *)
(* the buffer.                                                             *)
ControlInv ==
  /\ ExclusiveBuffer
  /\ spi = "idle" <=> bufferIndex >= FrameBytes
  /\ pc = "copy" => unread # {}
  /\ pc = "fill" => idx < FrameBytes
  /\ pc \notin {"fill", "release"} => idx = 0

(* The time since the tick is the bytes sent plus the lateness so far.     *)
TimingInv ==
  /\ ocf => spi = "idle" /\ count = late
  /\ spi = "shifting" => count = late + bufferIndex
  /\ spi = "done" => count = late + bufferIndex + 1

Filled == IF pc = "release" THEN FrameBytes ELSE idx

Sent == IF spi = "idle" THEN 0
        ELSE bufferIndex + (IF spi = "done" THEN 1 ELSE 0)

(* What main has filled is the rendering it is making.                     *)
FilledInv == \A i \in 0 .. Filled - 1 : buffer[i] = PixelByte(i, colors, now)

(* What main has handed over is a rendering.                               *)
HandedInv == ~ refreshFrame => BufferSeq \in AllRenders

(* The strip has received the first bytes of the buffer, and the next one  *)
(* is on its way.                                                          *)
WireInv ==
  /\ spi = "shifting" => spdr = buffer[bufferIndex]
  /\ wire = [j \in 1 .. Sent |-> buffer[j - 1]]

DataInv == FilledInv /\ HandedInv /\ WireInv /\ shown \in AllRenders

IInv ==
  /\ TypeOK
  /\ ControlInv
  /\ FrameFitsPeriod => TimingInv /\ DataInv
=============================================================================

--------------------------- MODULE LedFrameProofs ---------------------------
(***************************************************************************)
(* Proofs about LedFrame, for every number of LEDs, every set of colours,  *)
(* every width of the counters and every timer period.                     *)
(*                                                                         *)
(* The argument has two layers.  Type correctness and the exclusion of the *)
(* interrupts from the buffer hold whatever the timing, and are inductive  *)
(* together (TypeOK /\ ControlInv).  Given them, and given that a frame    *)
(* and all the lateness of a period fit between two ticks, the time since  *)
(* the tick is the bytes sent plus the lateness (TimingInv): so the timer  *)
(* finds the transmitter idle.  What the buffer and the wire hold          *)
(* (DataInv) and the clock follow from that.                               *)
(***************************************************************************)
EXTENDS LedFrame, SequenceTheorems, TLAPS

-----------------------------------------------------------------------------
(* The operators of the model.                                             *)

(* Remainder and quotient by a positive number.                            *)
LEMMA ModRange ==
  ASSUME NEW a \in Int, NEW b \in Nat \ {0}
  PROVE  a % b \in 0 .. b - 1
  OBVIOUS

LEMMA ModSplit ==
  ASSUME NEW a \in Int, NEW b \in Nat \ {0}
  PROVE  \E q \in Int : a = q * b + (a % b)
<1>1. a \div b \in Int /\ a = (a \div b) * b + (a % b)
  OBVIOUS
<1>2. QED
  BY <1>1

LEMMA ModMultiple ==
  ASSUME NEW q \in Int, NEW b \in Nat \ {0}
  PROVE  (q * b) % b = 0
  OBVIOUS

LEMMA Sizes ==
  /\ FrameBytes \in Nat \ {0}
  /\ FrameBytes < IndexRange
  /\ TickLength \in Nat
  /\ ClockRange \in Nat \ {0}
BY SizeAssumption, ClockAssumption DEF FrameBytes, TickLength, ClockRange

(* A byte of `millis` fits a byte.                                         *)
LEMMA MillisByteType ==
  ASSUME NEW m \in Int, NEW k \in BytePositions
  PROVE  MillisByte(m, k) \in 0 .. ByteRange - 1
<1>1. m \div ByteWeight[k] \in Int
  BY ClockAssumption
<1>2. QED
  BY <1>1, ModRange, ClockAssumption DEF MillisByte

(* Every rendering writes bytes of a frame, in wire order.                 *)
LEMMA PixelByteType ==
  ASSUME NEW i \in Slots, NEW c \in [Leds -> Colors], NEW n \in Times
  PROVE  PixelByte(i, c, n) \in Bytes
<1>1. i \div 3 \in Leds
  BY SizeAssumption DEF Slots, Leds, FrameBytes
<1>2. Channel(i) \in {"b", "g", "r"}
  BY SizeAssumption DEF Slots, FrameBytes, Channel
<1>3. QED
  BY <1>1, <1>2 DEF PixelByte, Bytes

LEMMA RenderType ==
  ASSUME NEW c \in [Leds -> Colors], NEW n \in Times
  PROVE  RenderOf(c, n) \in Seq(Bytes)
<1>1. \A j \in 1 .. FrameBytes : PixelByte(j - 1, c, n) \in Bytes
  BY PixelByteType, Sizes DEF Slots
<1>2. QED
  BY <1>1, Sizes, IsASeq DEF RenderOf

LEMMA DarkType ==
  /\ NoTime \in Times
  /\ Uniform(Black) \in [Leds -> Colors]
  /\ Dark \in Seq(Bytes)
  /\ Dark \in AllRenders
<1>1. NoTime \in Times
  BY ClockAssumption DEF NoTime, Times
<1>2. Uniform(Black) \in [Leds -> Colors]
  BY ColorAssumption DEF Uniform
<1>3. QED
  BY <1>1, <1>2, RenderType DEF Dark, AllRenders

-----------------------------------------------------------------------------
(* Type correctness and exclusion.                                         *)

ControlIInv == TypeOK /\ ControlInv

LEMMA ControlInit == Init => ControlIInv
<1> SUFFICES ASSUME Init PROVE ControlIInv
  OBVIOUS
<1>1. LocalsOK
  BY DarkType, Sizes DEF Init, LocalsOK
<1>2. GlobalsOK
  <2>1. \A j \in 1 .. FrameBytes : Dark[j] \in Bytes
    BY PixelByteType, DarkType, Sizes DEF Dark, RenderOf, Slots
  <2>2. buffer \in [Slots -> Bytes]
    BY <2>1, Sizes DEF Init, Slots
  <2>3. colors \in [Leds -> Colors]
    BY ColorAssumption DEF Init
  <2>4. refreshFrame \in BOOLEAN
    BY Zenon DEF Init
  <2>5. QED
    BY <2>2, <2>3, <2>4, SizeAssumption, Sizes, ClockAssumption
    DEF Init, GlobalsOK
<1>3. HardwareOK
  <2>1. spdr \in Bytes
    BY PixelByteType, DarkType, Sizes DEF Init, Dark, RenderOf, Slots
  <2>2. wire \in Seq(Bytes) /\ shown \in Seq(Bytes)
    BY DarkType DEF Init
  <2>3. ocf \in BOOLEAN
    BY Zenon DEF Init
  <2>4. QED
    BY <2>1, <2>2, <2>3, Sizes, TimingAssumption DEF Init, HardwareOK
<1>4. ControlInv
  BY Sizes, SizeAssumption DEF Init, ControlInv, ExclusiveBuffer, Rendering
<1>5. QED
  BY <1>1, <1>2, <1>3, <1>4 DEF ControlIInv, TypeOK

LEMMA ControlStep == ControlIInv /\ [Next]_vars => ControlIInv'
<1> SUFFICES ASSUME ControlIInv, [Next]_vars
             PROVE  (LocalsOK /\ GlobalsOK /\ HardwareOK /\ ControlInv)'
  BY DEF ControlIInv, TypeOK
<1> USE Sizes DEF ControlIInv, TypeOK, localVars, clockVars, spiVars,
                  timerVars, stripVars
<1>1. CASE Poll
  <2>1. LocalsOK'
    BY <1>1 DEF Poll, LocalsOK, GlobalsOK
  <2>2. GlobalsOK' /\ HardwareOK'
    BY <1>1 DEF Poll, GlobalsOK, HardwareOK
  <2>3. ControlInv'
    BY <1>1, ClockAssumption
    DEF Poll, FrameWanted, ControlInv, ExclusiveBuffer, Rendering
  <2>4. QED
    BY <2>1, <2>2, <2>3
<1>2. ASSUME NEW k \in BytePositions, CopyByte(k)
      PROVE  (LocalsOK /\ GlobalsOK /\ HardwareOK /\ ControlInv)'
  <2>1. now' \in Times
    BY <1>2, MillisByteType DEF CopyByte, LocalsOK, GlobalsOK, Times
  <2>2. LocalsOK'
    BY <1>2, <2>1 DEF CopyByte, LocalsOK
  <2>3. GlobalsOK' /\ HardwareOK'
    BY <1>2 DEF CopyByte, GlobalsOK, HardwareOK
  <2>4. ControlInv'
    BY <1>2 DEF CopyByte, ControlInv, ExclusiveBuffer, Rendering
  <2>5. QED
    BY <2>2, <2>3, <2>4
<1>3. CASE Fill
  <2>1. idx \in Slots
    BY <1>3 DEF Fill, LocalsOK, ControlInv, Slots
  <2>2. LocalsOK'
    BY <1>3, <2>1 DEF Fill, LocalsOK, Slots
  <2>3. GlobalsOK'
    BY <1>3, <2>1, PixelByteType DEF Fill, LocalsOK, GlobalsOK
  <2>4. HardwareOK'
    BY <1>3 DEF Fill, HardwareOK
  <2>5. ControlInv'
    BY <1>3, <2>1 DEF Fill, ControlInv, ExclusiveBuffer, Rendering, Slots
  <2>6. QED
    BY <2>2, <2>3, <2>4, <2>5
<1>4. CASE Release
  <2>1. LocalsOK'
    BY <1>4, DarkType DEF Release, LocalsOK
  <2>2. GlobalsOK'
    BY <1>4 DEF Release, HandOver, GlobalsOK
  <2>3. HardwareOK'
    BY <1>4 DEF Release, HardwareOK
  <2>4. ControlInv'
    BY <1>4 DEF Release, HandOver, ControlInv, ExclusiveBuffer, Rendering
  <2>5. QED
    BY <2>1, <2>2, <2>3, <2>4
<1>5. CASE UsbTask
  <2>1. colors' \in [Leds -> Colors]
    BY <1>5 DEF UsbTask, ProcessHIDReport, Uniform, GlobalsOK
  <2>2. LocalsOK' /\ HardwareOK'
    BY <1>5 DEF UsbTask, LocalsOK, HardwareOK
  <2>3. GlobalsOK'
    BY <1>5, <2>1 DEF UsbTask, GlobalsOK
  <2>4. ControlInv'
    BY <1>5 DEF UsbTask, ControlInv, ExclusiveBuffer, Rendering
  <2>5. QED
    BY <2>2, <2>3, <2>4
<1>6. CASE SpiStc
  <2>1. bufferIndex < FrameBytes /\ NextIndex = bufferIndex + 1
    BY <1>6, SizeAssumption DEF SpiStc, GlobalsOK, ControlInv, NextIndex
  <2>2. LocalsOK'
    BY <1>6 DEF SpiStc, LocalsOK
  <2>3. CASE NextIndex < FrameBytes
    <3>1. buffer[NextIndex] \in Bytes
      BY <2>1, <2>3 DEF GlobalsOK, Slots
    <3>2. spi' = "shifting" /\ spdr' = buffer[NextIndex]
      BY <1>6, <2>3 DEF SpiStc, WriteSpdr, NextByte
    <3>3. GlobalsOK'
      <4>1. UNCHANGED <<buffer, colors, refreshFrame, millis, extraMicros>>
        BY <1>6, <2>3 DEF SpiStc
      <4>2. bufferIndex' = bufferIndex + 1
        BY <1>6, <2>1 DEF SpiStc
      <4>3. QED
        BY <2>1, <2>3, <4>1, <4>2, SizeAssumption DEF GlobalsOK
    <3>4. HardwareOK'
      BY <1>6, <2>3, <3>1, <3>2 DEF SpiStc, HardwareOK
    <3>5. ControlInv'
      BY <1>6, <2>1, <2>3, <3>2
      DEF SpiStc, ControlInv, ExclusiveBuffer, Rendering
    <3>6. QED
      BY <2>2, <3>3, <3>4, <3>5
  <2>4. CASE ~ NextIndex < FrameBytes
    <3>1. GlobalsOK'
      <4>1. UNCHANGED <<buffer, colors, millis, extraMicros>>
        BY <1>6 DEF SpiStc
      <4>2. bufferIndex' = bufferIndex + 1
        BY <1>6, <2>1 DEF SpiStc
      <4>3. refreshFrame' \in BOOLEAN
        BY <1>6, <2>4, Zenon DEF SpiStc
      <4>4. QED
        BY <2>1, <4>1, <4>2, <4>3, SizeAssumption DEF GlobalsOK
    <3>2. HardwareOK'
      BY <1>6, <2>4 DEF SpiStc, HardwareOK
    <3>3. ControlInv'
      BY <1>6, <2>1, <2>4
      DEF SpiStc, ControlInv, ExclusiveBuffer, Rendering, GlobalsOK
    <3>4. QED
      BY <2>2, <3>1, <3>2, <3>3
  <2>5. QED
    BY <2>3, <2>4
<1>7. CASE Timer3Compa
  <2>1. millis' \in 0 .. MillisRange - 1 /\ extraMicros' \in 0 .. MsMicros
    <3> DEFINE micros == extraMicros + TickMicros
               carry  == micros > MsMicros
               total  == millis + TickMs + (IF carry THEN 1 ELSE 0)
    <3>1. total \in Int
      BY ClockAssumption DEF GlobalsOK
    <3>2. millis' = total % MillisRange
      BY <1>7 DEF Timer3Compa, AdvanceClock
    <3>3. millis' \in 0 .. MillisRange - 1
      BY <3>1, <3>2, ModRange, ClockAssumption
    <3>4. extraMicros' = IF carry THEN micros - MsMicros ELSE micros
      BY <1>7 DEF Timer3Compa, AdvanceClock, Carry
    <3>5. extraMicros' \in 0 .. MsMicros
      BY <3>4, ClockAssumption DEF GlobalsOK
    <3>6. QED
      BY <3>3, <3>5
  <2>2. LocalsOK'
    BY <1>7, <2>1 DEF Timer3Compa, LocalsOK
  <2>3. buffer[0] \in Bytes
    BY DEF GlobalsOK, Slots
  <2>4. GlobalsOK'
    <3>1. UNCHANGED <<buffer, colors, refreshFrame>>
      BY <1>7 DEF Timer3Compa
    <3>2. bufferIndex' \in 0 .. IndexRange - 1
      BY <1>7, SizeAssumption DEF Timer3Compa, StartFrame, GlobalsOK
    <3>3. QED
      BY <2>1, <3>1, <3>2 DEF GlobalsOK
  <2>5. HardwareOK'
    BY <1>7, <2>3 DEF Timer3Compa, StartFrame, WriteSpdr, HardwareOK
  <2>6. ControlInv'
    BY <1>7
    DEF Timer3Compa, StartFrame, WriteSpdr, ControlInv, ExclusiveBuffer,
        Rendering
  <2>7. QED
    BY <2>2, <2>4, <2>5, <2>6
<1>8. CASE Elapse
  <2>1. wire' \in Seq(Bytes)
    <3>1. Receive(spdr) \in Seq(Bytes)
      BY DEF Receive, HardwareOK
    <3>2. wire' = Receive(spdr) \/ wire' = wire
      BY <1>8 DEF Elapse
    <3>3. QED
      BY <3>1, <3>2 DEF HardwareOK
  <2>2. elapsed' \in 0 .. ClockRange - 1
    <3>1. elapsed + TickLength \in Int
      BY DEF HardwareOK
    <3>2. \/ elapsed' = (elapsed + TickLength) % ClockRange
          \/ elapsed' = elapsed
      BY <1>8 DEF Elapse
    <3>3. QED
      BY <3>1, <3>2, ModRange DEF HardwareOK
  <2>3. late' \in 0 .. MaxLate /\ count' \in 0 .. Period - 1
    BY <1>8, TimingAssumption DEF Elapse, HardwareOK, InterruptPending, Waiting
  <2>4. LocalsOK' /\ GlobalsOK'
    BY <1>8 DEF Elapse, LocalsOK, GlobalsOK
  <2>5. HardwareOK'
    BY <1>8, <2>1, <2>2, <2>3 DEF Elapse, HardwareOK
  <2>6. ControlInv'
    BY <1>8 DEF Elapse, ControlInv, ExclusiveBuffer, Rendering
  <2>7. QED
    BY <2>4, <2>5, <2>6
<1>9. CASE UNCHANGED vars
  <2>1. LocalsOK' /\ GlobalsOK' /\ HardwareOK'
    BY <1>9 DEF vars, LocalsOK, GlobalsOK, HardwareOK
  <2>2. ControlInv'
    BY <1>9 DEF vars, ControlInv, ExclusiveBuffer, Rendering
  <2>3. QED
    BY <2>1, <2>2
<1>10. QED
  BY <1>1, <1>2, <1>3, <1>4, <1>5, <1>6, <1>7, <1>8, <1>9 DEF Next, Main

(* Every step of the frame path keeps its state well formed and keeps the  *)
(* interrupts out of a buffer that is being rendered.                      *)
LEMMA ControlInvariant == Spec => []ControlIInv
  BY ControlInit, ControlStep, PTL DEF Spec

(* Every variable stays in its type: the index is a byte, `extraMicros`    *)
(* never exceeds a millisecond, so its 16 bits never overflow.             *)
THEOREM TypeCorrect == Spec => []TypeOK
<1>1. ControlIInv => TypeOK
  BY DEF ControlIInv
<1>2. QED
  BY <1>1, ControlInvariant, PTL

(* The main loop renders only into a buffer the interrupts have finished   *)
(* with (main.cpp:144-158 against main.cpp:21-45), however late they are.  *)
THEOREM Exclusion == Spec => []ExclusiveBuffer
<1>1. ControlIInv => ExclusiveBuffer
  BY DEF ControlIInv, ControlInv
<1>2. QED
  BY <1>1, ControlInvariant, PTL

-----------------------------------------------------------------------------
(* Timing: the transmitter is idle when the timer interrupt is due.        *)

TimingIInv == FrameFitsPeriod => TimingInv

LEMMA TimingInit == Init => TimingIInv
  BY DEF Init, TimingIInv, TimingInv

LEMMA TimingStep == ControlIInv /\ TimingIInv /\ [Next]_vars => TimingIInv'
<1> SUFFICES ASSUME ControlIInv, FrameFitsPeriod, TimingInv, [Next]_vars
             PROVE  TimingInv'
  BY DEF TimingIInv, FrameFitsPeriod, FrameBytes
<1> USE Sizes DEF TimingInv
<1>1. ASSUME UNCHANGED <<spiVars, timerVars, bufferIndex>>
      PROVE  TimingInv'
  BY <1>1 DEF spiVars, timerVars
<1>2. CASE Main \/ UNCHANGED vars
  BY <1>1, <1>2
  DEF Main, Poll, CopyByte, Fill, Release, HandOver, UsbTask, vars
<1>3. CASE SpiStc
  <2>1. bufferIndex < FrameBytes /\ NextIndex = bufferIndex + 1
    BY <1>3, SizeAssumption
    DEF SpiStc, ControlIInv, TypeOK, GlobalsOK, ControlInv, NextIndex
  <2>2. spi' # "done" /\ ~ ocf
    <3>1. spi = "done"
      BY <1>3 DEF SpiStc
    <3>2. spi' = "shifting" \/ spi' = "idle"
      BY <1>3, <3>1 DEF SpiStc, WriteSpdr
    <3>3. QED
      BY <3>1, <3>2
  <2>3. UNCHANGED <<count, late, ocf>> /\ bufferIndex' = bufferIndex + 1
    BY <1>3, <2>1 DEF SpiStc, timerVars
  <2>4. count = late + bufferIndex + 1
    BY <1>3 DEF SpiStc
  <2>5. late \in Int /\ bufferIndex \in Int
    BY DEF ControlIInv, TypeOK, GlobalsOK, HardwareOK
  <2>6. QED
    BY <2>2, <2>3, <2>4, <2>5
<1>4. CASE Timer3Compa
  <2>1. /\ ocf /\ ~ ocf' /\ spi = "idle" /\ count = late
        /\ UNCHANGED <<count, late>>
    BY <1>4 DEF Timer3Compa
  <2>2. spi' = "idle" \/ (spi' = "shifting" /\ bufferIndex' = 0)
    BY <1>4, <2>1 DEF Timer3Compa, StartFrame, WriteSpdr, spiVars
  <2>3. late \in Int
    BY DEF ControlIInv, TypeOK, HardwareOK
  <2>4. QED
    BY <2>1, <2>2, <2>3
<1>5. CASE Elapse
  <2>1. /\ count \in Int /\ late \in 0 .. MaxLate /\ bufferIndex \in Int
        /\ spi \in {"idle", "shifting", "done"}
        /\ spi # "idle" => bufferIndex < FrameBytes
    BY DEF ControlIInv, TypeOK, GlobalsOK, HardwareOK, ControlInv
  <2>2. bufferIndex' = bufferIndex /\ (InterruptPending => late < MaxLate)
    BY <1>5 DEF Elapse
  <2>3. CASE count = Period - 1
    <3>1. ~ ocf /\ spi = "idle"
      BY <2>1, <2>2, <2>3, TimingAssumption
      DEF FrameFitsPeriod, InterruptPending
    <3>2. count' = 0 /\ late' = 0 /\ spi' = "idle"
      BY <1>5, <2>3, <3>1 DEF Elapse
    <3>3. QED
      BY <3>2
  <2>4. CASE count # Period - 1
    <3>1. /\ count' = count + 1 /\ late' = late + Waiting
          /\ ocf' = ocf
      <4>1. /\ count' = IF count = Period - 1 THEN 0 ELSE count + 1
            /\ late' = IF count = Period - 1 THEN 0 ELSE late + Waiting
            /\ ocf' = (ocf \/ count = Period - 1)
        BY <1>5 DEF Elapse
      <4>2. ocf' = ocf
        BY <2>4, <4>1, Zenon DEF ControlIInv, TypeOK, HardwareOK
      <4>3. QED
        BY <2>4, <4>1, <4>2
    <3>2. spi' = IF spi = "shifting" THEN "done" ELSE spi
      BY <1>5 DEF Elapse
    <3>3. CASE ocf
      BY <2>1, <3>1, <3>2, <3>3 DEF Waiting, InterruptPending
    <3>4. CASE ~ ocf
      <4>1. ~ ocf'
        BY <3>1, <3>4, Zenon
      <4>2. QED
        BY <2>1, <2>2, <3>1, <3>2, <3>4, <4>1 DEF Waiting, InterruptPending
    <3>5. QED
      BY <3>3, <3>4
  <2>5. QED
    BY <2>3, <2>4
<1>6. QED
  BY <1>2, <1>3, <1>4, <1>5 DEF Next

LEMMA TimingInvariant == Spec => [](ControlIInv /\ TimingIInv)
  BY ControlInit, ControlStep, TimingInit, TimingStep, PTL DEF Spec

(* The timer never rewinds a frame under way nor collides with a byte      *)
(* being shifted, for every period and lateness that leave room for one    *)
(* frame (main.cpp:39-43).                                                 *)
THEOREM Deadline == Spec => []FrameDoneBeforeTick
<1>1. ControlIInv /\ TimingIInv => FrameDoneBeforeTick
  BY DEF ControlIInv, ControlInv, TimingIInv, TimingInv, FrameDoneBeforeTick
<1>2. QED
  BY <1>1, TimingInvariant, PTL

-----------------------------------------------------------------------------
(* Content: what the buffer, the wire and the strip hold.                  *)

DataIInv == FrameFitsPeriod => DataInv

FrameIInv == ControlIInv /\ TimingIInv /\ DataIInv

LEMMA AppendNext ==
  ASSUME NEW n \in Nat, NEW f(_)
  PROVE  Append([j \in 1 .. n |-> f(j)], f(n + 1)) = [j \in 1 .. n + 1 |-> f(j)]
  OBVIOUS

LEMMA DataInit == Init => DataIInv
<1> SUFFICES ASSUME Init PROVE DataInv
  BY DEF DataIInv
<1>1. BufferSeq = Dark
  BY Sizes DEF Init, BufferSeq, Dark, RenderOf, Slots
<1>2. FilledInv
  BY DEF Init, FilledInv, Filled
<1>3. HandedInv /\ shown \in AllRenders
  BY <1>1, DarkType DEF Init, HandedInv
<1>4. wire = [j \in 1 .. Sent |-> buffer[j - 1]]
  BY DEF Init, Sent
<1>5. WireInv
  BY <1>4 DEF Init, WireInv
<1>6. QED
  BY <1>2, <1>3, <1>5 DEF DataInv

LEMMA DataStep == FrameIInv /\ [Next]_vars => DataIInv'
<1> SUFFICES ASSUME ControlIInv, FrameFitsPeriod, TimingInv, DataInv,
                    [Next]_vars
             PROVE  DataInv'
  BY DEF FrameIInv, TimingIInv, DataIInv, FrameFitsPeriod, FrameBytes
<1> USE Sizes
<1> DEFINE Types == /\ bufferIndex \in 0 .. IndexRange - 1
                    /\ refreshFrame \in BOOLEAN
                    /\ spi \in {"idle", "shifting", "done"}
                    /\ idx \in 0 .. FrameBytes
                    /\ colors \in [Leds -> Colors]
                    /\ now \in Times
                    /\ buffer \in [Slots -> Bytes]
<1>0. Types /\ ControlInv
  BY DEF ControlIInv, TypeOK, LocalsOK, GlobalsOK, HardwareOK
(* A step of main that keeps the buffer and the flag.                      *)
<1>10. ASSUME UNCHANGED <<buffer, bufferIndex, refreshFrame, spiVars, stripVars>>
      PROVE  HandedInv' /\ WireInv' /\ (shown \in AllRenders)'
  <2>1. BufferSeq' = BufferSeq /\ AllRenders' = AllRenders /\ Sent' = Sent
    BY <1>10 DEF BufferSeq, Sent, spiVars
  <2>2. HandedInv'
    BY <1>10, <2>1 DEF HandedInv, DataInv
  <2>3. WireInv'
    BY <1>10, <2>1 DEF WireInv, DataInv, spiVars, stripVars
  <2>4. QED
    BY <1>10, <2>1, <2>2, <2>3 DEF DataInv, stripVars
<1>1. CASE Poll
  <2>1. FilledInv'
    BY <1>1, <1>0 DEF Poll, FilledInv, Filled, ControlInv
  <2>2. QED
    BY <1>1, <1>10, <2>1 DEF Poll, DataInv
<1>2. ASSUME NEW k \in BytePositions, CopyByte(k)
      PROVE  DataInv'
  <2>1. FilledInv'
    BY <1>2, <1>0 DEF CopyByte, FilledInv, Filled, ControlInv
  <2>2. QED
    BY <1>2, <1>10, <2>1 DEF CopyByte, DataInv
<1>3. CASE Fill
  <2>1. /\ pc = "fill" /\ idx \in Slots /\ refreshFrame /\ spi = "idle"
        /\ buffer' = [buffer EXCEPT ![idx] = PixelByte(idx, colors, now)]
        /\ idx' = idx + 1
        /\ UNCHANGED <<now, colors, refreshFrame, spi, wire, shown>>
    BY <1>3, <1>0
    DEF Fill, ControlInv, ExclusiveBuffer, Rendering, Slots, spiVars, stripVars
  <2>2. Filled = idx /\ Filled' = idx + 1
    BY <1>3, <2>1 DEF Fill, Filled
  <2>3. FilledInv'
    <3> SUFFICES ASSUME NEW i \in 0 .. idx
                 PROVE  buffer'[i] = PixelByte(i, colors, now)
      BY <2>1, <2>2 DEF FilledInv, Slots, PixelByte
    <3>1. CASE i = idx
      BY <2>1, <3>1, <1>0
    <3>2. CASE i # idx
      <4>1. i \in 0 .. Filled - 1
        BY <2>1, <2>2, <3>2 DEF Slots
      <4>2. buffer[i] = PixelByte(i, colors, now)
        BY <4>1 DEF DataInv, FilledInv
      <4>3. QED
        BY <2>1, <4>2, <3>2, <1>0 DEF Slots
    <3>3. QED
      BY <3>1, <3>2
  <2>4. HandedInv'
    BY <2>1 DEF HandedInv
  <2>5. WireInv'
    BY <2>1 DEF WireInv, Sent, DataInv
  <2>6. shown' \in AllRenders
    BY <2>1 DEF DataInv
  <2>7. QED
    BY <2>3, <2>4, <2>5, <2>6 DEF DataInv, AllRenders
<1>4. CASE Release
  <2>1. /\ pc = "release" /\ refreshFrame /\ spi = "idle" /\ idx' = 0
        /\ pc' = "usb"
        /\ UNCHANGED <<buffer, spi, wire, shown>>
    BY <1>4, <1>0
    DEF Release, HandOver, ControlInv, ExclusiveBuffer, Rendering, spiVars,
        stripVars
  <2>2. \A i \in 0 .. FrameBytes - 1 : buffer[i] = PixelByte(i, colors, now)
    BY <2>1 DEF DataInv, FilledInv, Filled
  <2>3. BufferSeq' = RenderOf(colors, now)
    BY <2>1, <2>2 DEF BufferSeq, RenderOf
  <2>4. HandedInv'
    BY <1>0, <2>3 DEF HandedInv, AllRenders
  <2>5. FilledInv'
    BY <2>1 DEF FilledInv, Filled
  <2>6. WireInv'
    BY <2>1 DEF WireInv, Sent, DataInv
  <2>7. QED
    BY <2>1, <2>4, <2>5, <2>6 DEF DataInv, AllRenders
<1>5. CASE UsbTask
  <2>1. FilledInv'
    BY <1>5, <1>0 DEF UsbTask, FilledInv, Filled, ControlInv, localVars
  <2>2. QED
    BY <1>5, <1>10, <2>1 DEF UsbTask, DataInv
<1>6. CASE SpiStc
  <2>1. /\ spi = "done" /\ ~ refreshFrame
        /\ bufferIndex < FrameBytes /\ NextIndex = bufferIndex + 1
        /\ bufferIndex' = bufferIndex + 1
        /\ UNCHANGED <<pc, idx, now, buffer, colors>>
    BY <1>6, <1>0, SizeAssumption
    DEF SpiStc, ControlInv, ExclusiveBuffer, NextIndex, localVars
  <2>2. FilledInv'
    BY <2>1 DEF FilledInv, Filled, DataInv, PixelByte
  <2>3. BufferSeq' = BufferSeq /\ BufferSeq \in AllRenders
    BY <2>1 DEF BufferSeq, DataInv, HandedInv
  <2>4. HandedInv'
    BY <2>3 DEF HandedInv, AllRenders
  <2>5. wire = [j \in 1 .. bufferIndex + 1 |-> buffer[j - 1]]
    BY <2>1 DEF DataInv, WireInv, Sent
  <2>6. CASE NextIndex < FrameBytes
    <3>1. /\ spi' = "shifting" /\ spdr' = buffer[bufferIndex + 1]
          /\ UNCHANGED <<wire, shown>>
      BY <1>6, <2>1, <2>6 DEF SpiStc, WriteSpdr, NextByte, stripVars
    <3>2. Sent' = bufferIndex + 1
      BY <2>1, <3>1 DEF Sent
    <3>3. WireInv'
      BY <2>1, <2>5, <3>1, <3>2 DEF WireInv
    <3>4. QED
      BY <2>2, <2>4, <3>1, <3>3 DEF DataInv, AllRenders
  <2>7. CASE ~ NextIndex < FrameBytes
    <3>1. spi' = "idle" /\ shown' = wire /\ wire' = <<>>
      BY <1>6, <2>7 DEF SpiStc
    <3>2. wire = BufferSeq
      BY <1>0, <2>1, <2>5, <2>7 DEF BufferSeq
    <3>3. WireInv'
      BY <3>1 DEF WireInv, Sent
    <3>4. QED
      BY <2>2, <2>3, <2>4, <3>1, <3>2, <3>3 DEF DataInv, AllRenders
  <2>8. QED
    BY <2>6, <2>7
<1>7. CASE Timer3Compa
  <2>1. /\ spi = "idle"
        /\ UNCHANGED <<pc, idx, now, buffer, colors, refreshFrame, wire, shown>>
    BY <1>7 DEF Timer3Compa, TimingInv, stripVars
  <2>2. FilledInv'
    BY <2>1 DEF FilledInv, Filled, DataInv, PixelByte
  <2>3. HandedInv'
    BY <2>1 DEF HandedInv, BufferSeq, DataInv, AllRenders
  <2>4. wire = <<>>
    BY <2>1 DEF DataInv, WireInv, Sent
  <2>5. \/ spi' = "idle"
        \/ spi' = "shifting" /\ bufferIndex' = 0 /\ spdr' = buffer[0]
    BY <1>7, <2>1 DEF Timer3Compa, StartFrame, WriteSpdr, spiVars
  <2>6. Sent' = 0
    BY <2>5 DEF Sent
  <2>7. WireInv'
    BY <2>1, <2>4, <2>5, <2>6 DEF WireInv
  <2>8. QED
    BY <2>1, <2>2, <2>3, <2>7 DEF DataInv, AllRenders
<1>8. CASE Elapse
  <2>1. UNCHANGED <<pc, idx, now, buffer, bufferIndex, colors, refreshFrame,
                    spdr, shown>>
    BY <1>8 DEF Elapse, localVars
  <2>2. FilledInv'
    BY <2>1 DEF FilledInv, Filled, DataInv, PixelByte
  <2>3. HandedInv'
    BY <2>1 DEF HandedInv, BufferSeq, DataInv, AllRenders
  <2>4. CASE spi = "shifting"
    <3>1. spi' = "done" /\ wire' = Receive(buffer[bufferIndex])
      BY <1>8, <2>4 DEF Elapse, DataInv, WireInv
    <3>2. wire = [j \in 1 .. bufferIndex |-> buffer[j - 1]]
      BY <1>0, <2>4 DEF DataInv, WireInv, Sent
    <3>3. bufferIndex \in Nat /\ bufferIndex < FrameBytes
      BY <1>0, <2>4 DEF ControlInv
    <3>4. Len(wire) = bufferIndex
      BY <3>2, <3>3
    <3>5. wire' = Append(wire, buffer[bufferIndex])
      <4>1. ~ Len(wire) > FrameBytes
        BY <3>3, <3>4
      <4>2. QED
        BY <3>1, <4>1 DEF Receive
    <3> DEFINE f(j) == buffer[j - 1]
    <3>6. f(bufferIndex + 1) = buffer[bufferIndex]
      BY <3>3
    <3> HIDE DEF f
    <3>7. Append([j \in 1 .. bufferIndex |-> f(j)], f(bufferIndex + 1))
            = [j \in 1 .. bufferIndex + 1 |-> f(j)]
      BY <3>3, AppendNext
    <3>8. wire' = [j \in 1 .. bufferIndex + 1 |-> buffer[j - 1]]
      BY <3>2, <3>5, <3>6, <3>7 DEF f
    <3>9. Sent' = bufferIndex + 1
      BY <2>1, <3>1 DEF Sent
    <3>10. WireInv'
      BY <2>1, <3>1, <3>8, <3>9 DEF WireInv
    <3>11. QED
      BY <2>1, <2>2, <2>3, <3>10 DEF DataInv, AllRenders
  <2>5. CASE spi # "shifting"
    <3>1. UNCHANGED <<spi, wire>>
      BY <1>8, <2>5 DEF Elapse
    <3>2. WireInv'
      BY <2>1, <3>1 DEF WireInv, Sent, DataInv
    <3>3. QED
      BY <2>1, <2>2, <2>3, <3>2 DEF DataInv, AllRenders
  <2>6. QED
    BY <2>4, <2>5
<1>9. CASE UNCHANGED vars
  <2>1. FilledInv'
    BY <1>9 DEF vars, localVars, FilledInv, Filled, DataInv, PixelByte
  <2>2. QED
    BY <1>9, <1>10, <2>1 DEF vars, DataInv
<1>11. QED
  BY <1>1, <1>2, <1>3, <1>4, <1>5, <1>6, <1>7, <1>8, <1>9 DEF Next, Main

LEMMA FrameInvariant == Spec => []FrameIInv
<1>1. Init => FrameIInv
  BY ControlInit, TimingInit, DataInit DEF FrameIInv
<1>2. FrameIInv /\ [Next]_vars => FrameIInv'
  BY ControlStep, TimingStep, DataStep DEF FrameIInv
<1>3. QED
  BY <1>1, <1>2, PTL DEF Spec

(* The strip shows nothing but whole frames of one rendering (main.cpp's   *)
(* double use of `buffer` never tears a frame).                            *)
THEOREM Wholeness == Spec => []WholeFrame
<1>1. FrameIInv => WholeFrame
  BY DEF FrameIInv, DataIInv, DataInv, WholeFrame
<1>2. QED
  BY <1>1, FrameInvariant, PTL

(* IInv, the invariant TLC checks, is the one proved here.                 *)
THEOREM Inductive == Spec => []IInv
<1>1. FrameIInv => IInv
  BY DEF FrameIInv, ControlIInv, TimingIInv, DataIInv, IInv
<1>2. QED
  BY <1>1, FrameInvariant, PTL

-----------------------------------------------------------------------------
(* The clock counts what timer 3 times.                                    *)

Behind == MsMicros * millis + extraMicros + (IF ocf THEN TickLength ELSE 0)
            - elapsed

LEMMA ModShift ==
  ASSUME NEW a \in Int, NEW q \in Int, NEW b \in Nat \ {0}, a % b = 0
  PROVE  (a + q * b) % b = 0
<1>1. PICK r \in Int : a = r * b + (a % b)
  BY ModSplit
<1>2. a + q * b = (r + q) * b
  BY <1>1
<1>3. QED
  BY <1>2, ModMultiple

(* A tick of d ms and e us, a carry c and q wraps of a clock of m ms and   *)
(* x us, where a millisecond has u us.                                     *)
LEMMA TickArithmetic ==
  ASSUME NEW u \in Int, NEW r \in Int, NEW d \in Int, NEW e \in Int,
         NEW m \in Int, NEW x \in Int, NEW c \in Int,
         NEW m2 \in Int, NEW x2 \in Int, NEW q \in Int,
         m + d + c = q * r + m2,
         x2 = x + e - u * c
  PROVE  u * m2 + x2 = (u * m + x + (u * d + e)) + (-q) * (u * r)
<1>1. u * m2 = u * (m + d + c - q * r)
  OBVIOUS
<1>2. u * (m + d + c - q * r) = u * m + u * d + u * c - q * (u * r)
  OBVIOUS
<1>3. (-q) * (u * r) = - (q * (u * r))
  OBVIOUS
<1>4. QED
  BY <1>1, <1>2, <1>3

LEMMA ClockInit == Init => ClockTracksTimer
<1> SUFFICES ASSUME Init PROVE Behind % ClockRange = 0
  BY DEF ClockTracksTimer, Behind
<1>1. Behind = 0 * ClockRange
  BY ClockAssumption, Sizes DEF Init, Behind
<1>2. QED
  BY <1>1, ModMultiple, Sizes

LEMMA ClockStep ==
  ControlIInv /\ TimingIInv /\ ClockTracksTimer /\ [Next]_vars
    => ClockTracksTimer'
<1> SUFFICES ASSUME ControlIInv, FrameFitsPeriod, TimingInv,
                    Behind % ClockRange = 0, [Next]_vars
             PROVE  (Behind % ClockRange = 0)'
  BY DEF ClockTracksTimer, TimingIInv, Behind, FrameFitsPeriod, FrameBytes
<1>1. /\ millis \in Int /\ extraMicros \in Int /\ elapsed \in Int
      /\ MsMicros \in Int /\ TickMs \in Int /\ TickMicros \in Int
      /\ TickLength \in Int /\ MillisRange \in Nat \ {0}
      /\ ClockRange \in Nat \ {0}
  BY Sizes, ClockAssumption DEF ControlIInv, TypeOK, GlobalsOK, HardwareOK
<1>2. Behind \in Int
  BY <1>1 DEF Behind
<1>3. ASSUME UNCHANGED <<clockVars, ocf, elapsed>>
      PROVE  (Behind % ClockRange = 0)'
  BY <1>3 DEF Behind, clockVars, TickLength, ClockRange
<1>4. CASE Main \/ SpiStc \/ UNCHANGED vars
  BY <1>3, <1>4
  DEF Main, Poll, CopyByte, Fill, Release, UsbTask, SpiStc, vars, timerVars
<1>5. CASE Timer3Compa
  <2> DEFINE micros == extraMicros + TickMicros
  <2>1. PICK c \in {0, 1} :
          /\ millis' = (millis + TickMs + c) % MillisRange
          /\ extraMicros' = micros - MsMicros * c
    <3>1. CASE micros > MsMicros
      BY <1>5, <1>1, <3>1 DEF Timer3Compa, AdvanceClock, Carry
    <3>2. CASE ~ micros > MsMicros
      BY <1>5, <1>1, <3>2 DEF Timer3Compa, AdvanceClock
    <3>3. QED
      BY <3>1, <3>2
  <2>2. millis + TickMs + c \in Int
    BY <1>1
  <2>3. PICK q \in Int : millis + TickMs + c = q * MillisRange + millis'
    BY <1>1, <2>1, <2>2, ModSplit
  <2>4. millis' \in Int /\ extraMicros' \in Int
    BY <1>1, <2>1, <2>2, ModRange
  <2>5. PICK m2 \in Int, x2 \in Int : m2 = millis' /\ x2 = extraMicros'
    BY <2>4, Zenon
  <2>6. millis + TickMs + c = q * MillisRange + m2
    BY <2>3, <2>5, Zenon
  <2>7. x2 = extraMicros + TickMicros - MsMicros * c
    BY <1>1, <2>1, <2>5
  <2>8. MsMicros * m2 + x2
          = (MsMicros * millis + extraMicros + TickLength) + (-q) * ClockRange
    <3>1. c \in Int
      OBVIOUS
    <3>2. MsMicros * m2 + x2
            = (MsMicros * millis + extraMicros
                 + (MsMicros * TickMs + TickMicros))
              + (-q) * (MsMicros * MillisRange)
      BY <1>1, <2>6, <2>7, <3>1, TickArithmetic
    <3>3. QED
      BY <3>2 DEF TickLength, ClockRange
  <2>9. ocf /\ ~ ocf' /\ elapsed' = elapsed
    BY <1>5 DEF Timer3Compa
  <2>10. Behind = (MsMicros * millis + extraMicros + TickLength) - elapsed
    BY <1>1, <2>9 DEF Behind
  <2>11. Behind' = MsMicros * m2 + x2 - elapsed
    BY <2>5, <2>9, <1>1 DEF Behind
  <2>12. -q \in Int /\ (-q) * ClockRange \in Int
    BY <1>1
  <2>13. MsMicros * m2 + x2 - elapsed = Behind + (-q) * ClockRange
    <3>1. PICK a \in Int, b \in Int :
            /\ a = MsMicros * millis + extraMicros + TickLength
            /\ b = (-q) * ClockRange
      BY <1>1, <2>12
    <3>2. MsMicros * m2 + x2 = a + b /\ Behind = a - elapsed
      BY <2>8, <2>10, <3>1, Zenon
    <3>3. (a + b) - elapsed = Behind + b
      BY <1>1, <3>2
    <3>4. QED
      BY <1>1, <3>1, <3>2, <3>3
  <2>14. Behind' % ClockRange = 0
    <3>1. (Behind + (-q) * ClockRange) % ClockRange = 0
      BY <1>1, <1>2, <2>12, ModShift
    <3>2. QED
      BY <2>11, <2>13, <3>1, Zenon
  <2>15. QED
    BY <2>14 DEF ClockRange
<1>6. CASE Elapse
  <2>1. UNCHANGED clockVars
    BY <1>6 DEF Elapse
  <2>2. CASE count # Period - 1
    <3>1. elapsed' = elapsed
      BY <1>6, <2>2 DEF Elapse
    <3>2. ocf' = (ocf \/ count = Period - 1)
      BY <1>6 DEF Elapse
    <3>3. ocf' = ocf
      BY <2>2, <3>2, Zenon DEF ControlIInv, TypeOK, HardwareOK
    <3>4. QED
      BY <1>3, <2>1, <3>1, <3>3
  <2>3. CASE count = Period - 1
    <3>1. ~ ocf
      BY <1>6, <2>3, Sizes, TimingAssumption
      DEF Elapse, InterruptPending, TimingInv, FrameFitsPeriod, ControlIInv,
          TypeOK, HardwareOK
    <3>2. elapsed' = (elapsed + TickLength) % ClockRange
      BY <1>6, <2>3 DEF Elapse
    <3>3. ocf' = (ocf \/ count = Period - 1)
      BY <1>6 DEF Elapse
    <3>4. ocf'
      BY <2>3, <3>3, Zenon
    <3>5. elapsed + TickLength \in Int
      BY <1>1
    <3>6. PICK q \in Int : elapsed + TickLength = q * ClockRange + elapsed'
      BY <1>1, <3>2, <3>5, ModSplit
    <3>7. Behind = MsMicros * millis + extraMicros - elapsed
      BY <1>1, <3>1 DEF Behind
    <3>8. Behind' = MsMicros * millis + extraMicros + TickLength - elapsed'
      BY <2>1, <3>4 DEF Behind, clockVars, TickLength
    <3>9. elapsed' \in Int /\ q * ClockRange \in Int
      BY <1>1, <3>2, <3>5, ModRange
    <3>10. Behind' = Behind + q * ClockRange
      <4>1. PICK mm \in Int, qr \in Int, e2 \in Int :
              mm = MsMicros * millis /\ qr = q * ClockRange /\ e2 = elapsed'
        BY <1>1, <3>9
      <4>2. /\ elapsed + TickLength = qr + e2
            /\ Behind = mm + extraMicros - elapsed
            /\ Behind' = mm + extraMicros + TickLength - e2
        BY <3>6, <3>7, <3>8, <4>1, Zenon
      <4>3. mm + extraMicros + TickLength - e2 = Behind + qr
        BY <1>1, <4>2
      <4>4. QED
        BY <4>1, <4>2, <4>3, Zenon
    <3>11. Behind' % ClockRange = 0
      BY <1>1, <1>2, <3>10, ModShift
    <3>12. QED
      BY <3>11 DEF ClockRange
  <2>4. QED
    BY <2>2, <2>3
<1>7. QED
  BY <1>4, <1>5, <1>6 DEF Next

(* The software clock neither loses nor invents a microsecond, for every   *)
(* width of `millis` and every length of the timer period                  *)
(* (main.cpp:33-38).                                                       *)
THEOREM ClockExact == Spec => []ClockTracksTimer
<1>1. Spec => [](ControlIInv /\ TimingIInv)
  BY TimingInvariant
<1>2. QED
  BY <1>1, ClockInit, ClockStep, PTL DEF Spec

-----------------------------------------------------------------------------
(* The frame path implements FrameExchange.                                *)

LEMMA ExchangeInit == FrameFitsPeriod /\ Init => Exchange!Init
<1> SUFFICES ASSUME Init PROVE Exchange!Init
  OBVIOUS
<1>1. BufferSeq = Dark
  BY Sizes DEF Init, BufferSeq, Dark, RenderOf, Slots
<1>2. QED
  BY <1>1 DEF Init, Exchange!Init

LEMMA ExchangeStep ==
  FrameFitsPeriod /\ FrameIInv /\ FrameIInv' /\ [Next]_vars
    => [Exchange!Next]_(Exchange!vars)
<1> SUFFICES ASSUME FrameFitsPeriod, FrameIInv, FrameIInv', [Next]_vars
             PROVE  [Exchange!Next]_(Exchange!vars)
  OBVIOUS
<1> USE Sizes
<1>1. /\ ControlInv /\ DataInv
      /\ bufferIndex \in 0 .. IndexRange - 1
      /\ refreshFrame \in BOOLEAN
      /\ buffer \in [Slots -> Bytes]
  BY DEF FrameIInv, ControlIInv, TypeOK, GlobalsOK, DataIInv
<1>2. ASSUME UNCHANGED <<refreshFrame, buffer, shown>>
      PROVE  UNCHANGED Exchange!vars
  BY <1>2 DEF Exchange!vars, BufferSeq
<1>3. CASE Poll \/ (\E k \in BytePositions : CopyByte(k)) \/ UsbTask
        \/ Timer3Compa \/ Elapse \/ UNCHANGED vars
  BY <1>2, <1>3
  DEF Poll, CopyByte, UsbTask, Timer3Compa, Elapse, vars, stripVars
<1>4. CASE Fill
  <2>1. refreshFrame /\ UNCHANGED <<refreshFrame, shown>>
    BY <1>1, <1>4 DEF Fill, ControlInv, ExclusiveBuffer, Rendering, stripVars
  <2>2. QED
    BY <2>1 DEF Exchange!vars
<1>5. CASE Release
  <2>1. refreshFrame /\ ~ refreshFrame' /\ UNCHANGED shown
    BY <1>1, <1>5
    DEF Release, HandOver, ControlInv, ExclusiveBuffer, Rendering, stripVars
  <2>2. BufferSeq' \in AllRenders
    <3>1. HandedInv'
      BY DEF FrameIInv, DataIInv, DataInv, FrameFitsPeriod, FrameBytes
    <3>2. AllRenders' = AllRenders
      BY DEF AllRenders, RenderOf, PixelByte, Channel
    <3>3. QED
      BY <2>1, <3>1, <3>2 DEF HandedInv
  <2>3. Exchange!Render
    BY <2>1, <2>2 DEF Exchange!Render
  <2>4. QED
    BY <2>3 DEF Exchange!Next
<1>6. CASE SpiStc
  <2>1. /\ spi = "done" /\ ~ refreshFrame
        /\ bufferIndex < FrameBytes /\ NextIndex = bufferIndex + 1
        /\ UNCHANGED buffer
    BY <1>6, <1>1, SizeAssumption
    DEF SpiStc, ControlInv, ExclusiveBuffer, NextIndex
  <2>2. CASE NextIndex < FrameBytes
    BY <1>2, <1>6, <2>1, <2>2 DEF SpiStc, stripVars
  <2>3. CASE ~ NextIndex < FrameBytes
    <3>1. refreshFrame' /\ shown' = wire
      BY <1>6, <2>3 DEF SpiStc
    <3>2. wire = BufferSeq
      BY <1>1, <2>1, <2>3 DEF DataInv, WireInv, Sent, BufferSeq
    <3>3. Exchange!Transmit
      BY <2>1, <3>1, <3>2 DEF Exchange!Transmit
    <3>4. QED
      BY <3>3 DEF Exchange!Next
  <2>4. QED
    BY <2>2, <2>3
<1>7. QED
  BY <1>3, <1>4, <1>5, <1>6 DEF Next, Main

(* Every frame rendered is shown exactly once, whole and in order.         *)
THEOREM Refinement == FrameFitsPeriod => (Spec => Exchange!SafeSpec)
<1> SUFFICES ASSUME FrameFitsPeriod PROVE Spec => Exchange!SafeSpec
  OBVIOUS
<1>1. Init => Exchange!Init
  BY ExchangeInit
<1>2. FrameIInv /\ FrameIInv' /\ [Next]_vars => [Exchange!Next]_(Exchange!vars)
  BY ExchangeStep
<1>3. QED
  BY <1>1, <1>2, FrameInvariant, PTL DEF Spec, Exchange!SafeSpec
=============================================================================

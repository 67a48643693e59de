--------------------------- MODULE FirmwareProofs ---------------------------
(***************************************************************************)
(* Proofs about the firmware as a whole: its two halves share a main loop  *)
(* and the colours, and each of them is still what it is alone, so that    *)
(* what is proved of UsbDevice holds of the firmware.                      *)
(***************************************************************************)
EXTENDS Firmware, UsbInvariantProofs

-----------------------------------------------------------------------------
(* The USB half.                                                           *)

LEMMA UsbStep == [FirmwareNext]_allVars => [Next]_vars
<1> SUFFICES ASSUME [FirmwareNext]_allVars PROVE [Next]_vars
  OBVIOUS
<1>1. CASE RenderTask \/ SendFrame \/ UNCHANGED allVars
  BY <1>1 DEF RenderTask, SendFrame, allVars
<1>2. CASE UsbTask
  BY <1>2 DEF UsbTask, Next
<1>3. CASE UsbInterrupt
  BY <1>3 DEF UsbInterrupt, Next
<1>4. CASE HostActs
  BY <1>4 DEF HostActs, Next
<1>5. QED
  BY <1>1, <1>2, <1>3, <1>4 DEF FirmwareNext

(* Rendering between two tasks of the main loop (main.cpp:144-161), and    *)
(* the interrupts that send a frame, are no steps of the USB half: every   *)
(* behaviour of the firmware is one of UsbDevice.                          *)
THEOREM FirmwareServesUsb == FirmwareSpec => Spec
<1>1. FirmwareInit => Init
  BY DEF FirmwareInit
<1>2. QED
  BY <1>1, UsbStep, PTL DEF FirmwareSpec, Spec

(* The host sees of the firmware, while it renders, what ControlPipe       *)
(* promises of it.                                                         *)
THEOREM FirmwarePipe == FirmwareSpec => ServesPipe
BY FirmwareServesUsb, Refinement

(* With rendering between two tasks, the colours are still those of the    *)
(* last report the host saw complete when the main loop renders.           *)
THEOREM FirmwareReports == FirmwareSpec => []ReportTaken
BY FirmwareServesUsb, ReportsTaken, PTL

-----------------------------------------------------------------------------
(* The frames.                                                             *)

StripFrames == Colors \cup {Garbage, NoColor}

LEMMA StripStep ==
  ASSUME TypeOK, FirmwareNext \/ UNCHANGED allVars
  PROVE  Strip!Next \/ UNCHANGED Strip!vars
<1>1. CASE RenderTask
  <2>1. CASE FrameWanted
    <3>1. /\ owner = "main" /\ owner' = "strip" /\ shown' = shown
          /\ frame' = colors
      BY <1>1, <2>1 DEF RenderTask, FrameWanted, Rendered
    <3>2. colors \in StripFrames
      BY DEF TypeOK, DeviceOK, StripFrames
    <3>3. QED
      BY <3>1, <3>2 DEF Strip!Next, Strip!Render, StripFrames
  <2>2. CASE ~ FrameWanted
    BY <1>1, <2>2 DEF RenderTask, frameVars, Strip!vars
  <2>3. QED
    BY <2>1, <2>2
<1>2. CASE SendFrame
  BY <1>2 DEF SendFrame, Strip!Next
<1>3. CASE UsbTask \/ UsbInterrupt \/ HostActs \/ UNCHANGED allVars
  BY <1>3 DEF UsbTask, UsbInterrupt, HostActs, allVars, frameVars, Strip!vars
<1>4. QED
  BY <1>1, <1>2, <1>3 DEF FirmwareNext

(* Requests that block the main loop, and reports that write the colours   *)
(* in the middle of a handler, leave the exchange of frames what it is     *)
(* (main.cpp:144-158): every frame rendered is shown once and in order.    *)
THEOREM FirmwareExchanges == FirmwareSpec => Strip!SafeSpec
<1>1. FirmwareSpec => []TypeOK
  BY FirmwareServesUsb, TypeCorrect, PTL
<1>2. FirmwareInit => Strip!Init
  BY DEF FirmwareInit
<1>3. TypeOK /\ [FirmwareNext]_allVars => [Strip!Next]_(Strip!vars)
  BY StripStep
<1>4. QED
  BY <1>1, <1>2, <1>3, PTL DEF FirmwareSpec, Strip!SafeSpec

(* A report once broken off stays so.                                      *)
LEMMA BrokenStays ==
  ASSUME [Next]_vars, broken
  PROVE  broken'
<1>1. CASE Main \/ UsbGen \/ UNCHANGED vars
  BY <1>1 DEF Main, UsbGen, vars, hostVars
<1>2. CASE SendSetup \/ Token
  BY <1>2 DEF SendSetup, Token, TakeIN, GiveOUT, Stalled, Complete
<1>3. CASE Abort \/ BusEvent
  BY <1>3 DEF Abort, BusEvent, Plug, Unplug, Reset, Suspend, Resume, BreakOff
<1>4. QED
  BY <1>1, <1>2, <1>3 DEF Next, Host

(* A strip never shows bytes that nobody sent, unless the host has broken  *)
(* off a report (HIDClassDevice.c:82-86), whatever it is asked meanwhile.  *)
THEOREM StripNeedsBreak == FirmwareSpec => []GarbageShownOnlyIfBroken
<1>1. FirmwareInit => GarbageShownOnlyIfBroken
  BY ConstantAssumption DEF FirmwareInit, Strip!Init, GarbageShownOnlyIfBroken
<1>2. /\ GarbageShownOnlyIfBroken /\ GarbageOnlyIfBroken
      /\ [FirmwareNext]_allVars
      => GarbageShownOnlyIfBroken'
  <2> SUFFICES ASSUME GarbageShownOnlyIfBroken, GarbageOnlyIfBroken,
                      [FirmwareNext]_allVars, Garbage \in {frame', shown'}
               PROVE  broken'
    BY DEF GarbageShownOnlyIfBroken
  <2>1. Garbage \in {frame, shown} \/ colors = Garbage
    BY DEF FirmwareNext, RenderTask, UsbTask, SendFrame, UsbInterrupt, HostActs,
       Strip!Transmit, Rendered, frameVars, allVars
  <2>2. broken
    BY <2>1 DEF GarbageShownOnlyIfBroken, GarbageOnlyIfBroken
  <2>3. QED
    BY <2>2, UsbStep, BrokenStays
<1>3. FirmwareSpec => []GarbageOnlyIfBroken
  BY FirmwareServesUsb, GarbageNeedsBreak, PTL
<1>4. QED
  BY <1>1, <1>2, <1>3, PTL DEF FirmwareSpec
=============================================================================

------------------------------ MODULE Firmware ------------------------------
(***************************************************************************)
(* The whole firmware: the main loop that renders a frame when the strip   *)
(* has taken the last one and then serves USB, blocking in the handler of  *)
(* a request, while the interrupts of the strip and of the USB controller  *)
(* go on.  The USB side is UsbDevice step by step; of the frame path there *)
(* is what LedFrame implements, the exchange of one buffer.  A frame is    *)
(* the colour it was rendered from.                                        *)
(*                                                                         *)
(* The two sides share the main loop and `colors`: a report changes the    *)
(* colours in the middle of a handler, rendering reads them between two.   *)
(***************************************************************************)
EXTENDS UsbDevice

VARIABLES
  (* The frame path as FrameExchange has it.                               *)
  owner, frame, shown,
  (* Whether this round of the main loop has looked at refreshFrame.       *)
  tested

frameVars == <<owner, frame, shown>>
allVars   == <<vars, frameVars, tested>>

(* The buffer starts dark, which is the colour of no report.               *)
Strip == INSTANCE FrameExchange WITH
  Frames <- Colors \cup {Garbage, NoColor},
  Dark   <- NoColor

FirmwareInit == Init /\ Strip!Init /\ tested = FALSE

(* Mutation: the frame is rendered from the colours of power-up.           *)
RenderedStale == PowerUp

Rendered == colors

(* Mutation: renders without a look at refreshFrame.                      *)
FrameWantedAlways == TRUE

FrameWanted == owner = "main"

(* The first half of the main loop.                                        *)
RenderTask ==
  /\ pc = "hid"
  /\ ~ tested
  /\ ~ InterruptPending
  /\ tested' = TRUE
  /\ IF FrameWanted
     THEN frame' = Rendered /\ owner' = "strip" /\ UNCHANGED shown
     ELSE UNCHANGED frameVars
  /\ UNCHANGED vars

(* The second half: HID_Device_USBTask and USB_USBTask.                    *)
UsbTask ==
  /\ pc = "hid" => tested
  /\ Main
  /\ tested' = FALSE
  /\ UNCHANGED frameVars

(* The interrupts of the SPI and of timer 3 send the buffer.               *)
SendFrame == Strip!Transmit /\ UNCHANGED <<vars, tested>>

UsbInterrupt == UsbGen /\ UNCHANGED <<frameVars, tested>>

HostActs == Host /\ UNCHANGED <<frameVars, tested>>

FirmwareNext == RenderTask \/ UsbTask \/ SendFrame \/ UsbInterrupt \/ HostActs

(* As in UsbDevice and LedFrame: the CPU runs, interrupts are served, the  *)
(* host sends the tokens of its transfers.                                 *)
FirmwareSpec ==
  /\ FirmwareInit
  /\ [][FirmwareNext]_allVars
  /\ WF_allVars(RenderTask \/ UsbTask)
  /\ WF_allVars(SendFrame)
  /\ WF_allVars(UsbInterrupt)
  /\ WF_allVars(HostActs /\ (SendSetup \/ Token))

-----------------------------------------------------------------------------
(* Properties.                                                             *)

(* The handlers of USB requests, in which the main loop waits for the      *)
(* host, never stop the exchange of frames for good.                       *)
FramesGoOn == Strip!Spec

(* A colour whose report the host has seen complete, and that it does not  *)
(* change again, is in the end what the strip shows and keeps showing.     *)
ShowsReport ==
  \A c \in Colors : <>[](agreed = c /\ ~ broken) => <>[](shown = c)

(* Bytes of a report buffer that nothing has filled are rendered or shown  *)
(* only after the host has broken off a report, whenever the main loop     *)
(* renders and however long the strip keeps a frame.                       *)
GarbageShownOnlyIfBroken == Garbage \in {frame, shown} => broken
=============================================================================

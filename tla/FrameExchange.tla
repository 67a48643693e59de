--------------------------- MODULE FrameExchange ---------------------------
(***************************************************************************)
(* What the frame path of main.cpp promises, without its interrupts: the   *)
(* single frame buffer is passed back and forth between the main loop and  *)
(* the LED strip, so that every frame the main loop renders is shown       *)
(* exactly once, whole, and in the order of rendering.                     *)
(***************************************************************************)

CONSTANTS
  Frames,   \* The frames the main loop may render.
  Dark      \* The content of the zero-initialised buffer.

VARIABLES
  owner,    \* Who may use the buffer: "main" or "strip".
  frame,    \* The content of the buffer.
  shown     \* The frame the strip shows.

vars == <<owner, frame, shown>>

TypeOK ==
  /\ owner \in {"main", "strip"}
  /\ frame \in Frames
  /\ shown \in Frames

Init ==
  /\ owner = "strip"
  /\ frame = Dark
  /\ shown = Dark

(* The main loop renders a frame and hands the buffer to the strip.        *)
Render ==
  /\ owner = "main"
  /\ frame' \in Frames
  /\ owner' = "strip"
  /\ UNCHANGED shown

(* The strip shows the frame and hands the buffer back.                    *)
Transmit ==
  /\ owner = "strip"
  /\ shown' = frame
  /\ owner' = "main"
  /\ UNCHANGED frame

Next == Render \/ Transmit

SafeSpec == Init /\ [][Next]_vars

Spec == SafeSpec /\ WF_vars(Render) /\ WF_vars(Transmit)
=============================================================================

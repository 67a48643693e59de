----------------------------- MODULE LedFrameMC -----------------------------
(* Small instances of LedFrame for TLC.                                    *)
EXTENDS LedFrame, TLC

(* `millis` as two bytes of two values each.                               *)
MCByteWeight == (0 :> 1) @@ (1 :> 2)

(* `millis` as one byte, where its value does not matter.                  *)
MCOneByte == 0 :> 1
=============================================================================

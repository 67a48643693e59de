---------------------------- MODULE UsbDeviceMC ----------------------------
(* Small instances of UsbDevice for TLC.                                   *)
EXTENDS UsbDeviceInv, TLC

Plain(name, arg) ==
  [name |-> name, arg |-> arg, exact |-> FALSE, out |-> FALSE, color |-> NoColor]

Report(length, type, c) ==
  [name |-> "SetReport", arg |-> length, exact |-> FALSE, out |-> type = "out",
   color |-> c]

(* A string descriptor of 16 bytes: two full packets and an empty one.     *)
TwoPackets ==
  [Plain("GetDescriptor", 2) EXCEPT !.exact = TRUE]

(* What the host program and its operating system send.                    *)
MCRequests ==
  {Plain("SetAddress", 1), Plain("SetConfiguration", 1), TwoPackets}
   \cup {Report(3, "out", c) : c \in Colors \ {PowerUp}}

(* Everything the firmware has a handler for, and what it has none for;    *)
(* reports with no data, too short, of another type, of two packets.       *)
MCAllRequests ==
  {Plain("SetAddress", 1), Plain("SetConfiguration", 0),
   Plain("SetConfiguration", 1), Plain("SetConfiguration", 2),
   Plain("GetConfiguration", 0), Plain("GetStatus", 0),
   Plain("GetDescriptor", 0), Plain("GetDescriptor", 1), TwoPackets,
   Plain("SetWakeup", 0), Plain("ClearWakeup", 0),
   Plain("SetHalt", 0), Plain("SetHalt", 1), Plain("ClearHalt", 1),
   Plain("GetEndpointStatus", 1), Plain("OtherFeature", 1),
   Plain("GetReport", 0), Plain("GetProtocol", 0), Plain("SetProtocol", 1),
   Plain("GetIdle", 0), Plain("SetIdle", 125), Plain("Other", 0),
   Report(0, "out", NoColor), Report(2, "out", PowerUp),
   Report(3, "feature", PowerUp), Report(9, "out", PowerUp)}
   \cup {Report(3, "out", c) : c \in Colors \ {PowerUp}}
=============================================================================

---------------------------- MODULE FirmwareMC -----------------------------
(* Small instance of Firmware for TLC.                                     *)
EXTENDS Firmware, TLC

Ask(name, arg, exact, c) ==
  [name |-> name, arg |-> arg, exact |-> exact, out |-> name = "SetReport",
   color |-> c]

(* One request for each way a handler can wait, and two report colours.    *)
MCWaits ==
  {Ask("SetAddress", 1, FALSE, NoColor),
   Ask("SetConfiguration", 1, FALSE, NoColor),
   Ask("GetDescriptor", 2, TRUE, NoColor),
   Ask("GetConfiguration", 0, FALSE, NoColor),
   Ask("GetReport", 0, FALSE, NoColor),
   Ask("GetProtocol", 0, FALSE, NoColor),
   Ask("Other", 0, FALSE, NoColor)}
   \cup {Ask("SetReport", 3, FALSE, c) : c \in Colors}
=============================================================================

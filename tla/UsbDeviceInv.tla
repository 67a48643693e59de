---------------------------- MODULE UsbDeviceInv ----------------------------
(***************************************************************************)
(* The inductive invariant behind the safety properties of UsbDevice: what *)
(* the main loop, the control endpoint and the host know of each other at  *)
(* each place of a handler.                                                *)
(***************************************************************************)
EXTENDS UsbDevice

(* Where the main loop is: at the next step of a handler, or between two.  *)
Place == IF todo = <<>> THEN pc ELSE Head(todo)

Between == {"hid", "task"}

(* The request has been read, and its SETUP not cleared by a handler.      *)
Before == {"event", "storeWakeup", "setAddress", "selectEndpoint", "halt",
           "readStall", "clearSETUP"}

Reading == \/ Place \in Before
           \/ Place = "standard" /\ request.name \notin ClassNames

(* A SETUP packet is in the bank that has not been read, or has been read. *)
Waiting == rxstp /\ setup # NoRequest
Read    == rxstp /\ setup = NoRequest

(* The host is in a transfer; its request has not been read; it has been   *)
(* read and not been cleared; it has been cleared by its own handler.      *)
Pending == xfer.stage \in Stages
Unread  == Pending /\ Waiting
Taken   == Pending /\ Read
Own     == Pending /\ ~ rxstp /\ ~ epStalled[0]

Lost == xfer.stage = "recovering"

-----------------------------------------------------------------------------
(* A handler is one of the request, and the firmware has it.               *)
StageInv ==
  /\ todo # <<>> =>
       /\ request \in Requests /\ Supported(request)
       /\ request.name \in ClassNames \cup StandardNames
       /\ pc = IF request.name \in ClassNames THEN "class" ELSE "handler"
  /\ xfer.stage \in {"in", "out"} => xfer.wants # 0
  /\ xfer.stage \in {"in", "statusOut"} => xfer.req.name \in ReadNames
  /\ xfer.stage = "out" => xfer.req.name = "SetReport" /\ xfer.req.arg # 0
  /\ xfer.stage = "statusIn" => xfer.req.name \notin ReadNames
  /\ Pending => xfer.req \in Requests

(* The bus, as the main loop sees it through the state of the device.      *)
BusInv ==
  /\ Pending => bus = "active" /\ ~ frozen
  /\ eorsti \/ vbusti => Lost
  /\ eorsti => hostConf = 0
  /\ vbusti => bus \in {"detached", "attached"}
  /\ line = "susp" => bus # "active"
  /\ devState = "Suspended" => frozen
  /\ bus # "detached" /\ ~ vbusti => devState # "Unattached"
  /\ Place = "storeState" => chosen \notin {"Unattached", "Suspended"}

(* The bank: a request is read with nothing left in it of the last one,   *)
(* because a SETUP that came while a handler still wrote to it is stalled  *)
(* by Final, but for that of SetConfiguration, which ends with another     *)
(* endpoint selected.                                                      *)
BankInv ==
  /\ Reading => txin /\ ~ Waiting /\ (Lost \/ Taken)
  /\ Read => txin /\ (Reading \/ (Place = "final" /\ selected = 0))
  /\ Waiting /\ ~ txin =>
       /\ Place \notin Between
       /\ Place = "final" => selected = 0
       /\ todo # <<>> => request.name # "SetConfiguration"
  /\ Place \in {"setNumber", "statusIN"} /\ request.name = "SetConfiguration" =>
       txin /\ ~ Waiting /\ (Lost \/ Own)
  /\ Place \in {"event", "standard"} => selected = 0
  /\ Place = "halt" => Lost \/ selected # 0
  /\ Place = "configureIN" => (Lost /\ hostConf = 0) \/ selected = 1
  /\ Place = "rewriteHigher" => (Lost /\ hostConf = 0) \/ selected # 0

(* Which request the main loop is about.                                   *)
SetupInv ==
  /\ xfer.stage = "idle" => ~ rxstp
  /\ Pending /\ rxstp => xfer.stage = FirstStage(xfer.req)
  /\ Unread => setup = xfer.req /\ (Place \notin Between => xfer.raced)
  /\ Taken =>
       /\ request = xfer.req
       /\ Place = "final" => ~ Supported(request)
  /\ Pending /\ epStalled[0] =>
       ~ rxstp /\ (xfer.raced \/ ~ Supported(xfer.req))
  /\ Own =>
       /\ request = xfer.req /\ setup = NoRequest
       /\ Supported(request)
       /\ ~ txin => inPkt = request
  /\ xfer.stage = "statusOut" => xfer.by = xfer.req

(* While no report has broken off: the packets of a report go from the     *)
(* host to the buffer and from there to the colours, and what the device   *)
(* waits for is what the host has yet to give.                             *)
ReportInv ==
  /\ Pending /\ SetsColor(xfer.req) => agreed = NoColor
  /\ Pending /\ rxstp /\ xfer.req.name = "SetReport" =>
       xfer.wants = Packets(xfer.req)
  /\ ~ broken =>
       /\ rxstp /\ setup.name = "SetReport" => Pending
       /\ request.name = "SetReport"
          /\ Place \in {"event", "clearSETUP", "receive", "awaitIN", "clearIN"} =>
            /\ Pending /\ xfer.req = request /\ txin
            /\ Place \in {"receive", "awaitIN", "clearIN"} => Own
       /\ request.name = "SetReport" /\ request.arg # 0
          /\ Place \in {"awaitIN", "clearIN", "commit"} => report = request.color
       /\ rxout =>
            \/ Place \in {"send", "awaitOUT", "statusOUT", "clearOUT"} /\ ~ Own
            \/ Place = "receive" /\ outPkt = request.color
       /\ Place = "receive" =>
            /\ left = (IF xfer.stage = "out" THEN xfer.wants ELSE 0)
                         + (IF rxout THEN 1 ELSE 0)
            /\ left = 0 => request.arg = 0
       /\ Own /\ xfer.stage = "out" => Place = "receive"
       /\ Own /\ xfer.stage = "in" =>
            Place \in {"clearIN", "spinIN", "send", "awaitOUT", "statusOUT"}
       /\ Own /\ (xfer.stage = "statusOut" \/ (xfer.stage = "in" /\ ~ txin)) =>
            Place \in {"send", "awaitOUT", "statusOUT"}
       /\ Own /\ ~ txin /\ SetsColor(xfer.req) =>
            Place = "commit" \/ colors = xfer.req.color
       /\ agreed # NoColor =>
            agreed = IF Place = "commit" /\ SetsColor(request)
                     THEN request.color ELSE colors
       /\ colors # Garbage

(* What is left of SetConfiguration once its status stage has begun.       *)
Kept(n) ==
  /\ confNumber = n
  /\ Place = "storeState" => chosen = "Configured"
  /\ Place \notin {"chooseState", "storeState"} =>
       devState \in {"Configured", "Suspended"}
  /\ Place \notin {"chooseState", "storeState", "selectIN", "configureIN"} =>
       epType[1] = "interrupt"

ConfigInv ==
  /\ Pending /\ xfer.req.name = "SetConfiguration" => hostAddr # 0
  /\ rxstp /\ setup.name = "SetConfiguration" => hostConf = 0
  /\ request.name = "SetConfiguration"
     /\ Place \in {"event", "standard", "clearSETUP", "setNumber", "statusIN"} =>
       hostConf = 0
  /\ Own /\ request.name = "SetConfiguration" =>
       /\ Place = "statusIN" => confNumber = request.arg
       /\ ~ txin /\ request.arg # 0 => Kept(request.arg)
  /\ hostConf # 0 =>
       /\ hostAddr # 0
       /\ request.name # "SetAddress" /\ setup.name # "SetAddress"
       /\ bus \in {"active", "suspended"} => Kept(hostConf)

(* The address is enabled when its status packet has gone.                 *)
AddressInv ==
  Pending /\ xfer.req.name = "SetAddress" /\ ~ xfer.raced =>
    Place # "enableAddress" /\ (Place = "spinIN" => ~ txin)

IInv ==
  /\ TypeOK /\ StageInv /\ BusInv /\ BankInv /\ SetupInv
  /\ StalledOnlyIfRaced /\ AnswersMatch
  /\ ReportInv /\ ConfigInv /\ AddressInv
=============================================================================

----------------------------- MODULE UsbDevice -----------------------------
(***************************************************************************)
(* The USB side of the firmware: the control endpoint, the standard        *)
(* requests and the HID class driver that the main loop of main.cpp polls, *)
(* the interrupt routine of the USB controller, and the host at the other  *)
(* end of the cable.                                                       *)
(*                                                                         *)
(* A control request is handled by one call of the main loop that blocks   *)
(* in a busy-wait at each stage of the transfer.  Here the call is the     *)
(* list of steps it still has to do (`todo`), one action each; between two *)
(* of them the interrupt routine may run and the host may act.  A pending  *)
(* interrupt preempts the main loop at once.  Rendering, which the main    *)
(* loop does between two polls, is in LedFrame.                            *)
(*                                                                         *)
(* The controller (external) is modelled as far as the code relies on it:  *)
(* a SETUP packet is always accepted, drops an IN packet not yet sent and  *)
(* ends a stall; IN and OUT packets wait while a SETUP is not cleared; of  *)
(* the suspend and wake-up flags the later one stands.                     *)
(***************************************************************************)
EXTENDS Integers, Sequences

CONSTANTS
  Requests,      \* The requests the host may send.
  Colors,        \* The colours of reports.
  Garbage,       \* The colour in an uninitialised report buffer.
  NoColor,       \* No colour: the request is not a report, or none agreed.
  PowerUp,       \* What the LEDs show at power-up.
  Address,       \* The address the host gives the device.
  Configurations,\* Configurations in the device descriptor (1).
  DefaultIdle,   \* The idle count of a configured device (500).
  Disturbances   \* "unplug", "reset", "suspend", "abort": what may happen
                 \* to a transfer.

ClassNames == {"GetReport", "SetReport", "GetProtocol", "SetProtocol",
               "GetIdle", "SetIdle"}

StandardNames == {"SetAddress", "GetDescriptor", "GetConfiguration",
                  "SetConfiguration", "GetStatus", "GetEndpointStatus",
                  "SetWakeup", "ClearWakeup", "SetHalt", "ClearHalt",
                  "OtherFeature"}

(* The requests that name an endpoint.  GetStatus is that of the device,   *)
(* OtherFeature sets or clears a feature of an endpoint that has no halt.  *)
EndpointNames == {"GetEndpointStatus", "SetHalt", "ClearHalt"}

(* arg is the length of a report, the number of packets of a descriptor    *)
(* (0: there is none; exact: the last one is full), the endpoint the       *)
(* request names, or its value; out is whether a report is one of type Out *)
(* (reports have no ID, as the descriptor of this device has none).        *)
AllRequests == [name  : ClassNames \cup StandardNames \cup {"Other"},
                arg   : Nat,
                exact : BOOLEAN,
                out   : BOOLEAN,
                color : Colors \cup {NoColor}]

NoRequest == [name |-> "None", arg |-> 0, exact |-> FALSE, out |-> FALSE,
              color |-> NoColor]

(* The endpoints of the controller.                                        *)
Endpoints == 0 .. 6

(* A host asks only for endpoints the controller has.                      *)
ASSUME RequestAssumption ==
  /\ Requests \subseteq AllRequests
  /\ \A r \in Requests : r.name \in EndpointNames => r.arg \in Endpoints

ASSUME ConstantAssumption ==
  /\ Address \in Nat \ {0}
  /\ Configurations \in Nat \ {0}
  /\ DefaultIdle \in Nat
  /\ PowerUp \in Colors
  /\ Garbage \notin Colors \cup {NoColor}
  /\ NoColor \notin Colors

VARIABLES
  (* The main loop: where it is, what is left of the handler it is in, and *)
  (* the locals of the handlers.                                           *)
  pc, todo, prev, report, left, full, chosen, reg,
  (* The globals of the library, the HID interface and main.cpp.           *)
  request, devState, confNumber, hidState, remoteWakeup, colors,
  (* The endpoints: the selected one, their types, their stall bits, and   *)
  (* the flags and packets of the control endpoint.                        *)
  selected, epType, epStalled, setup, rxstp, rxout, outPkt, txin, inPkt,
  (* The controller: address, frozen clock, interrupt enables and flags.   *)
  addr, addEn, frozen, udien, line, eorsti, vbusti,
  (* The host: the bus, the address it has set, the configuration and the  *)
  (* colour it counts on (none while it changes them), the transfer it is  *)
  (* in, and whether a report broke off.                                   *)
  bus, hostAddr, hostConf, xfer, agreed, broken

localVars  == <<prev, report, left, full, chosen, reg>>
deviceVars == <<devState, confNumber, hidState, remoteWakeup, colors>>
epVars     == <<selected, epType, epStalled>>
packetVars == <<setup, rxstp, rxout, outPkt, txin, inPkt>>
addrVars   == <<addr, addEn>>
intVars    == <<frozen, udien, line, eorsti, vbusti>>
hostVars   == <<bus, hostAddr, hostConf, xfer, agreed, broken>>
vars == <<pc, todo, request, localVars, deviceVars, epVars, packetVars,
          addrVars, intVars, hostVars>>

-----------------------------------------------------------------------------
(* Which requests are handled, and by which steps.                         *)

(* A request the library or the HID class has a handler for.               *)
Supported(r) ==
  /\ r.name # "Other"
  /\ r.name = "SetConfiguration" => r.arg <= Configurations
  /\ r.name \in {"GetDescriptor", "SetHalt", "ClearHalt"} => r.arg # 0

(* Mutations: the address is enabled before the status stage is over; the  *)
(* answer to a report is sent without reading it; a request is not cleared *)
(* before its data are read, or at all; the endpoints are configured       *)
(* before the status stage.                                                *)
AddressStepsHasty == <<"setAddress", "clearSETUP", "statusIN",
                       "enableAddress", "storeState">>
ReportStepsUnread == <<"clearSETUP", "awaitIN", "clearIN", "commit">>
ReportStepsUncleared == <<"receive", "awaitIN", "clearIN", "commit">>
HidStepsUncleared == <<"statusIN", "storeHid">>
ConfigurationStepsEager ==
  <<"clearSETUP", "setNumber", "chooseState", "storeState", "selectIN",
    "configureIN", "rewriteHigher", "loadEnables", "storeEnables", "statusIN">>

AddressSteps == <<"setAddress", "clearSETUP", "statusIN", "spinIN",
                  "enableAddress", "storeState">>
ReportSteps  == <<"clearSETUP", "receive", "awaitIN", "clearIN", "commit">>
HidSteps     == <<"clearSETUP", "statusIN", "storeHid">>
ConfigurationSteps == <<"clearSETUP", "setNumber", "statusIN", "chooseState",
                        "storeState", "selectIN", "configureIN",
                        "rewriteHigher", "loadEnables", "storeEnables">>

Handler ==
  [GetReport         |-> <<"clearSETUP", "clearIN", "awaitOUT", "clearOUT">>,
   SetReport         |-> ReportSteps,
   GetProtocol       |-> <<"clearSETUP", "spinIN", "clearIN", "statusOUT">>,
   SetProtocol       |-> HidSteps,
   GetIdle           |-> <<"clearSETUP", "spinIN", "clearIN", "statusOUT">>,
   SetIdle           |-> HidSteps,
   SetAddress        |-> AddressSteps,
   GetDescriptor     |-> <<"clearSETUP", "send", "awaitOUT", "clearOUT">>,
   GetConfiguration  |-> <<"clearSETUP", "clearIN", "statusOUT">>,
   SetConfiguration  |-> ConfigurationSteps,
   GetStatus         |-> <<"clearSETUP", "clearIN", "statusOUT">>,
   GetEndpointStatus |-> <<"selectEndpoint", "readStall", "clearSETUP",
                           "clearIN", "statusOUT">>,
   SetWakeup         |-> <<"storeWakeup", "clearSETUP", "statusIN">>,
   ClearWakeup       |-> <<"storeWakeup", "clearSETUP", "statusIN">>,
   SetHalt           |-> <<"selectEndpoint", "halt", "clearSETUP", "statusIN">>,
   ClearHalt         |-> <<"selectEndpoint", "halt", "clearSETUP", "statusIN">>,
   OtherFeature      |-> <<"clearSETUP", "statusIN">>]

-----------------------------------------------------------------------------
(* What the host is about when it has lost a transfer, if it was in one.   *)
NoTransfer == [stage |-> "recovering", req |-> NoRequest, by |-> NoRequest,
               wants |-> 0, raced |-> FALSE, outcome |-> "none"]

Init ==
  /\ pc = "hid" /\ todo = <<>> /\ prev = 0 /\ report = Garbage
  /\ left = 0 /\ full = FALSE /\ chosen = "Unattached" /\ reg = {}
  /\ request = NoRequest
  /\ devState = "Unattached" /\ confNumber = 0
  /\ hidState = [protocol |-> FALSE, idle |-> 0]
  /\ remoteWakeup = FALSE /\ colors = PowerUp
  /\ selected = 0
  /\ epType = [e \in Endpoints |-> IF e = 0 THEN "control" ELSE "off"]
  /\ epStalled = [e \in Endpoints |-> FALSE]
  /\ setup = NoRequest /\ rxstp = FALSE
  /\ rxout = FALSE /\ outPkt = NoColor
  /\ txin = TRUE /\ inPkt = NoRequest
  /\ addr = 0 /\ addEn = FALSE
  /\ frozen = FALSE /\ udien = {"SUSP"}
  /\ line = "none" /\ eorsti = FALSE /\ vbusti = FALSE
  /\ bus = "detached" /\ hostAddr = 0 /\ hostConf = 0
  /\ xfer = [NoTransfer EXCEPT !.stage = "idle"]
  /\ agreed = PowerUp /\ broken = FALSE

-----------------------------------------------------------------------------
(* The interrupt routine of the controller.                                *)

SuspendPending == line = "susp" /\ "SUSP" \in udien
WakeupPending  == line = "wake" /\ "WAKEUP" \in udien

InterruptPending == vbusti \/ SuspendPending \/ WakeupPending \/ eorsti

VbusChanged ==
  /\ vbusti
  /\ vbusti' = FALSE
  /\ devState' = IF bus = "detached" THEN "Unattached" ELSE "Powered"
  /\ UNCHANGED <<confNumber, hidState, remoteWakeup, colors, epVars,
                 packetVars, addrVars, frozen, udien, line, eorsti>>

(* Mutation: goes to sleep without an alarm.                               *)
EnablesAsleepOnly == udien \ {"SUSP"}

EnablesAsleep == (udien \ {"SUSP"}) \cup {"WAKEUP"}

Suspended ==
  /\ ~ vbusti
  /\ SuspendPending
  /\ udien' = EnablesAsleep
  /\ frozen' = TRUE
  /\ devState' = "Suspended"
  /\ UNCHANGED <<confNumber, hidState, remoteWakeup, colors, epVars,
                 packetVars, addrVars, line, eorsti, vbusti>>

(* Mutation: wakes up without looking at the configuration.                *)
AwakeStateAddressed == IF addEn THEN "Addressed" ELSE "Powered"

(* The state after a wake-up, and after a change of configuration.         *)
AwakeState == IF confNumber # 0 \/ addEn THEN "Configured" ELSE "Powered"

WokenUp ==
  /\ ~ vbusti
  /\ WakeupPending
  /\ frozen' = FALSE
  /\ line' = "none"
  /\ udien' = (udien \ {"WAKEUP"}) \cup {"SUSP"}
  /\ devState' = AwakeState
  /\ UNCHANGED <<confNumber, hidState, remoteWakeup, colors, epVars,
                 packetVars, addrVars, eorsti, vbusti>>

(* What an endpoint is once its configuration has been written again.      *)
Rewritten(type) == IF type = "disabled" THEN "interrupt" ELSE type

(* Configuring the control endpoint goes over every higher one, too, and   *)
(* rewrites and enables those that are allocated.  That empties a bank.    *)
BusWasReset ==
  /\ ~ (vbusti \/ SuspendPending \/ WakeupPending)
  /\ eorsti
  /\ eorsti' = FALSE
  /\ devState' = "Default" /\ confNumber' = 0
  /\ line' = IF line = "susp" THEN "none" ELSE line
  /\ udien' = (udien \ {"SUSP"}) \cup {"WAKEUP"}
  /\ selected' = 0
  /\ epType' = [e \in Endpoints |->
                  IF e = 0 THEN "control" ELSE Rewritten(epType[e])]
  /\ epStalled' = [e \in Endpoints |-> epType[e] = "off" /\ epStalled[e]]
  /\ rxstp' = FALSE /\ rxout' = FALSE /\ txin' = TRUE
  /\ UNCHANGED <<hidState, remoteWakeup, colors, setup, outPkt, inPkt,
                 addrVars, frozen, vbusti>>

UsbGen ==
  /\ VbusChanged \/ Suspended \/ WokenUp \/ BusWasReset
  /\ UNCHANGED <<pc, todo, request, localVars, hostVars>>

-----------------------------------------------------------------------------
(* The main loop between handlers.                                         *)

(* The flags of the selected endpoint; only the control endpoint has any   *)
(* the code reads.                                                         *)
SetupReceived == selected = 0 /\ rxstp

(* HID_Device_USBTask: no report is ever sent (CreateHIDReport makes none), *)
(* but once in a frame the IN endpoint is selected.                        *)
HidTask ==
  /\ pc = "hid"
  /\ pc' = "task"
  /\ \/ UNCHANGED selected
     \/ devState = "Configured" /\ selected' = 1
  /\ UNCHANGED <<todo, request, localVars, deviceVars, epType, epStalled,
                 packetVars, addrVars, intVars>>

(* USB_DeviceTask, and the reading of the request header.                  *)
DeviceTask ==
  /\ pc = "task"
  /\ IF devState # "Unattached" /\ rxstp
     THEN /\ prev' = selected
          /\ selected' = 0
          /\ request' = setup /\ setup' = NoRequest
          /\ pc' = "event"
     ELSE /\ pc' = "hid"
          /\ UNCHANGED <<prev, selected, request, setup>>
  /\ UNCHANGED <<todo, report, left, full, chosen, reg, deviceVars, epType,
                 epStalled, rxstp, rxout, outPkt, txin, inPkt, addrVars,
                 intVars>>

Dispatch(where, otherwise, names) ==
  /\ IF SetupReceived /\ request.name \in names /\ Supported(request)
     THEN pc' = where /\ todo' = Handler[request.name]
     ELSE pc' = otherwise /\ UNCHANGED todo
  /\ UNCHANGED <<request, localVars, deviceVars, epVars, packetVars, addrVars,
                 intVars>>

(* HID_Device_ProcessControlRequest, called from the event.                *)
ProcessClassRequest ==
  pc = "event" /\ Dispatch("class", "standard", ClassNames)

(* The switch of USB_Device_ProcessControlRequest.                         *)
ProcessStandardRequest ==
  pc = "standard" /\ Dispatch("handler", "final", StandardNames)

(* Mutation: an unknown request is dropped.                                *)
StallNothing == UNCHANGED epStalled

StallRequest == epStalled' = [epStalled EXCEPT ![0] = TRUE]

(* A request still not cleared is stalled.                                 *)
Final ==
  /\ pc = "final"
  /\ pc' = "hid"
  /\ IF SetupReceived
     THEN rxstp' = FALSE /\ StallRequest
     ELSE UNCHANGED <<rxstp, epStalled>>
  /\ selected' = prev
  /\ prev' = 0
  /\ UNCHANGED <<todo, request, report, left, full, chosen, reg, deviceVars,
                 epType, setup, rxout, outPkt, txin, inPkt, addrVars, intVars>>

-----------------------------------------------------------------------------
(* The steps of the handlers: those that use only the control endpoint.    *)

Now(step) == todo # <<>> /\ Head(todo) = step

(* What is next when a handler has no step left.                           *)
After == [class |-> "standard", handler |-> "final"]

Continue(rest) ==
  /\ todo' = rest
  /\ pc' = IF rest = <<>> THEN After[pc] ELSE pc

Unattached == devState = "Unattached"
Gone       == devState \in {"Unattached", "Suspended"}

(* Endpoint_ClearIN: hands the bank over, which does nothing twice.        *)
SendIN ==
  IF txin THEN txin' = FALSE /\ inPkt' = request ELSE UNCHANGED <<txin, inPkt>>

(* The packets of the data of a request: of a report, full ones of eight   *)
(* bytes (USB_Device_ControlEndpointSize) and a last one.                  *)
Packets(r) ==
  CASE r.name = "GetDescriptor" -> r.arg
    [] r.name = "SetReport"     -> (r.arg + 7) \div 8
    [] OTHER                    -> 0

ClearSETUP ==
  /\ Now("clearSETUP")
  /\ rxstp' = FALSE
  /\ left' = Packets(request)
  /\ Continue(Tail(todo))
  /\ UNCHANGED <<report, full, rxout, txin, inPkt>>

(* Endpoint_Read_Control_Stream_LE, its first loop, one packet at a time   *)
(* (each has the colour of its report); an escape from it leaves the whole *)
(* function.                                                               *)
Receive ==
  /\ Now("receive")
  /\ \/ /\ left = 0
        /\ rxout' = FALSE
        /\ Continue(Tail(todo))
        /\ UNCHANGED <<report, left>>
     \/ /\ left # 0
        /\ Gone \/ rxstp
        /\ left' = 0
        /\ Continue(Tail(Tail(todo)))
        /\ UNCHANGED <<report, rxout>>
     \/ /\ left # 0
        /\ ~ Gone /\ ~ rxstp
        /\ rxout
        /\ report' = outPkt
        /\ rxout' = FALSE
        /\ left' = left - 1
        /\ IF left = 1 THEN Continue(Tail(todo)) ELSE UNCHANGED <<pc, todo>>
  /\ UNCHANGED <<full, rxstp, txin, inPkt>>

(* Its second loop.                                                        *)
AwaitIN ==
  /\ Now("awaitIN")
  /\ txin \/ Gone
  /\ Continue(Tail(todo))
  /\ UNCHANGED <<report, left, full, rxstp, rxout, txin, inPkt>>

(* Mutation: the count of packets goes below zero at the empty packet.     *)
PacketsAfterUnchecked == left - 1

PacketsAfter == IF left = 0 THEN 0 ELSE left - 1
StatusEarly  == rxout

(* Endpoint_Write_Control_Stream_LE, its first loop, one round at a time:  *)
(* a full last packet is followed by an empty one.                         *)
Send ==
  /\ Now("send")
  /\ IF left = 0 /\ ~ full
     THEN Continue(Tail(todo)) /\ UNCHANGED <<left, full, txin, inPkt>>
     ELSE \/ /\ Gone \/ rxstp
             /\ Continue(Tail(Tail(todo)))
             /\ left' = 0 /\ full' = FALSE
             /\ UNCHANGED <<txin, inPkt>>
          \/ /\ ~ Gone /\ ~ rxstp /\ StatusEarly
             /\ Continue(Tail(todo))
             /\ left' = 0 /\ full' = FALSE
             /\ UNCHANGED <<txin, inPkt>>
          \/ /\ ~ Gone /\ ~ rxstp /\ ~ StatusEarly
             /\ txin
             /\ SendIN
             /\ left' = PacketsAfter
             /\ full' = (left > 1 \/ (left = 1 /\ request.exact))
             /\ UNCHANGED <<pc, todo>>
  /\ UNCHANGED <<report, rxstp, rxout>>

(* Its second loop.                                                        *)
AwaitOUT ==
  /\ Now("awaitOUT")
  /\ rxout \/ Gone
  /\ Continue(Tail(todo))
  /\ UNCHANGED <<report, left, full, rxstp, rxout, txin, inPkt>>

ClearIN ==
  /\ Now("clearIN")
  /\ SendIN
  /\ Continue(Tail(todo))
  /\ UNCHANGED <<report, left, full, rxstp, rxout>>

ClearOUT ==
  /\ Now("clearOUT")
  /\ rxout' = FALSE
  /\ Continue(Tail(todo))
  /\ UNCHANGED <<report, left, full, rxstp, txin, inPkt>>

(* Endpoint_ClearStatusStage of a request with data to the device.         *)
StatusIN ==
  /\ Now("statusIN")
  /\ \/ txin /\ SendIN
     \/ ~ txin /\ Unattached /\ UNCHANGED <<txin, inPkt>>
  /\ Continue(Tail(todo))
  /\ UNCHANGED <<report, left, full, rxstp, rxout>>

(* Endpoint_ClearStatusStage of a request with data to the host.           *)
StatusOUT ==
  /\ Now("statusOUT")
  /\ rxout \/ Unattached
  /\ rxout' = FALSE
  /\ Continue(Tail(todo))
  /\ UNCHANGED <<report, left, full, rxstp, txin, inPkt>>

(* while (!(Endpoint_IsINReady())); which nothing else ends.               *)
SpinIN ==
  /\ Now("spinIN")
  /\ txin
  /\ Continue(Tail(todo))
  /\ UNCHANGED <<report, left, full, rxstp, rxout, txin, inPkt>>

ControlStep ==
  /\ \/ ClearSETUP \/ Receive \/ AwaitIN \/ Send \/ AwaitOUT
     \/ ClearIN \/ ClearOUT \/ StatusIN \/ StatusOUT \/ SpinIN
  /\ UNCHANGED <<prev, chosen, reg, request, deviceVars, epVars, setup, outPkt,
                 addrVars, intVars>>

-----------------------------------------------------------------------------
(* The steps that store what a request sets.                               *)

(* Mutation: takes reports of every type.                                  *)
AcceptsAnyType(r) == r.arg = 3

Accepts(r) == r.out /\ r.arg = 3

(* CALLBACK_HID_Device_ProcessHIDReport.                                   *)
Commit ==
  /\ Now("commit")
  /\ colors' = IF Accepts(request) THEN report ELSE colors
  /\ report' = Garbage
  /\ UNCHANGED <<chosen, reg, devState, confNumber, hidState, remoteWakeup,
                 epVars, rxstp, rxout, txin, addrVars, udien>>

StoreHid ==
  /\ Now("storeHid")
  /\ hidState' = IF request.name = "SetProtocol"
                 THEN [hidState EXCEPT !.protocol = request.arg # 0]
                 ELSE [hidState EXCEPT !.idle = 4 * request.arg]
  /\ UNCHANGED <<report, chosen, reg, devState, confNumber, remoteWakeup,
                 colors, epVars, rxstp, rxout, txin, addrVars, udien>>

StoreWakeup ==
  /\ Now("storeWakeup")
  /\ remoteWakeup' = (request.name = "SetWakeup")
  /\ UNCHANGED <<report, chosen, reg, devState, confNumber, hidState, colors,
                 epVars, rxstp, rxout, txin, addrVars, udien>>

SetDeviceAddress ==
  /\ Now("setAddress")
  /\ addr' = request.arg
  /\ UNCHANGED <<report, chosen, reg, deviceVars, epVars, rxstp, rxout, txin,
                 addEn, udien>>

EnableDeviceAddress ==
  /\ Now("enableAddress")
  /\ addEn' = TRUE
  /\ chosen' = IF request.arg = 0 THEN "Default" ELSE "Addressed"
  /\ UNCHANGED <<report, reg, deviceVars, epVars, rxstp, rxout, txin, addr,
                 udien>>

SetNumber ==
  /\ Now("setNumber")
  /\ confNumber' = request.arg
  /\ UNCHANGED <<report, chosen, reg, devState, hidState, remoteWakeup, colors,
                 epVars, rxstp, rxout, txin, addrVars, udien>>

ChooseState ==
  /\ Now("chooseState")
  /\ chosen' = AwakeState
  /\ UNCHANGED <<report, reg, deviceVars, epVars, rxstp, rxout, txin, addrVars,
                 udien>>

StoreState ==
  /\ Now("storeState")
  /\ devState' = chosen
  /\ chosen' = "Unattached"
  /\ UNCHANGED <<report, reg, confNumber, hidState, remoteWakeup, colors,
                 epVars, rxstp, rxout, txin, addrVars, udien>>

(* HID_Device_ConfigureEndpoints, to the selection of the IN endpoint.     *)
SelectIN ==
  /\ Now("selectIN")
  /\ hidState' = [protocol |-> TRUE, idle |-> DefaultIdle]
  /\ selected' = 1
  /\ UNCHANGED <<report, chosen, reg, devState, confNumber, remoteWakeup,
                 colors, epType, epStalled, rxstp, rxout, txin, addrVars,
                 udien>>

(* USB_Device_EnableSOFEvents: |= on the register the interrupt routine    *)
(* writes too, which is a load and a store.                                *)
LoadEnables ==
  /\ Now("loadEnables")
  /\ reg' = udien
  /\ UNCHANGED <<report, chosen, deviceVars, epVars, rxstp, rxout, txin,
                 addrVars, udien>>

StoreEnables ==
  /\ Now("storeEnables")
  /\ udien' = reg \cup {"SOF"}
  /\ reg' = {}
  /\ UNCHANGED <<report, chosen, deviceVars, epVars, rxstp, rxout, txin,
                 addrVars>>

(* Mutation: leaves the endpoint selected.                                 *)
EndpointAfterHaltSame == selected

EndpointAfterHalt == 0

(* Mutation: leaves the endpoint selected.                                 *)
EndpointAfterStatusSame == selected

EndpointAfterStatus == 0

(* USB_Device_ClearSetFeature and USB_Device_GetStatus select the endpoint *)
(* the request names.                                                      *)
SelectEndpoint ==
  /\ Now("selectEndpoint")
  /\ selected' = request.arg
  /\ UNCHANGED <<report, chosen, reg, deviceVars, epType, epStalled, rxstp,
                 rxout, txin, addrVars, udien>>

Halt ==
  /\ Now("halt")
  /\ epStalled' = IF epType[selected] \in {"off", "disabled"} THEN epStalled
                  ELSE [epStalled EXCEPT ![selected] = request.name = "SetHalt"]
  /\ selected' = EndpointAfterHalt
  /\ UNCHANGED <<report, chosen, reg, deviceVars, epType, rxstp, rxout, txin,
                 addrVars, udien>>

(* What is read is the stall bit of the endpoint selected by then: data of *)
(* an answer, which is not modelled.                                       *)
ReadStall ==
  /\ Now("readStall")
  /\ selected' = EndpointAfterStatus
  /\ UNCHANGED <<report, chosen, reg, deviceVars, epType, epStalled, rxstp,
                 rxout, txin, addrVars, udien>>

StoreStep ==
  /\ \/ Commit \/ StoreHid \/ StoreWakeup
     \/ SetDeviceAddress \/ EnableDeviceAddress
     \/ SetNumber \/ ChooseState \/ StoreState
     \/ SelectIN \/ LoadEnables \/ StoreEnables
     \/ SelectEndpoint \/ Halt \/ ReadStall
  /\ Continue(Tail(todo))
  /\ UNCHANGED <<request, prev, left, full, setup, outPkt, inPkt, frozen, line,
                 eorsti, vbusti>>

(* Endpoint_ConfigureEndpoint_Prv, which goes over the IN endpoint and all *)
(* higher ones.  What is read and written is the endpoint that is selected *)
(* then, which a reset may have changed; a reset among the writes of one   *)
(* round leaves what one before or after them leaves.  The controller has  *)
(* memory for its endpoints, so none of them fails.                        *)
Configured(type) ==
  /\ epType' = [epType EXCEPT ![selected] = type]
  /\ epStalled' = [epStalled EXCEPT ![selected] = FALSE]
  /\ IF selected = 0
     THEN rxstp' = FALSE /\ rxout' = FALSE /\ txin' = TRUE
     ELSE UNCHANGED <<rxstp, rxout, txin>>

(* Its first round, and the selection of the next endpoint of five.        *)
ConfigureIN ==
  /\ Now("configureIN")
  /\ Configured("interrupt")
  /\ selected' = 2 /\ left' = 5
  /\ Continue(Tail(todo))

(* Its other rounds: an endpoint that is not allocated is left alone.  At  *)
(* the end the IN endpoint is selected again.                              *)
RewriteHigher ==
  /\ Now("rewriteHigher")
  /\ IF epType[selected] = "off"
     THEN UNCHANGED <<epType, epStalled, rxstp, rxout, txin>>
     ELSE Configured(Rewritten(epType[selected]))
  /\ left' = left - 1
  /\ IF left = 1
     THEN selected' = 1 /\ Continue(Tail(todo))
     ELSE selected' = 8 - left /\ UNCHANGED <<pc, todo>>

ConfigureStep ==
  /\ ConfigureIN \/ RewriteHigher
  /\ UNCHANGED <<request, prev, report, full, chosen, reg, deviceVars, setup,
                 outPkt, inPkt, addrVars, intVars>>

Main ==
  /\ ~ InterruptPending
  /\ \/ HidTask \/ DeviceTask \/ ProcessClassRequest
     \/ ProcessStandardRequest \/ Final
     \/ ControlStep \/ StoreStep \/ ConfigureStep
  /\ UNCHANGED hostVars

-----------------------------------------------------------------------------
(* The host and the bus (external).  xfer is its current transfer, or the  *)
(* last one.                                                               *)

ReadNames == {"GetReport", "GetProtocol", "GetIdle", "GetDescriptor",
              "GetConfiguration", "GetStatus", "GetEndpointStatus"}

Stages == {"in", "out", "statusIn", "statusOut"}

FirstStage(r) ==
  IF r.name \in ReadNames THEN "in"
  ELSE IF r.name = "SetReport" /\ r.arg # 0 THEN "out" ELSE "statusIn"

(* The packets a host may want of the answer: it may ask for less than     *)
(* there is, and past a full last packet it takes an empty one.  Of a      *)
(* report it gives all.                                                    *)
Wants(r) ==
  CASE r.name = "GetDescriptor" /\ r.arg # 0 ->
         1 .. (r.arg + IF r.exact THEN 1 ELSE 0)
    [] r.name = "SetReport" -> {Packets(r)}
    [] OTHER                -> {1}

(* The requests by which a host sets the colour.                           *)
SetsColor(r) == r.name = "SetReport" /\ r.out /\ r.arg = 3

(* Where the main loop is when nothing has reached it for a long time.     *)
Blocked ==
  \/ \E w \in {"awaitIN", "statusIN", "spinIN"} : Now(w) /\ ~ txin
  \/ \E w \in {"awaitOUT", "statusOUT"} : Now(w) /\ ~ rxout
  \/ Now("receive") /\ left # 0 /\ ~ rxout /\ ~ rxstp
  \/ Now("send") /\ ~ rxout /\ ~ rxstp /\ ~ txin

Settled == pc \in {"hid", "task"} \/ Blocked

(* The device hears what the host says to the address it uses.             *)
Hears ==
  /\ bus = "active" /\ ~ frozen /\ ~ vbusti /\ ~ eorsti
  /\ epType[0] = "control"
  /\ hostAddr = IF addEn THEN addr ELSE 0

(* A host assigns the address before anything else but descriptors.        *)
Sensible(r) ==
  IF hostAddr = 0
  THEN r.name = "GetDescriptor" \/ (r.name = "SetAddress" /\ r.arg = Address)
  ELSE r.name # "SetAddress"

(* A host that has completed a transfer may send the next at once; one     *)
(* that has lost one waits for far longer than the main loop needs.        *)
SendSetup ==
  /\ Hears
  /\ \/ xfer.stage = "idle"
     \/ xfer.stage = "recovering" /\ Settled
  /\ \E r \in Requests : \E wants \in Wants(r) :
       /\ Sensible(r)
       /\ setup' = r
       /\ xfer' = [stage |-> FirstStage(r), req |-> r, by |-> NoRequest,
                   wants |-> wants, outcome |-> "none",
                   raced |-> pc \notin {"hid", "task"}]
       /\ agreed' = IF SetsColor(r) THEN NoColor ELSE agreed
       /\ hostConf' = IF r.name = "SetConfiguration" THEN 0 ELSE hostConf
  /\ rxstp' = TRUE /\ txin' = TRUE /\ inPkt' = NoRequest
  /\ epStalled' = [epStalled EXCEPT ![0] = FALSE]
  /\ line' = "wake"
  /\ UNCHANGED <<selected, epType, rxout, outPkt, addrVars, frozen, udien,
                 eorsti, vbusti, bus, hostAddr, broken>>

(* What the host learns from the end of a transfer.                        *)
Complete(by) ==
  /\ xfer' = [xfer EXCEPT !.stage = "idle", !.outcome = "done", !.by = by]
  /\ hostAddr' = IF xfer.req.name = "SetAddress" THEN xfer.req.arg ELSE hostAddr
  /\ hostConf' = IF xfer.req.name = "SetConfiguration" THEN xfer.req.arg
                                                       ELSE hostConf
  /\ agreed' = IF SetsColor(xfer.req) THEN xfer.req.color ELSE agreed

Stalled ==
  /\ epStalled[0]
  /\ xfer' = [xfer EXCEPT !.stage = "idle", !.outcome = "stalled"]
  /\ UNCHANGED <<hostAddr, hostConf, agreed, txin, inPkt, rxout, outPkt>>

(* The device answers an IN token with the packet in the bank.             *)
TakeIN ==
  /\ xfer.stage \in {"in", "statusIn"}
  /\ ~ epStalled[0]
  /\ ~ txin
  /\ txin' = TRUE /\ inPkt' = NoRequest
  /\ IF xfer.stage = "statusIn"
     THEN Complete(inPkt)
     ELSE /\ xfer' = [xfer EXCEPT !.wants = @ - 1, !.by = inPkt,
                        !.stage = IF xfer.wants = 1 THEN "statusOut" ELSE "in"]
          /\ UNCHANGED <<hostAddr, hostConf, agreed>>
  /\ UNCHANGED <<rxout, outPkt>>

(* An OUT packet of the report, or the empty one of the status stage.      *)
GiveOUT ==
  /\ xfer.stage \in {"out", "statusOut"}
  /\ ~ epStalled[0]
  /\ ~ rxout
  /\ rxout' = TRUE
  /\ IF xfer.stage = "statusOut"
     THEN Complete(xfer.by) /\ outPkt' = NoColor
     ELSE /\ outPkt' = xfer.req.color
          /\ xfer' = [xfer EXCEPT !.wants = @ - 1,
                        !.stage = IF xfer.wants = 1 THEN "statusIn" ELSE "out"]
          /\ UNCHANGED <<hostAddr, hostConf, agreed>>
  /\ UNCHANGED <<txin, inPkt>>

(* Tokens wait while a SETUP packet is not cleared.                        *)
Token ==
  /\ Hears
  /\ ~ rxstp
  /\ \/ xfer.stage \in Stages /\ Stalled
     \/ TakeIN
     \/ GiveOUT
  /\ UNCHANGED <<epVars, setup, rxstp, addrVars, intVars, bus, broken>>

(* What a break in a transfer does to the host.                            *)
BreakOff ==
  /\ xfer' = NoTransfer
  /\ broken' = (broken \/ (xfer.stage \in Stages /\ xfer.req.name = "SetReport"))
  /\ UNCHANGED <<selected, epStalled, packetVars, addr, agreed>>

(* The host gives up a transfer after a timeout.                           *)
Abort ==
  /\ "abort" \in Disturbances
  /\ xfer.stage \in Stages
  /\ Settled
  /\ BreakOff
  /\ UNCHANGED <<epType, addEn, intVars, bus, hostAddr, hostConf>>

(* What happens on the bus takes milliseconds: far longer than interrupts. *)
Plug ==
  /\ bus = "detached"
  /\ bus' = "attached"
  /\ vbusti' = TRUE
  /\ BreakOff
  /\ UNCHANGED <<epType, addEn, frozen, udien, line, eorsti, hostAddr,
                 hostConf>>

Unplug ==
  /\ "unplug" \in Disturbances
  /\ bus # "detached"
  /\ bus' = "detached"
  /\ vbusti' = TRUE
  /\ BreakOff
  /\ UNCHANGED <<epType, addEn, frozen, udien, line, eorsti, hostAddr,
                 hostConf>>

(* The controller forgets its address and disables every endpoint but the  *)
(* control endpoint; the data sheet does not say whether they also lose    *)
(* their memory.                                                           *)
Reset ==
  /\ \/ bus = "attached"
     \/ bus \in {"active", "suspended"} /\ "reset" \in Disturbances
  /\ bus' = "active"
  /\ eorsti' = TRUE
  /\ line' = "wake"
  /\ addEn' = FALSE
  /\ \E type \in {"off", "disabled"} :
       epType' = [e \in Endpoints |->
                    IF e = 0 \/ epType[e] = "off" THEN epType[e] ELSE type]
  /\ hostAddr' = 0 /\ hostConf' = 0
  /\ BreakOff
  /\ UNCHANGED <<frozen, udien, vbusti>>

Suspend ==
  /\ "suspend" \in Disturbances
  /\ bus = "active"
  /\ bus' = "suspended"
  /\ line' = "susp"
  /\ BreakOff
  /\ UNCHANGED <<epType, addEn, frozen, udien, eorsti, vbusti, hostAddr,
                 hostConf>>

Resume ==
  /\ bus = "suspended"
  /\ bus' = "active"
  /\ line' = "wake"
  /\ BreakOff
  /\ UNCHANGED <<epType, addEn, frozen, udien, eorsti, vbusti, hostAddr,
                 hostConf>>

BusEvent ==
  /\ ~ InterruptPending
  /\ Plug \/ Unplug \/ Reset \/ Suspend \/ Resume

Host ==
  /\ SendSetup \/ Token \/ Abort \/ BusEvent
  /\ UNCHANGED <<pc, todo, request, localVars, deviceVars>>

Next == UsbGen \/ Main \/ Host

(* The CPU runs; the host sends the tokens of a transfer until it ends and *)
(* goes on with requests.  Nothing makes it disturb a transfer.            *)
Fairness ==
  /\ WF_vars(UsbGen)
  /\ WF_vars(Main)
  /\ WF_vars(Host /\ (SendSetup \/ Token))

Spec == Init /\ [][Next]_vars

FairSpec == Spec /\ Fairness

-----------------------------------------------------------------------------
(* Properties.                                                             *)

DeviceStates == {"Unattached", "Powered", "Default", "Addressed",
                 "Configured", "Suspended"}

RequestOrNone == Requests \cup {NoRequest}

Transfers == [stage : Stages \cup {"idle", "recovering"},
              req : RequestOrNone, by : RequestOrNone,
              wants : Nat, raced : BOOLEAN,
              outcome : {"none", "done", "stalled"}]

(* What is left of a handler is a tail of its list of steps.               *)
MainOK ==
  /\ pc \in {"hid", "task", "event", "class", "standard", "handler", "final"}
  /\ pc \in {"class", "handler"} <=> todo # <<>>
  /\ todo # <<>> => \E k \in 1 .. Len(Handler[request.name]) :
       todo = SubSeq(Handler[request.name], k, Len(Handler[request.name]))
  /\ prev \in Endpoints
  /\ report \in Colors \cup {Garbage, NoColor}
  /\ left \in Nat /\ full \in BOOLEAN
  /\ Now("rewriteHigher") => left \in 1 .. 5
  /\ chosen \in DeviceStates
  /\ reg \subseteq {"SOF", "SUSP", "WAKEUP"}
  /\ request \in RequestOrNone

DeviceOK ==
  /\ devState \in DeviceStates
  /\ confNumber \in 0 .. Configurations
  /\ hidState \in [protocol : BOOLEAN, idle : Nat]
  /\ remoteWakeup \in BOOLEAN
  /\ colors \in Colors \cup {Garbage, NoColor}

ControllerOK ==
  /\ selected \in Endpoints
  /\ epType \in [Endpoints -> {"off", "disabled", "control", "interrupt"}]
  /\ epStalled \in [Endpoints -> BOOLEAN]
  /\ {setup, inPkt} \subseteq RequestOrNone
  /\ {rxstp, rxout, txin} \subseteq BOOLEAN
  /\ outPkt \in Colors \cup {NoColor}
  /\ addr \in Nat /\ addEn \in BOOLEAN
  /\ {frozen, eorsti, vbusti} \subseteq BOOLEAN
  /\ udien \subseteq {"SOF", "SUSP", "WAKEUP"}
  /\ line \in {"none", "susp", "wake"}

HostOK ==
  /\ bus \in {"detached", "attached", "active", "suspended"}
  /\ {hostAddr, hostConf} \subseteq Nat
  /\ xfer \in Transfers
  /\ agreed \in Colors \cup {NoColor}
  /\ broken \in BOOLEAN

(* Every variable stays in its type; in particular no handler loses its    *)
(* place and no stream sends more than it has.                             *)
TypeOK == MainOK /\ DeviceOK /\ ControllerOK /\ HostOK

(* A request the firmware has a handler for is stalled only if it came     *)
(* before the handler of the last request had returned.                    *)
StalledOnlyIfRaced ==
  xfer.outcome = "stalled" /\ Supported(xfer.req) => xfer.raced

(* A transfer that completes was answered by the handler of the request    *)
(* that began it, never by what another request had left in the bank.      *)
AnswersMatch == xfer.outcome = "done" => xfer.by = xfer.req

(* The colours are those of an uninitialised buffer only after the host    *)
(* has broken off a report.                                                *)
GarbageOnlyIfBroken == colors = Garbage => broken

(* When the main loop is back from the handlers, the colours are those of  *)
(* the last Out report of three bytes the host saw complete, whatever      *)
(* other reports come between (if it never broke one off: the packet of    *)
(* that one is taken for the next).                                        *)
ReportTaken ==
  pc = "hid" /\ agreed # NoColor /\ ~ broken => colors = agreed

(* A device whose clock is frozen can be woken: the interrupt that does it *)
(* is enabled, or the suspend routine is about to enable it.               *)
WakeupArmed == frozen => "WAKEUP" \in udien \/ SuspendPending

(* The main loop works on the control endpoint whenever a step assumes so, *)
(* wherever the interrupt routine and the other tasks left the selection.  *)
ControlSelected ==
  todo # <<>> /\ Head(todo) \notin {"halt", "readStall", "configureIN",
                                   "rewriteHigher", "loadEnables",
                                   "storeEnables"} => selected = 0

(* A configuration the host has set is kept until it resets or unplugs the *)
(* device: once handlers and interrupts are done the state says so, and    *)
(* the IN endpoint is there.                                               *)
ConfigurationKept ==
  hostConf # 0 /\ bus = "active" /\ pc = "hid" /\ ~ InterruptPending =>
    /\ devState = "Configured"
    /\ confNumber = hostConf
    /\ epType[1] = "interrupt"

(* The address is never enabled while the host still waits for the status  *)
(* stage of SetAddress, which the device must answer on the old address    *)
(* (unless it is a second SetAddress, sent while the first is handled).    *)
AddressAfterStatus ==
  [][addEn' # addEn /\ addEn' /\ xfer.req.name = "SetAddress" =>
       xfer.stage # "statusIn" \/ xfer.raced]_vars

(* The control endpoint and the host as a ControlPipe: what the host sees  *)
(* of its transfers.                                                       *)
PipeState ==
  IF xfer.stage \in Stages THEN "pending"
  ELSE IF xfer.stage = "recovering" THEN "lost"
  ELSE [none |-> "idle", done |-> "served", stalled |-> "refused"][xfer.outcome]

PipeAnswer == IF PipeState = "served" THEN xfer.by ELSE NoRequest

Pipe == INSTANCE ControlPipe WITH
  Known   <- {r \in Requests : Supported(r)},
  Nothing <- NoRequest,
  state   <- PipeState,
  req     <- xfer.req,
  early   <- xfer.raced,
  answer  <- PipeAnswer

(* Whatever happens on the bus, transfers go as ControlPipe says: one that *)
(* ends was answered by its own handler, or refused because nobody knows   *)
(* it or because it came early.                                            *)
ServesPipe == Pipe!SafeSpec

(* Left in peace, the device serves or refuses every request.              *)
ServesPipeFairly == Pipe!Spec

(* The main loop comes back to its USB task, and with it to rendering.     *)
TaskServiced == []<>(pc = "task")

(* "The device has been enumerated by the host" (Device.h:96): Configured  *)
(* is the state of a device that has a configuration.                      *)
ConfiguredIsConfigured == devState = "Configured" => confNumber # 0

(* "the device has been addressed by the USB Host" (Device.h:92): Addressed *)
(* is the state of a device whose host has given it an address.            *)
AddressedIsAddressed ==
  devState = "Addressed" /\ ~ InterruptPending => hostAddr # 0

(* "a buffer where the received report has been stored" (main.cpp:88).     *)
ReportsAreReceived == colors # Garbage

(* "it is automatically configured by the library" (Endpoint_AVR8.h:188):  *)
(* the control endpoint is a control endpoint.                             *)
ControlConfigured == epType[0] = "control"
=============================================================================

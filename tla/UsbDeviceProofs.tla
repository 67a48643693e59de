-------------------------- MODULE UsbDeviceProofs --------------------------
(***************************************************************************)
(* Proofs about UsbDevice, for every set of requests and every             *)
(* disturbance: the main loop works on the endpoint its handlers mean, and *)
(* a sleeping device can be woken.  Both rest on the order in which the    *)
(* steps of a handler may come.                                            *)
(***************************************************************************)
EXTENDS UsbDevice, TLAPS

StepNames ==
  {"clearSETUP", "receive", "awaitIN", "send", "awaitOUT", "clearIN",
   "clearOUT", "statusIN", "statusOUT", "spinIN", "commit", "storeHid",
   "storeWakeup", "setAddress", "enableAddress", "setNumber", "chooseState",
   "storeState", "selectIN", "configureIN", "rewriteHigher", "loadEnables",
   "storeEnables", "selectEndpoint", "halt", "readStall"}

(* Steps during which another endpoint is selected, or none matters.       *)
Elsewhere == {"halt", "readStall", "configureIN", "rewriteHigher",
              "loadEnables", "storeEnables"}

(* The order of the steps in which the endpoints and the interrupt enables *)
(* are dealt with.                                                         *)
Ordered(s) ==
  /\ \A i \in 1 .. Len(s) - 1 :
       /\ s[i] = "selectEndpoint" => s[i + 1] \in {"halt", "readStall"}
       /\ s[i] = "selectIN" => s[i + 1] = "configureIN"
       /\ s[i] = "configureIN" => s[i + 1] = "rewriteHigher"
       /\ s[i] = "rewriteHigher" => s[i + 1] = "loadEnables"
       /\ s[i] = "loadEnables" => s[i + 1] = "storeEnables"
       /\ s[i + 1] = "storeEnables" => s[i] = "loadEnables"
       /\ s[i] # "storeEnables"
       /\ s[i + 1] \in Elsewhere => s[i] \notin {"receive", "send"}
  /\ \A i \in 1 .. Len(s) : s[i] \in {"receive", "send"} => i # Len(s)
  /\ \A i, j \in 1 .. Len(s) :
       s[i] \in {"receive", "send"} => s[j] # "storeEnables"

PlaceInv ==
  /\ todo \in Seq(StepNames)
  /\ Ordered(todo)
  /\ todo # <<>> => pc \in {"class", "handler"}

SelectInv == PlaceInv /\ ControlSelected

(* Of the two interrupts a device waits for exactly one.                   *)
OneOf(enables) == "SUSP" \in enables <=> "WAKEUP" \notin enables

SleepInv ==
  /\ OneOf(udien)
  /\ Now("storeEnables") => OneOf(reg)
  /\ frozen => line \in {"susp", "wake"}
  /\ frozen /\ line = "wake" => "WAKEUP" \in udien
  /\ eorsti => line # "susp"

-----------------------------------------------------------------------------
(* Sequences of steps.                                                     *)

LEMMA TailOrdered ==
  ASSUME NEW s \in Seq(StepNames), s # <<>>, Ordered(s)
  PROVE  /\ Tail(s) \in Seq(StepNames)
         /\ Ordered(Tail(s))
         /\ Head(s) = s[1]
         /\ Tail(s) # <<>> => Len(s) >= 2 /\ Head(Tail(s)) = s[2]
<1>1. /\ Tail(s) \in Seq(StepNames)
      /\ Len(Tail(s)) = Len(s) - 1
      /\ Len(s) \in Nat \ {0}
      /\ \A i \in 1 .. Len(s) - 1 : Tail(s)[i] = s[i + 1]
  OBVIOUS
<1>2. \A i \in 1 .. Len(Tail(s)) - 1 :
        i + 1 \in 1 .. Len(s) - 1 /\ Tail(s)[i] = s[i + 1]
                                 /\ Tail(s)[i + 1] = s[i + 2]
  BY <1>1
<1>3. \A i \in 1 .. Len(Tail(s)) :
        i + 1 \in 1 .. Len(s) /\ Tail(s)[i] = s[i + 1]
  BY <1>1
<1>4. /\ Len(Tail(s)) + 1 = Len(s)
      /\ \A i \in 1 .. Len(Tail(s)) : i = Len(Tail(s)) <=> i + 1 = Len(s)
  BY <1>1
<1>5. \A i \in 1 .. Len(Tail(s)) :
        Tail(s)[i] \in {"receive", "send"} => i # Len(Tail(s))
  BY <1>3, <1>4 DEF Ordered
<1>6. Ordered(Tail(s))
  BY <1>2, <1>3, <1>5 DEF Ordered
<1>7. QED
  BY <1>1, <1>6

(* The handlers, as the firmware has them, are ordered, and none begins    *)
(* with a store of the enables.                                            *)
LEMMA HandlerOrdered ==
  ASSUME NEW n \in ClassNames \cup StandardNames
  PROVE  /\ Handler[n] \in Seq(StepNames)
         /\ Ordered(Handler[n])
         /\ Head(Handler[n]) # "storeEnables"
<1>1. CASE n \in {"SetReport"}
  <2>1. Handler[n] = ReportSteps
    BY <1>1 DEF Handler
  <2>2. ReportSteps \in Seq(StepNames)
    BY DEF ReportSteps, StepNames
  <2>3. Ordered(ReportSteps) /\ Head(ReportSteps) # "storeEnables"
    BY DEF ReportSteps, Ordered, Elsewhere
  <2>4. QED
    BY <2>1, <2>2, <2>3
<1>2. CASE n \in {"SetProtocol", "SetIdle"}
  <2>1. Handler[n] = HidSteps
    BY <1>2 DEF Handler
  <2>2. HidSteps \in Seq(StepNames)
    BY DEF HidSteps, StepNames
  <2>3. Ordered(HidSteps) /\ Head(HidSteps) # "storeEnables"
    BY DEF HidSteps, Ordered, Elsewhere
  <2>4. QED
    BY <2>1, <2>2, <2>3
<1>3. CASE n \in {"SetAddress"}
  <2>1. Handler[n] = AddressSteps
    BY <1>3 DEF Handler
  <2>2. AddressSteps \in Seq(StepNames)
    BY DEF AddressSteps, StepNames
  <2>3. Ordered(AddressSteps) /\ Head(AddressSteps) # "storeEnables"
    BY DEF AddressSteps, Ordered, Elsewhere
  <2>4. QED
    BY <2>1, <2>2, <2>3
<1>4. CASE n \in {"SetConfiguration"}
  <2>1. Handler[n] = ConfigurationSteps
    BY <1>4 DEF Handler
  <2>2. ConfigurationSteps \in Seq(StepNames)
    BY DEF ConfigurationSteps, StepNames
  <2>3. Ordered(ConfigurationSteps) /\ Head(ConfigurationSteps) # "storeEnables"
    BY DEF ConfigurationSteps, Ordered, Elsewhere
  <2>4. QED
    BY <2>1, <2>2, <2>3
<1>5. CASE n \in {"GetReport"}
  <2> DEFINE s == <<"clearSETUP", "clearIN", "awaitOUT", "clearOUT">>
  <2>1. Handler[n] = s
    BY <1>5 DEF Handler
  <2>2. s \in Seq(StepNames)
    BY DEF StepNames
  <2>3. Ordered(s) /\ Head(s) # "storeEnables"
    BY DEF Ordered, Elsewhere
  <2>4. QED
    BY <2>1, <2>2, <2>3
<1>6. CASE n \in {"GetProtocol", "GetIdle"}
  <2> DEFINE s == <<"clearSETUP", "spinIN", "clearIN", "statusOUT">>
  <2>1. Handler[n] = s
    BY <1>6 DEF Handler
  <2>2. s \in Seq(StepNames)
    BY DEF StepNames
  <2>3. Ordered(s) /\ Head(s) # "storeEnables"
    BY DEF Ordered, Elsewhere
  <2>4. QED
    BY <2>1, <2>2, <2>3
<1>7. CASE n \in {"GetDescriptor"}
  <2> DEFINE s == <<"clearSETUP", "send", "awaitOUT", "clearOUT">>
  <2>1. Handler[n] = s
    BY <1>7 DEF Handler
  <2>2. s \in Seq(StepNames)
    BY DEF StepNames
  <2>3. Ordered(s) /\ Head(s) # "storeEnables"
    BY DEF Ordered, Elsewhere
  <2>4. QED
    BY <2>1, <2>2, <2>3
<1>8. CASE n \in {"GetConfiguration", "GetStatus"}
  <2> DEFINE s == <<"clearSETUP", "clearIN", "statusOUT">>
  <2>1. Handler[n] = s
    BY <1>8 DEF Handler
  <2>2. s \in Seq(StepNames)
    BY DEF StepNames
  <2>3. Ordered(s) /\ Head(s) # "storeEnables"
    BY DEF Ordered, Elsewhere
  <2>4. QED
    BY <2>1, <2>2, <2>3
<1>9. CASE n \in {"SetWakeup", "ClearWakeup"}
  <2> DEFINE s == <<"storeWakeup", "clearSETUP", "statusIN">>
  <2>1. Handler[n] = s
    BY <1>9 DEF Handler
  <2>2. s \in Seq(StepNames)
    BY DEF StepNames
  <2>3. Ordered(s) /\ Head(s) # "storeEnables"
    BY DEF Ordered, Elsewhere
  <2>4. QED
    BY <2>1, <2>2, <2>3
<1>10. CASE n \in {"SetHalt", "ClearHalt"}
  <2> DEFINE s == <<"selectEndpoint", "halt", "clearSETUP", "statusIN">>
  <2>1. Handler[n] = s
    BY <1>10 DEF Handler
  <2>2. s \in Seq(StepNames)
    BY DEF StepNames
  <2>3. Ordered(s) /\ Head(s) # "storeEnables"
    BY DEF Ordered, Elsewhere
  <2>4. QED
    BY <2>1, <2>2, <2>3
<1>11. CASE n \in {"GetEndpointStatus"}
  <2> DEFINE s == <<"selectEndpoint", "readStall", "clearSETUP", "clearIN",
                  "statusOUT">>
  <2>1. Handler[n] = s
    BY <1>11 DEF Handler
  <2>2. s \in Seq(StepNames)
    BY DEF StepNames
  <2>3. Ordered(s) /\ Head(s) # "storeEnables"
    BY DEF Ordered, Elsewhere
  <2>4. QED
    BY <2>1, <2>2, <2>3
<1>12. CASE n \in {"OtherFeature"}
  <2> DEFINE s == <<"clearSETUP", "statusIN">>
  <2>1. Handler[n] = s
    BY <1>12 DEF Handler
  <2>2. s \in Seq(StepNames)
    BY DEF StepNames
  <2>3. Ordered(s) /\ Head(s) # "storeEnables"
    BY DEF Ordered, Elsewhere
  <2>4. QED
    BY <2>1, <2>2, <2>3
<1>13. QED
  BY <1>1, <1>2, <1>3, <1>4, <1>5, <1>6, <1>7, <1>8, <1>9, <1>10, <1>11, <1>12
     DEF ClassNames, StandardNames

-----------------------------------------------------------------------------
(* How a step moves in the handler: it stays, takes one step or leaves a   *)
(* stream with two, or it enters a handler.                                *)
Stays  == UNCHANGED todo /\ (todo # <<>> => pc' = pc)
Goes   == todo # <<>> /\ todo' = Tail(todo) /\ (todo' # <<>> => pc' = pc)
Leaves == /\ todo # <<>> /\ Head(todo) \in {"receive", "send"}
          /\ todo' = Tail(Tail(todo)) /\ (todo' # <<>> => pc' = pc)
Enters == /\ todo = <<>> /\ selected = 0
          /\ \E n \in ClassNames \cup StandardNames : todo' = Handler[n]
          /\ pc' \in {"class", "handler"}

LEMMA ControlMove ==
  ASSUME PlaceInv, ControlStep
  PROVE  /\ Stays \/ Goes \/ Leaves
         /\ todo # <<>>
         /\ Head(todo) \notin Elsewhere \cup {"selectIN", "selectEndpoint"}
         /\ UNCHANGED <<selected, reg, udien, frozen, line, eorsti>>
BY DEF ControlStep, ClearSETUP, Receive, AwaitIN, Send, AwaitOUT, ClearIN,
   ClearOUT, StatusIN, StatusOUT, SpinIN, Continue, Now, Stays, Goes, Leaves,
   Elsewhere, epVars, intVars

LEMMA StoreMove ==
  ASSUME PlaceInv, StoreStep
  PROVE  Goes
BY DEF StoreStep, Continue, Goes, Now, Commit, StoreHid, StoreWakeup,
   SetDeviceAddress, EnableDeviceAddress, SetNumber, ChooseState, StoreState,
   SelectIN, LoadEnables, StoreEnables, SelectEndpoint, Halt, ReadStall

LEMMA ConfigureMove ==
  ASSUME PlaceInv, ConfigureStep
  PROVE  /\ Stays \/ Goes
         /\ todo # <<>>
         /\ \/ Head(todo) = "configureIN" /\ Goes
            \/ Head(todo) = "rewriteHigher"
         /\ UNCHANGED <<reg, udien, frozen, line, eorsti>>
BY DEF ConfigureStep, Continue, Stays, Goes, Now, ConfigureIN, RewriteHigher,
   intVars

LEMMA DispatchMove ==
  ASSUME PlaceInv, ProcessClassRequest \/ ProcessStandardRequest
  PROVE  /\ Stays \/ Enters
         /\ todo = <<>>
         /\ UNCHANGED <<selected, reg, udien, frozen, line, eorsti>>
BY DEF PlaceInv, ProcessClassRequest, ProcessStandardRequest, Dispatch, Stays,
   Enters, SetupReceived, localVars, epVars, intVars

LEMMA OtherMove ==
  ASSUME PlaceInv, UsbGen \/ HidTask \/ DeviceTask \/ Final \/ Host
                   \/ UNCHANGED vars
  PROVE  Stays
BY DEF PlaceInv, UsbGen, HidTask, DeviceTask, Final, Host, vars, Stays

-----------------------------------------------------------------------------
(* The invariants are kept.                                                *)

LEMMA PlaceStep ==
  ASSUME PlaceInv, Next \/ UNCHANGED vars
  PROVE  PlaceInv'
<1>1. Stays \/ Goes \/ Leaves \/ Enters
  BY ControlMove, StoreMove, ConfigureMove, DispatchMove, OtherMove
  DEF Next, Main
<1>2. CASE Stays
  BY <1>2 DEF PlaceInv, Stays
<1>3. CASE Goes
  BY <1>3, TailOrdered DEF PlaceInv, Goes
<1>4. CASE Leaves
  <2>1. Len(todo) \in Nat \ {0} /\ Head(todo) = todo[1]
    BY <1>4 DEF PlaceInv, Leaves
  <2>2. Len(todo) # 1
    BY <1>4, <2>1 DEF PlaceInv, Leaves, Ordered
  <2>3. Len(Tail(todo)) = Len(todo) - 1
    BY <1>4 DEF PlaceInv, Leaves
  <2>4. Tail(todo) # <<>>
    BY <2>1, <2>2, <2>3
  <2>5. Tail(todo) \in Seq(StepNames) /\ Ordered(Tail(todo))
    BY <1>4, TailOrdered DEF PlaceInv, Leaves
  <2>6. QED
    BY <1>4, <2>4, <2>5, TailOrdered DEF PlaceInv, Leaves
<1>5. CASE Enters
  BY <1>5, HandlerOrdered DEF PlaceInv, Enters
<1>6. QED
  BY <1>1, <1>2, <1>3, <1>4, <1>5

LEMMA SelectStep ==
  ASSUME SelectInv, Next \/ UNCHANGED vars
  PROVE  ControlSelected'
<1>1. CASE ControlStep
  BY <1>1, ControlMove DEF SelectInv, ControlSelected, Elsewhere
<1>2. CASE ProcessClassRequest \/ ProcessStandardRequest
  BY <1>2, DispatchMove DEF SelectInv, ControlSelected, Enters, Stays
<1>3. CASE HidTask \/ DeviceTask \/ Final
  BY <1>3 DEF SelectInv, PlaceInv, ControlSelected, HidTask, DeviceTask, Final
<1>4. CASE UsbGen
  BY <1>4 DEF SelectInv, ControlSelected, UsbGen, VbusChanged, Suspended,
     WokenUp, BusWasReset, epVars
<1>5. CASE Host \/ UNCHANGED vars
  BY <1>5 DEF SelectInv, ControlSelected, vars, epVars, Host, SendSetup, Token,
     Abort, BusEvent, Plug, Unplug, Reset, Suspend, Resume, BreakOff
<1>6. CASE StoreStep
  <2>1. /\ todo # <<>> /\ todo' = Tail(todo) /\ Head(todo) = todo[1]
        /\ todo' # <<>> => Len(todo) >= 2 /\ Head(todo') = todo[2]
    BY <1>6, StoreMove, TailOrdered DEF SelectInv, PlaceInv, Goes
  <2>2. CASE SelectIN \/ LoadEnables \/ StoreEnables \/ SelectEndpoint
    <3>1. todo[1] \in {"selectIN", "loadEnables", "storeEnables",
                       "selectEndpoint"}
      BY <2>1, <2>2 DEF Now, SelectIN, LoadEnables, StoreEnables, SelectEndpoint
    <3>2. todo' # <<>> => 1 \in 1 .. Len(todo) - 1
      BY <2>1 DEF SelectInv, PlaceInv
    <3>3. todo' # <<>> => todo[2] \in Elsewhere
      BY <3>1, <3>2 DEF SelectInv, PlaceInv, Ordered, Elsewhere
    <3>4. todo' # <<>> => Head(todo') \in Elsewhere
      BY <2>1, <3>3
    <3>5. QED
      BY <3>4 DEF ControlSelected, Elsewhere
  <2>3. CASE Halt \/ ReadStall
    BY <2>3 DEF Halt, EndpointAfterHalt, ReadStall, EndpointAfterStatus,
       ControlSelected
  <2>4. CASE \/ Commit \/ StoreHid \/ StoreWakeup
             \/ SetDeviceAddress \/ EnableDeviceAddress
             \/ SetNumber \/ ChooseState \/ StoreState
    BY <2>1, <2>4 DEF SelectInv, ControlSelected, Now, epVars, Commit, StoreHid,
       StoreWakeup, SetDeviceAddress, EnableDeviceAddress, SetNumber,
       ChooseState, StoreState
  <2>5. QED
    BY <1>6, <2>2, <2>3, <2>4 DEF StoreStep
<1>7. CASE ConfigureStep
  <2>1. CASE Stays /\ Head(todo) = "rewriteHigher"
    BY <2>1 DEF Stays, ControlSelected
  <2>2. CASE Goes
    <3>1. /\ todo[1] \in {"configureIN", "rewriteHigher"}
          /\ todo' # <<>> => Len(todo) >= 2 /\ Head(todo') = todo[2]
      BY <1>7, <2>2, ConfigureMove, TailOrdered DEF SelectInv, PlaceInv, Goes
    <3>2. todo' # <<>> => 1 \in 1 .. Len(todo) - 1
      BY <3>1 DEF SelectInv, PlaceInv
    <3>3. todo' # <<>> => Head(todo') \in Elsewhere
      BY <3>1, <3>2 DEF SelectInv, PlaceInv, Ordered, Elsewhere
    <3>4. QED
      BY <3>3 DEF ControlSelected, Elsewhere
  <2>3. QED
    BY <1>7, <2>1, <2>2, ConfigureMove DEF SelectInv
<1>8. QED
  BY <1>1, <1>2, <1>3, <1>4, <1>5, <1>6, <1>7 DEF Next, Main

LEMMA SelectInvariant == Spec => []SelectInv
<1>1. Init => SelectInv
  BY DEF Init, SelectInv, PlaceInv, ControlSelected, Ordered
<1>2. SelectInv /\ [Next]_vars => SelectInv'
  BY PlaceStep, SelectStep DEF SelectInv
<1>3. QED
  BY <1>1, <1>2, PTL DEF Spec

(* Whenever a step of a handler uses the control endpoint, it is the one   *)
(* selected, wherever the interrupt routine (USBInterrupt_AVR8.c:162) and  *)
(* the HID task left the selection: GetStatus, SetFeature and ClearFeature *)
(* come back from the endpoint they name (DeviceStandardReq.c:305-311 and  *)
(* 349-372), and SetConfiguration does not use it again once it has gone   *)
(* to the IN endpoint.                                                     *)
THEOREM Selection == Spec => []ControlSelected
<1>1. SelectInv => ControlSelected
  BY DEF SelectInv
<1>2. QED
  BY <1>1, SelectInvariant, PTL

-----------------------------------------------------------------------------
(* A sleeping device can be woken.                                         *)

(* Only the load of the enables leads to their store.                      *)
LEMMA StoreAfterLoad ==
  ASSUME PlaceInv, Next \/ UNCHANGED vars, Now("storeEnables")'
  PROVE  Stays \/ (Goes /\ Now("loadEnables"))
<1>1. Stays \/ Goes \/ Leaves \/ Enters
  BY ControlMove, StoreMove, ConfigureMove, DispatchMove, OtherMove
  DEF Next, Main
<1>2. CASE Goes
  <2>1. /\ Head(todo) = todo[1]
        /\ 1 \in 1 .. Len(todo) - 1
        /\ todo[2] = "storeEnables"
    BY <1>2, TailOrdered DEF PlaceInv, Goes, Now
  <2>2. todo[1] = "loadEnables"
    BY <2>1 DEF PlaceInv, Ordered
  <2>3. QED
    BY <1>2, <2>1, <2>2 DEF Goes, Now
<1>3. CASE Leaves
  <2>1. /\ Head(todo) = todo[1]
        /\ Len(todo) \in Nat \ {0}
        /\ todo[1] \in {"receive", "send"}
    BY <1>3 DEF PlaceInv, Leaves
  <2>2. Len(todo) # 1 /\ \A j \in 1 .. Len(todo) : todo[j] # "storeEnables"
    BY <2>1 DEF PlaceInv, Ordered
  <2>3. todo' = Tail(Tail(todo)) /\ todo' # <<>>
    BY <1>3 DEF Leaves, Now
  <2>4. Len(todo) >= 3 /\ Head(todo') = todo[3]
    BY <2>1, <2>2, <2>3 DEF PlaceInv
  <2>5. QED
    BY <2>2, <2>4 DEF Now
<1>4. CASE Enters
  BY <1>4, HandlerOrdered DEF Enters, Now
<1>5. QED
  BY <1>1, <1>2, <1>3, <1>4

LEMMA SleepStep ==
  ASSUME PlaceInv, SleepInv, Next \/ UNCHANGED vars
  PROVE  SleepInv'
<1>1. CASE /\ UNCHANGED <<reg, udien, frozen, line, eorsti>>
           /\ ~ Now("loadEnables")
  <2>1. Now("storeEnables")' => Now("storeEnables")
    BY <1>1, StoreAfterLoad DEF Stays, Now
  <2>2. QED
    BY <1>1, <2>1 DEF SleepInv, OneOf
<1>2. CASE ControlStep \/ ProcessClassRequest \/ ProcessStandardRequest
  BY <1>1, <1>2, ControlMove, DispatchMove DEF Now, Elsewhere
<1>3. CASE HidTask \/ DeviceTask \/ Final
  BY <1>1, <1>3 DEF HidTask, DeviceTask, Final, PlaceInv, Now, localVars,
     intVars
<1>4. CASE UsbGen
  <2>1. Now("storeEnables")' => Now("storeEnables")
    BY <1>4 DEF UsbGen, Now
  <2>2. reg' = reg
    BY <1>4 DEF UsbGen, localVars
  <2>3. CASE VbusChanged
    BY <2>1, <2>2, <2>3 DEF VbusChanged, SleepInv, OneOf
  <2>4. CASE Suspended
    BY <2>1, <2>2, <2>4 DEF Suspended, SuspendPending, EnablesAsleep, SleepInv,
       OneOf
  <2>5. CASE WokenUp
    BY <2>1, <2>2, <2>5 DEF WokenUp, SleepInv, OneOf
  <2>6. CASE BusWasReset
    BY <2>1, <2>2, <2>6 DEF BusWasReset, WakeupPending, SleepInv, OneOf
  <2>7. QED
    BY <1>4, <2>3, <2>4, <2>5, <2>6 DEF UsbGen
<1>5. CASE Main /\ StoreStep
  <2>1. UNCHANGED <<frozen, line, eorsti>>
    BY <1>5 DEF StoreStep
  <2>2. CASE StoreEnables
    <3>1. ~ Now("storeEnables")'
      BY <1>5, <2>2, StoreAfterLoad, StoreMove DEF StoreEnables, Now, Stays, Goes
    <3>2. ~ (frozen /\ line = "wake")
      BY <1>5 DEF Main, InterruptPending, WakeupPending, SleepInv
    <3>3. OneOf(udien)'
      BY <2>2 DEF StoreEnables, SleepInv, OneOf
    <3>4. QED
      BY <2>1, <3>1, <3>2, <3>3 DEF SleepInv
  <2>3. CASE LoadEnables
    BY <2>1, <2>3 DEF LoadEnables, SleepInv, OneOf
  <2>4. CASE ~ LoadEnables /\ ~ StoreEnables
    <3>1. reg' = reg /\ udien' = udien /\ ~ Now("loadEnables")
      BY <1>5, <2>4 DEF StoreStep, Now, Commit, StoreHid, StoreWakeup,
         SetDeviceAddress, EnableDeviceAddress, SetNumber, ChooseState,
         StoreState, SelectIN, SelectEndpoint, Halt, ReadStall
    <3>2. QED
      BY <1>1, <2>1, <3>1
  <2>5. QED
    BY <2>2, <2>3, <2>4
<1>6. CASE Host
  <2>1. (Now("storeEnables")' => Now("storeEnables")) /\ reg' = reg
    BY <1>6 DEF Host, Now, localVars
  <2>2. CASE SendSetup \/ Token \/ Abort
    BY <2>1, <2>2 DEF SendSetup, Hears, Token, Abort, intVars, SleepInv, OneOf
  <2>3. CASE BusEvent
    <3>1. frozen => line = "susp" /\ "WAKEUP" \in udien
      BY <2>3 DEF BusEvent, InterruptPending, SuspendPending, WakeupPending,
         SleepInv, OneOf
    <3>2. ~ eorsti
      BY <2>3 DEF BusEvent, InterruptPending
    <3>3. QED
      BY <2>1, <2>3, <3>1, <3>2 DEF BusEvent, Plug, Unplug, Reset, Suspend,
         Resume, SleepInv, OneOf
  <2>4. QED
    BY <1>6, <2>2, <2>3 DEF Host
<1>7. CASE UNCHANGED vars
  BY <1>7 DEF vars, localVars, intVars, SleepInv, OneOf, Now
<1>8. CASE ConfigureStep
  BY <1>1, <1>8, ConfigureMove DEF Now
<1>9. QED
  BY <1>2, <1>3, <1>4, <1>5, <1>6, <1>7, <1>8 DEF Next, Main

LEMMA SleepInvariant == Spec => [](PlaceInv /\ SleepInv)
<1>1. Init => PlaceInv /\ SleepInv
  BY DEF Init, PlaceInv, SleepInv, OneOf, Ordered, Now
<1>2. PlaceInv /\ SleepInv /\ [Next]_vars => (PlaceInv /\ SleepInv)'
  BY PlaceStep, SleepStep
<1>3. QED
  BY <1>1, <1>2, PTL DEF Spec

(* A device with a frozen clock has its wake-up interrupt enabled or will  *)
(* run the suspend routine again, which enables it, although the main loop *)
(* writes back interrupt enables it may have read before the suspension    *)
(* (Device_AVR8.h:178 against USBInterrupt_AVR8.c:118-143).                *)
THEOREM Wakeable == Spec => []WakeupArmed
<1>1. SleepInv => WakeupArmed
  BY DEF SleepInv, OneOf, WakeupArmed, SuspendPending
<1>2. QED
  BY <1>1, SleepInvariant, PTL
=============================================================================

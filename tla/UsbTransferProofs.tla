------------------------- MODULE UsbTransferProofs --------------------------
(***************************************************************************)
(* The bus, the bank of the control endpoint and the request in it: the    *)
(* parts of the invariant of UsbDeviceInv about who is in which transfer.  *)
(***************************************************************************)
EXTENDS UsbHandlerProofs

-----------------------------------------------------------------------------
(* The bus.                                                                *)

(* What the main loop can do to what BusInv is about.                      *)
LEMMA MainBus ==
  ASSUME Typed, BusInv, Main
  PROVE  BusInv'
<1>1. UNCHANGED <<xfer, bus, hostConf, frozen, eorsti, vbusti, line>>
  BY DEF Main, HidTask, DeviceTask, ProcessClassRequest,
     ProcessStandardRequest, Dispatch, Final, ControlStep, StoreStep,
     ConfigureStep, intVars, hostVars
<1>2. /\ devState' \in {devState, chosen}
      /\ devState' # devState => Place = "storeState"
      /\ Place' = "storeState" => chosen' \notin {"Unattached", "Suspended"}
  <2>1. CASE HidTask \/ DeviceTask \/ Final
    BY <2>1, TaskPlace DEF HidTask, DeviceTask, Final, deviceVars
  <2>2. CASE ProcessClassRequest \/ ProcessStandardRequest
    BY <2>2, DispatchPlace DEF ProcessClassRequest, ProcessStandardRequest,
       Dispatch, deviceVars, Begins
  <2>3. CASE ControlStep
    <3>1. UNCHANGED devState
      BY <2>3 DEF ControlStep, deviceVars
    <3>2. Place' # "storeState"
      BY <2>3, ControlPlace DEF ControlPlaces, Follows, Escape, End
    <3>3. QED
      BY <3>1, <3>2
  <2>4. CASE StoreStep
    <3>1. Continue(Tail(todo))
      BY <2>4 DEF StoreStep
    <3>2. CASE EnableDeviceAddress \/ ChooseState
      BY <3>2 DEF EnableDeviceAddress, ChooseState, AwakeState, deviceVars
    <3>3. CASE StoreState
      BY <2>4, <3>1, <3>3, StepPlace DEF StoringStep, StoreState, Follows,
         StepNames
    <3>4. CASE ~ (EnableDeviceAddress \/ ChooseState \/ StoreState)
      BY <2>4, <3>1, <3>4, StepPlace DEF StoringStep, StoreStep, Commit,
         StoreHid, StoreWakeup, SetDeviceAddress, SetNumber, SelectIN,
         LoadEnables, StoreEnables, SelectEndpoint, Halt, ReadStall, deviceVars,
         StepNames, Follows
    <3>5. QED
      BY <3>2, <3>3, <3>4
  <2>5. CASE ConfigureStep
    BY <2>5, ConfigurePlace, StorePlace
    DEF StoringStep, ConfigureStep, deviceVars, Configuring, Follows
  <2>6. QED
    BY <2>1, <2>2, <2>3, <2>4, <2>5 DEF Main
<1>3. QED
  BY <1>1, <1>2 DEF BusInv, Pending, Lost

LEMMA BusStep ==
  ASSUME Typed, BusInv, Next \/ UNCHANGED vars
  PROVE  BusInv'
<1>1. TypeOK
  BY DEF Typed
<1>2. CASE Main
  BY <1>2, MainBus
<1>3. CASE UsbGen
  <2>1. UNCHANGED <<xfer, bus, hostConf, chosen>> /\ Place' = Place
    BY <1>3, OtherPlace DEF UsbGen, hostVars, localVars
  <2>2. CASE VbusChanged
    BY <2>1, <2>2 DEF VbusChanged, BusInv, Pending, Lost
  <2>3. CASE Suspended
    BY <2>1, <2>3 DEF Suspended, SuspendPending, BusInv, Pending, Lost
  <2>4. CASE WokenUp
    BY <2>1, <2>4 DEF WokenUp, AwakeState, BusInv, Pending, Lost
  <2>5. CASE BusWasReset
    BY <2>1, <2>5 DEF BusWasReset, BusInv, Pending, Lost
  <2>6. QED
    BY <1>3, <2>2, <2>3, <2>4, <2>5 DEF UsbGen
<1>4. CASE Host
  <2>1. UNCHANGED <<devState, chosen>> /\ Place' = Place
    BY <1>4, OtherPlace DEF Host, localVars, deviceVars
  <2>2. CASE SendSetup
    BY <2>1, <2>2, SetupFacts DEF SendSetup, Hears, BusInv, Pending, Lost
  <2>3. CASE Token
    <3>1. /\ ~ vbusti /\ ~ eorsti /\ bus = "active" /\ ~ frozen
          /\ UNCHANGED <<bus, frozen, vbusti, eorsti, line>>
      BY <2>3 DEF Token, Hears, intVars
    <3>2. QED
      BY <2>1, <3>1 DEF BusInv, Pending, Lost
  <2>4. CASE Abort \/ BusEvent
    <3>1. xfer'.stage = "recovering"
      BY <2>4, BreakFacts DEF Abort, BusEvent, Plug, Unplug, Reset, Suspend,
         Resume
    <3>2. QED
      BY <2>1, <2>4, <3>1 DEF Abort, BusEvent, InterruptPending, Plug, Unplug,
         Reset, Suspend, Resume, BusInv, Pending, Lost, Stages, intVars
  <2>5. QED
    BY <1>4, <2>2, <2>3, <2>4 DEF Host
<1>5. CASE UNCHANGED vars
  BY <1>5, OtherPlace DEF vars, localVars, deviceVars, intVars, hostVars,
     BusInv, Pending, Lost
<1>6. QED
  BY <1>2, <1>3, <1>4, <1>5 DEF Next

-----------------------------------------------------------------------------
(* The bank.                                                               *)

(* When the host sends a request that is not the next of a completed one,  *)
(* the main loop is back or waits in a handler.                            *)
LEMMA SetupPlace ==
  ASSUME Typed, SendSetup
  PROVE  /\ Place \notin Between <=> pc \notin Between
         /\ \/ xfer.stage = "idle"
            \/ /\ Lost
               /\ \/ Place \in Between \cup {"receive", "send", "awaitOUT",
                                             "statusOUT"}
                  \/ Place \in {"awaitIN", "statusIN", "spinIN"} /\ ~ txin
         /\ xfer'.stage \in {"in", "out", "statusIn"}
         /\ setup' # NoRequest
<1>1. HandlerOK
  BY TypedHandler
<1>2. Place \notin Between <=> pc \notin Between
  BY <1>1, Places DEF HandlerOK, Between, StepNames
<1>3. \A p \in StepNames : Now(p) <=> Place = p
  BY <1>1, Places
<1>4. xfer'.stage \in {"in", "out", "statusIn"}
  BY SetupFacts DEF FirstStage
<1>5. setup' # NoRequest
  BY SetupFacts, RequestType DEF RequestOrNone, NoRequest, ClassNames,
     StandardNames
<1>6. QED
  BY <1>1, <1>2, <1>3, <1>4, <1>5 DEF SendSetup, Settled, Blocked, Lost, Between,
     StepNames

(* What the steps of the main loop need of the endpoint they use.          *)
LEMMA OnControl ==
  ASSUME Typed, ControlSelected
  PROVE  Place \in StepNames \ Elsewhere => selected = 0
BY TypedHandler, Places DEF ControlSelected, Elsewhere, StepNames, Place, Outside,
   HandlerOK

LEMMA BankControl ==
  ASSUME Typed, BusInv, BankInv, SetupInv, ControlSelected, Main, ControlStep
  PROVE  BankInv'
<1>1. UNCHANGED <<xfer, selected, setup, hostConf, epStalled, request>>
  BY DEF Main, ControlStep, epVars, hostVars
<1>2. Place \in ControlPlaces /\ selected = 0 /\ todo # <<>> /\ Place \notin Between
  BY ControlPlace, OnControl, TypedHandler, Places DEF ControlPlaces, StepNames,
     Elsewhere, Between, Outside
<1>3. /\ rxstp' = (IF Place = "clearSETUP" THEN FALSE ELSE rxstp)
      /\ txin' # txin => Place \in {"clearIN", "send", "statusIN"}
  BY ControlFacts
<1>4. /\ Place' \notin Before \cup Between \cup {"event", "halt"} \cup Configuring
      /\ Place' = "standard" => request.name \in ClassNames
      /\ Place' \in {"setNumber", "statusIN"} /\ request.name = "SetConfiguration" =>
           Place \in {"clearSETUP", "setNumber"}
      /\ todo' # <<>> => todo # <<>>
  BY <1>2, ControlPlace, StepPlace DEF ControlPlaces, Follows, Escape, End,
     Before, Between, Configuring, ClassNames, HidStores
<1>5. ~ Reading' /\ ~ Read'
  <2>1. ~ Reading'
    BY <1>1, <1>4 DEF Reading
  <2>2. Place # "clearSETUP" => ~ Reading /\ Place # "final"
    BY <1>2 DEF Reading, Before, ControlPlaces
  <2>3. QED
    BY <1>1, <1>3, <2>1, <2>2 DEF Read, BankInv
<1>6. Waiting' => Waiting /\ Place # "clearSETUP"
  BY <1>1, <1>3 DEF Waiting
<1>7. Waiting' /\ ~ txin' =>
        /\ Place' \notin Between
        /\ Place' = "final" => selected' = 0
        /\ todo' # <<>> => request'.name # "SetConfiguration"
  <2>1. SUFFICES ASSUME Waiting', ~ txin', request.name = "SetConfiguration"
                 PROVE  FALSE
    BY <1>1, <1>2, <1>4
  <2>2. txin
    BY <1>2, <1>6, <2>1 DEF BankInv
  <2>3. Place = "statusIN"
    BY <1>3, <2>1, <2>2, StepPlace DEF Follows, HidReads, ByteReads
  <2>4. QED
    BY <1>6, <2>1, <2>3 DEF BankInv
<1>8. Place' \in {"setNumber", "statusIN"} /\ request'.name = "SetConfiguration" =>
        txin' /\ ~ Waiting' /\ (Lost' \/ Own')
  <2>1. SUFFICES ASSUME Place' \in {"setNumber", "statusIN"},
                        request.name = "SetConfiguration"
                 PROVE  txin' /\ ~ Waiting' /\ (Lost' \/ Own')
    BY <1>1
  <2>2. Place = "clearSETUP"
    BY <1>2, <1>4, <2>1 DEF ControlPlaces
  <2>3. txin /\ ~ Waiting /\ (Lost \/ Taken)
    BY <2>2 DEF BankInv, Reading, Before
  <2>4. Taken => ~ epStalled[0]
    BY DEF Taken, Read, SetupInv
  <2>5. QED
    BY <1>1, <1>3, <1>6, <2>2, <2>3, <2>4 DEF Lost, Own, Taken, Pending
<1>9. QED
  BY <1>1, <1>2, <1>4, <1>5, <1>7, <1>8 DEF BankInv, Configuring

LEMMA BankStore ==
  ASSUME Typed, BusInv, BankInv, SetupInv, ControlSelected, Main, StoringStep
  PROVE  BankInv'
<1>1. UNCHANGED <<xfer, hostConf, request, setup>>
  BY StoreFacts DEF Main, hostVars
<1>2. /\ Place \in StorePlaces /\ todo # <<>> /\ Place \notin Between
      /\ \/ Follows(request.name, Place, Place')
         \/ Place = "rewriteHigher" /\ Place' = "rewriteHigher"
      /\ Supported(request)
  BY StorePlace, StepPlace, TypedHandler, Places
     DEF StorePlaces, ControlPlaces, StepNames, Between, Outside
<1>3. /\ Place' \notin Between
      /\ Place' \notin {"setNumber", "statusIN"} \/ Place = "setNumber"
      /\ Place' \in Before => Place \in Before
      /\ Place' = "standard" => request.name \in ClassNames /\ selected = 0
      /\ Place' = "final" => selected = 0 \/ request.name = "SetConfiguration"
      /\ Place' = "halt" => Place = "selectEndpoint" /\ request.name \in Halts
      /\ Place' = "configureIN" => Place = "selectIN"
      /\ Place' = "rewriteHigher" => Place \in Configuring
      /\ Place' # "event"
  BY <1>2, OnControl DEF Follows, StorePlaces, ControlPlaces, StepNames, Between,
     Before, ClassNames, HidStores, Elsewhere, Configuring
<1>4. Reading' => txin' /\ ~ Waiting' /\ (Lost' \/ Taken')
  <2>1. SUFFICES ASSUME Reading' PROVE txin' /\ ~ Waiting' /\ (Lost' \/ Taken')
    OBVIOUS
  <2>2. Place \in Before
    BY <1>1, <1>3, <2>1 DEF Reading
  <2>3. UNCHANGED <<rxstp, txin>>
    BY <2>2, StoreFacts DEF Before, Configuring
  <2>4. QED
    BY <1>1, <2>2, <2>3 DEF BankInv, Reading, Waiting, Taken, Read, Lost, Pending
<1>5. Read' => txin' /\ (Reading' \/ (Place' = "final" /\ selected' = 0))
  <2>1. SUFFICES ASSUME Read' PROVE txin' /\ Reading'
    OBVIOUS
  <2>2. Read /\ UNCHANGED <<rxstp, txin>>
    BY <1>1, <2>1, StoreFacts DEF Read
  <2>3. Reading
    BY <1>2, <2>2 DEF BankInv, StorePlaces, StepNames
  <2>4. Place' \in Before
    BY <1>2, <2>3 DEF Reading, Before, StorePlaces, StepNames, ControlPlaces,
       Follows
  <2>5. QED
    BY <2>2, <2>4 DEF BankInv, Reading
<1>6. Waiting' /\ ~ txin' =>
        /\ Place' \notin Between
        /\ Place' = "final" => selected' = 0
        /\ todo' # <<>> => request'.name # "SetConfiguration"
  <2>1. SUFFICES ASSUME Waiting', ~ txin'
                 PROVE  /\ Place' = "final" => selected' = 0
                        /\ request.name # "SetConfiguration"
    BY <1>1, <1>3
  <2>2. Waiting /\ ~ txin
    <3>1. UNCHANGED <<rxstp, txin>>
      BY <2>1, StoreFacts DEF Waiting
    <3>2. QED
      BY <1>1, <2>1, <3>1 DEF Waiting
  <2>3. request.name # "SetConfiguration"
    BY <1>2, <2>2 DEF BankInv
  <2>4. Place' = "final" => selected' = selected
    BY <1>2, StoreFacts DEF Follows, StorePlaces, StepNames, ControlPlaces,
       Configuring
  <2>5. QED
    BY <1>3, <2>3, <2>4
<1>7. Place' \in {"setNumber", "statusIN"} /\ request'.name = "SetConfiguration" =>
        txin' /\ ~ Waiting' /\ (Lost' \/ Own')
  <2>1. SUFFICES ASSUME Place = "setNumber", request.name = "SetConfiguration"
                 PROVE  txin' /\ ~ Waiting' /\ (Lost' \/ Own')
    BY <1>1, <1>3
  <2>2. UNCHANGED <<rxstp, txin>> /\ epStalled'[0] = epStalled[0]
    BY <2>1, StoreFacts, StoreEndpoints DEF Configuring
  <2>3. QED
    BY <1>1, <2>1, <2>2 DEF BankInv, Waiting, Lost, Own, Pending
<1>8. /\ Place' \in {"event", "standard"} => selected' = 0
      /\ Place' = "halt" => Lost' \/ selected' # 0
      /\ Place' = "configureIN" => selected' = 1
      /\ Place' = "rewriteHigher" => selected' # 0
  <2>1. Place' = "standard" => selected' = selected
    BY <1>2, StoreFacts DEF Follows, Configuring
  <2>2. Place' = "halt" => selected' # 0
    BY <1>2, <1>3, StoreFacts DEF Halts, Supported
  <2>3. QED
    BY <1>3, <2>1, <2>2, StoreFacts
<1>9. QED
  BY <1>4, <1>5, <1>6, <1>7, <1>8 DEF BankInv

LEMMA BankTask ==
  ASSUME Typed, BusInv, BankInv, SetupInv, Main,
         HidTask \/ DeviceTask \/ Final
  PROVE  BankInv'
<1>1. UNCHANGED <<xfer, hostConf, txin>> /\ todo' = todo
  BY DEF Main, HidTask, DeviceTask, Final, hostVars, packetVars
<1>2. Place \in Between \cup {"final"} /\ ~ Reading
  BY TaskPlace DEF Between, Reading, Before
<1>3. CASE HidTask
  <2>1. UNCHANGED <<rxstp, setup, request>> /\ Place' = "task" /\ Place = "hid"
    BY <1>3, TaskPlace DEF HidTask, packetVars
  <2>2. QED
    BY <1>1, <1>2, <2>1 DEF BankInv, Reading, Before, Waiting, Read, Between
<1>4. CASE DeviceTask /\ Place' = "hid"
  <2>1. UNCHANGED <<rxstp, setup, request, selected>> /\ Place = "task"
    BY <1>4, TaskPlace DEF DeviceTask, Place
  <2>2. QED
    BY <1>1, <1>2, <1>4, <2>1 DEF BankInv, Reading, Before, Waiting, Read,
       Between
<1>5. CASE DeviceTask /\ Place' = "event"
  <2>1. /\ rxstp /\ rxstp' = rxstp /\ setup' = NoRequest
        /\ selected' = 0 /\ Place = "task"
    BY <1>5, TaskPlace DEF DeviceTask, Place
  <2>2. Waiting /\ txin
    BY <1>2, <2>1 DEF BankInv, Waiting, Read, Between
  <2>3. Lost \/ Pending
    BY <2>1 DEF SetupInv, Typed, TypeOK, HostOK, Transfers, Lost, Pending
  <2>4. QED
    BY <1>1, <1>5, <2>1, <2>2, <2>3 DEF BankInv, Reading, Before, Waiting, Read,
       Between, Taken, Lost, Pending
<1>6. CASE Final
  <2>1. /\ Place = "final" /\ Place' = "hid" /\ UNCHANGED setup
        /\ SetupReceived => ~ rxstp'
        /\ ~ SetupReceived => rxstp' = rxstp
    BY <1>6, TaskPlace DEF Final
  <2>2. rxstp' => rxstp /\ selected # 0
    BY <2>1 DEF SetupReceived
  <2>3. ~ Read' /\ (Waiting' => txin')
    BY <1>1, <1>2, <2>1, <2>2 DEF BankInv, Read, Waiting
  <2>4. QED
    BY <2>1, <2>3 DEF BankInv, Reading, Before, Between
<1>7. QED
  BY <1>3, <1>4, <1>5, <1>6, TaskPlace

LEMMA BankDispatch ==
  ASSUME Typed, BusInv, BankInv, SetupInv, Main,
         ProcessClassRequest \/ ProcessStandardRequest
  PROVE  BankInv'
<1>1. UNCHANGED <<xfer, hostConf, txin, rxstp, setup, request, selected>>
  BY DEF Main, ProcessClassRequest, ProcessStandardRequest, Dispatch, hostVars,
     packetVars, epVars
<1>2. Place \in {"event", "standard"} /\ selected = 0
  BY DispatchPlace DEF BankInv
<1>3. /\ Begins(request.name, Place') => Place' \in Before /\ Reading
      /\ Place' \notin Between \cup Configuring
                       \cup {"setNumber", "statusIN", "halt", "event"}
      /\ Place' \in Before \cup {"standard", "final"}
  BY <1>2, DispatchPlace DEF Begins, Before, Between, Reading, Configuring,
     ClassNames, StandardNames
<1>4. /\ Reading' => Reading
      /\ Place' = "final" \/ Reading \/ ~ Reading'
      /\ Reading /\ Place' = "standard" => Place = "event"
  BY <1>1, <1>2, <1>3, DispatchPlace DEF Reading, Before
<1>5. Read' => Reading /\ (Reading' \/ Place' = "final")
  <2>1. SUFFICES ASSUME Read PROVE Reading /\ (Reading' \/ Place' = "final")
    BY <1>1 DEF Read
  <2>2. Reading
    BY <1>2, <2>1 DEF BankInv
  <2>3. Place' = "standard" => request.name \notin ClassNames
    <3>1. SetupReceived
      BY <1>2, <2>1 DEF Read, SetupReceived
    <3>2. request.name \in ClassNames => Supported(request)
      BY DEF ClassNames, Supported
    <3>3. QED
      BY <2>2, <1>3, <3>1, <3>2, DispatchPlace DEF Before
  <2>4. QED
    BY <1>1, <1>3, <2>2, <2>3 DEF Reading
<1>6. Waiting' /\ ~ txin' => ~ (Begins(request.name, Place'))
  BY <1>1, <1>3 DEF BankInv, Waiting
<1>7. todo' # <<>> => Begins(request.name, Place')
  BY DispatchPlace
<1>8. Reading' => txin' /\ ~ Waiting' /\ (Lost' \/ Taken')
  BY <1>1, <1>4 DEF BankInv, Waiting, Taken, Read, Lost, Pending
<1>9. Waiting' /\ ~ txin' =>
        /\ Place' \notin Between
        /\ Place' = "final" => selected' = 0
        /\ todo' # <<>> => request'.name # "SetConfiguration"
  BY <1>1, <1>2, <1>3, <1>6, <1>7
<1>10. QED
  BY <1>1, <1>2, <1>3, <1>5, <1>8, <1>9 DEF BankInv, Configuring


LEMMA BankInterrupt ==
  ASSUME Typed, BusInv, BankInv, UsbGen
  PROVE  BankInv'
<1>1. UNCHANGED <<xfer, hostConf, setup, request, todo>> /\ Place' = Place
  BY OtherPlace DEF UsbGen, VbusChanged, Suspended, WokenUp, BusWasReset,
     packetVars, hostVars
<1>2. CASE VbusChanged \/ Suspended \/ WokenUp
  <2>1. UNCHANGED <<rxstp, txin, selected, epStalled>>
    BY <1>2 DEF VbusChanged, Suspended, WokenUp, packetVars, epVars
  <2>2. QED
    BY <1>1, <2>1 DEF BankInv, Reading, Waiting, Taken, Read, Own, Lost, Pending
<1>3. CASE BusWasReset
  <2>1. ~ rxstp' /\ txin' /\ selected' = 0 /\ Lost' /\ hostConf' = 0
    BY <1>1, <1>3 DEF BusWasReset, BusInv, Lost
  <2>2. QED
    BY <1>1, <2>1 DEF BankInv, Reading, Waiting, Read
<1>4. QED
  BY <1>2, <1>3 DEF UsbGen

LEMMA BankHost ==
  ASSUME Typed, BusInv, BankInv, SetupInv, Host
  PROVE  BankInv'
<1>1. Place' = Place /\ request' = request /\ todo' = todo
  BY OtherPlace DEF Host
<1>2. CASE SendSetup
  <2>1. txin' /\ setup' # NoRequest /\ selected' = selected
    BY <1>2, SetupPlace DEF SendSetup
  <2>2. ~ Reading
    BY <1>2, SetupPlace DEF SetupInv, BankInv, Reading, Before, Between, Taken,
       Read, Lost, Pending, Stages
  <2>3. ~ (Place \in {"setNumber", "statusIN"}
           /\ request.name = "SetConfiguration")
    BY <1>2, SetupPlace DEF BankInv, Between, Own, Pending, Lost, Stages
  <2>4. /\ Place = "halt" => selected # 0
        /\ Place = "configureIN" => selected = 1
        /\ Place = "rewriteHigher" => selected # 0
    BY <1>2, SetupPlace DEF BankInv, Between, Lost
  <2>5. QED
    BY <1>1, <2>1, <2>2, <2>3, <2>4 DEF BankInv, Reading, Read
<1>3. CASE Token
  <2>1. /\ Pending /\ ~ Lost /\ ~ rxstp /\ ~ rxstp'
        /\ UNCHANGED <<selected, setup, epStalled>>
    BY <1>3 DEF Token, TakeIN, GiveOUT, Stages, Pending, Lost, epVars
  <2>2. ~ Reading
    BY <2>1 DEF BankInv, Taken, Read
  <2>3. ~ (Place \in {"setNumber", "statusIN"}
           /\ request.name = "SetConfiguration")
    <3>1. SUFFICES ASSUME Place \in {"setNumber", "statusIN"},
                          request.name = "SetConfiguration"
                   PROVE  FALSE
      OBVIOUS
    <3>2. txin /\ Own
      BY <2>1, <3>1 DEF BankInv
    <3>3. xfer.req = request /\ ~ epStalled[0]
      BY <3>2 DEF SetupInv, Own
    <3>4. GiveOUT /\ xfer.stage \in {"out", "statusOut"}
      BY <1>3, <3>2, <3>3 DEF Token, Stalled, TakeIN, GiveOUT
    <3>5. QED
      BY <3>1, <3>3, <3>4 DEF Typed, StageInv, ReadNames
  <2>4. /\ Place = "halt" => selected # 0
        /\ Place = "configureIN" => selected = 1
        /\ Place = "rewriteHigher" => selected # 0
    BY <2>1 DEF BankInv
  <2>5. QED
    BY <1>1, <2>1, <2>2, <2>3, <2>4 DEF BankInv, Reading, Read, Waiting
<1>4. CASE Abort \/ BusEvent
  <2>1. /\ Lost'
        /\ UNCHANGED <<selected, setup, rxstp, txin>>
        /\ hostConf' \in {hostConf, 0}
    BY <1>4, BreakFacts DEF Abort, BusEvent, Plug, Unplug, Reset, Suspend, Resume,
       Lost, packetVars
  <2>2. QED
    BY <1>1, <2>1 DEF BankInv, Reading, Read, Waiting
<1>5. QED
  BY <1>2, <1>3, <1>4 DEF Host

LEMMA BankStep ==
  ASSUME Typed, BusInv, BankInv, SetupInv, ControlSelected, Next \/ UNCHANGED vars
  PROVE  BankInv'
<1>1. CASE UNCHANGED vars
  BY <1>1, OtherPlace DEF vars, packetVars, epVars, hostVars, BankInv, Reading,
     Waiting, Taken, Read, Own, Lost, Pending
<1>2. QED
  BY <1>1, BankControl, BankStore, BankTask, BankDispatch, BankInterrupt,
     BankHost DEF Next, Main, StoringStep

-----------------------------------------------------------------------------
(* The request the main loop is about.                                     *)


LEMMA SetupSteps ==
  ASSUME Typed, BankInv, SetupInv, Main, ControlStep \/ StoringStep
  PROVE  SetupInv'
<1>1. UNCHANGED <<xfer, request, setup>>
  BY ControlFacts, StoreFacts DEF Main, hostVars
<1>2. /\ Place \in StepNames /\ Place \notin Between
      /\ Supported(request)
  BY StepPlace DEF StepNames, Between
<1>3. rxstp' => rxstp /\ Place # "clearSETUP"
  BY <1>2, ControlFacts, StoreFacts, StorePlace, ControlPlace
     DEF StorePlaces, ControlPlaces
<1>4. Pending => epStalled'[0] = epStalled[0]
                 /\ (Place # "clearSETUP" => rxstp' = rxstp)
  <2>1. CASE ControlStep
    BY <2>1, ControlFacts
  <2>2. CASE StoringStep
    <3>1. Pending => ~ Lost
      BY DEF Pending, Lost, Stages
    <3>2. selected = 0 => Place \notin {"halt"} \cup Configuring \/ Lost
      BY DEF BankInv, Configuring
    <3>3. QED
      BY <2>2, <3>1, <3>2, StoreFacts, StoreEndpoints
  <2>3. QED
    BY <2>1, <2>2
<1>5. Pending' = Pending
  BY <1>1 DEF Pending
<1>6. Unread' => Unread
  BY <1>1, <1>3, <1>5 DEF Unread, Waiting
<1>7. Taken' => Taken /\ Place' # "final"
  <2>1. SUFFICES ASSUME Taken' PROVE Taken /\ Place' # "final"
    OBVIOUS
  <2>2. Taken
    BY <1>1, <1>3, <1>5, <2>1 DEF Taken, Read
  <2>3. Place \in Before
    BY <1>2, <2>2 DEF BankInv, Taken, Reading, StepNames
  <2>4. StoringStep
    BY <1>3, <2>1, <2>3, ControlPlace DEF Taken, Read, Before, ControlPlaces
  <2>5. Place' \in Before
    BY <2>3, <2>4, StorePlace DEF Before, StorePlaces, ControlPlaces,
       StepNames, Follows
  <2>6. QED
    BY <2>2, <2>5 DEF Before
<1>8. Own' => /\ request = xfer.req /\ setup = NoRequest
              /\ ~ txin' => inPkt' = request
  <2>1. SUFFICES ASSUME Own'
                 PROVE  /\ request = xfer.req /\ setup = NoRequest
                        /\ ~ txin' => inPkt' = request
    OBVIOUS
  <2>2. Pending /\ ~ rxstp' /\ ~ epStalled[0]
    BY <1>4, <1>5, <2>1 DEF Own
  <2>3. CASE Place = "clearSETUP"
    <3>1. txin /\ Taken
      BY <2>2, <2>3 DEF BankInv, Reading, Before, Lost, Pending, Stages
    <3>2. ControlStep
      BY <2>3, StorePlace DEF StorePlaces, ControlPlaces
    <3>3. txin'
      BY <2>3, <3>1, <3>2, ControlFacts
    <3>4. QED
      BY <3>1, <3>3 DEF SetupInv, Taken, Read
  <2>4. CASE Place # "clearSETUP"
    <3>1. Own
      BY <1>4, <2>2, <2>4 DEF Own
    <3>2. ~ txin' => inPkt' = request
      <4>1. CASE ControlStep
        BY <3>1, <4>1, ControlFacts DEF SetupInv
      <4>2. CASE StoringStep
        BY <3>1, <4>2, StoreFacts DEF SetupInv
      <4>3. QED
        BY <4>1, <4>2
    <3>3. QED
      BY <3>1, <3>2 DEF SetupInv
  <2>5. QED
    BY <2>3, <2>4
<1>9. QED
  BY <1>1, <1>2, <1>3, <1>4, <1>5, <1>6, <1>7, <1>8 DEF SetupInv, Own

LEMMA SetupTask ==
  ASSUME Typed, BankInv, SetupInv, Main, HidTask \/ DeviceTask \/ Final
  PROVE  SetupInv'
<1>1. UNCHANGED <<xfer, txin, inPkt>> /\ Pending' = Pending
  BY DEF Main, HidTask, DeviceTask, Final, hostVars, packetVars, Pending
<1>2. CASE HidTask \/ (DeviceTask /\ Place' = "hid")
  <2>1. UNCHANGED <<rxstp, setup, request, epStalled>> /\ Place \in Between
        /\ Place' \in Between
    BY <1>2, TaskPlace DEF HidTask, DeviceTask, packetVars, Place, Between
  <2>2. ~ Taken
    BY <2>1 DEF BankInv, Taken, Reading, Before, Between
  <2>3. QED
    BY <1>1, <2>1, <2>2 DEF SetupInv, Unread, Waiting, Taken, Read, Own
<1>3. CASE DeviceTask /\ Place' = "event"
  <2>1. /\ rxstp /\ rxstp' /\ setup' = NoRequest /\ request' = setup
        /\ epStalled' = epStalled /\ Place = "task"
    BY <1>3, TaskPlace DEF DeviceTask, Place
  <2>2. Waiting
    BY <2>1 DEF BankInv, Waiting, Read, Reading, Before
  <2>3. QED
    BY <1>1, <1>3, <2>1, <2>2 DEF SetupInv, Unread, Waiting, Taken, Read, Own
<1>4. CASE Final
  <2>1. /\ Place = "final" /\ Place' = "hid" /\ UNCHANGED <<setup, request>>
    BY <1>4, TaskPlace DEF Final
  <2>2. CASE SetupReceived
    <3>1. ~ rxstp' /\ rxstp /\ epStalled'[0]
      BY <1>4, <2>2 DEF Final, SetupReceived, StallRequest, Typed, TypeOK,
         ControllerOK, Endpoints
    <3>2. Pending => xfer.raced \/ ~ Supported(xfer.req)
      BY <2>1, <3>1 DEF SetupInv, Unread, Waiting, Taken, Read, Between
    <3>3. QED
      BY <1>1, <3>1, <3>2 DEF SetupInv, Unread, Waiting, Taken, Read, Own
  <2>3. CASE ~ SetupReceived
    <3>1. UNCHANGED <<rxstp, epStalled>>
      BY <1>4, <2>3 DEF Final
    <3>2. ~ Taken
      BY <2>1, <2>3 DEF BankInv, Taken, Read, Reading, Before, SetupReceived
    <3>3. QED
      BY <1>1, <2>1, <3>1, <3>2 DEF SetupInv, Unread, Waiting, Taken, Read, Own,
         Between
  <2>4. QED
    BY <2>2, <2>3
<1>5. QED
  BY <1>2, <1>3, <1>4, TaskPlace

LEMMA SetupDispatch ==
  ASSUME Typed, BankInv, SetupInv, Main,
         ProcessClassRequest \/ ProcessStandardRequest
  PROVE  SetupInv'
<1>1. UNCHANGED <<xfer, txin, inPkt, rxstp, setup, request, selected, epStalled>>
      /\ Pending' = Pending
  BY DEF Main, ProcessClassRequest, ProcessStandardRequest, Dispatch, hostVars,
     packetVars, epVars, Pending
<1>2. Place \in {"event", "standard"} /\ selected = 0 /\ Place \notin Between
  BY DispatchPlace DEF BankInv, Between
<1>3. Taken /\ Place' = "final" => ~ Supported(request)
  <2>1. SUFFICES ASSUME Taken, Place' = "final" PROVE ~ Supported(request)
    OBVIOUS
  <2>2. SetupReceived /\ Reading
    BY <1>2, <2>1 DEF SetupReceived, Taken, Read, BankInv
  <2>3. Place = "standard"
    BY <1>2, <2>1, DispatchPlace DEF Begins
  <2>4. request.name \notin ClassNames
    BY <2>2, <2>3 DEF Reading, Before
  <2>5. request.name \in StandardNames \cup {"Other"}
    BY <2>1, <2>4, RequestType DEF RequestOrNone, SetupInv, Typed, StageInv,
       Taken
  <2>6. QED
    BY <2>1, <2>2, <2>5, DispatchPlace DEF Begins, Supported
<1>4. QED
  BY <1>1, <1>2, <1>3 DEF SetupInv, Unread, Waiting, Taken, Read, Own

LEMMA SetupInterrupt ==
  ASSUME Typed, BusInv, BankInv, SetupInv, UsbGen
  PROVE  SetupInv'
<1>1. UNCHANGED <<xfer, request, setup, inPkt>> /\ Place' = Place
      /\ Pending' = Pending
  <2>1. UNCHANGED <<xfer, request, setup, inPkt>>
    BY DEF UsbGen, VbusChanged, Suspended, WokenUp, BusWasReset, packetVars,
       hostVars
  <2>2. QED
    BY <2>1, OtherPlace DEF Pending
<1>2. CASE BusWasReset
  <2>1. ~ rxstp' /\ Lost
    BY <1>2 DEF BusWasReset, BusInv
  <2>2. ~ Pending /\ xfer.stage # "statusOut"
    BY <2>1 DEF Lost, Pending, Stages
  <2>3. QED
    BY <1>1, <2>1, <2>2 DEF SetupInv, Unread, Taken, Own, Lost
<1>3. CASE VbusChanged \/ Suspended \/ WokenUp
  <2>1. UNCHANGED <<rxstp, txin, epStalled, selected>>
    BY <1>3 DEF VbusChanged, Suspended, WokenUp, packetVars, epVars
  <2>2. QED
    BY <1>1, <2>1 DEF SetupInv, Unread, Waiting, Taken, Read, Own
<1>4. QED
  BY <1>2, <1>3 DEF UsbGen

LEMMA SetupHost ==
  ASSUME Typed, BusInv, BankInv, SetupInv, Host
  PROVE  SetupInv'
<1>1. Place' = Place /\ request' = request
  BY OtherPlace
<1>2. CASE SendSetup
  <2>1. /\ rxstp' /\ txin' /\ setup' \in Requests /\ setup' # NoRequest
        /\ xfer'.stage = FirstStage(setup') /\ xfer'.req = setup'
        /\ xfer'.raced = (Place \notin Between)
        /\ xfer'.stage \in {"in", "out", "statusIn"}
    BY <1>2, SetupFacts, SetupPlace DEF SendSetup
  <2>2. epStalled'[0] = FALSE
    BY <1>2 DEF SendSetup, Typed, TypeOK, ControllerOK, Endpoints
  <2>3. ~ Own' /\ ~ Taken' /\ xfer'.stage # "idle"
    BY <2>1 DEF Own, Taken, Read
  <2>4. QED
    BY <1>1, <2>1, <2>2, <2>3 DEF SetupInv, Unread, Waiting
<1>3. CASE Token
  <2>1. UNCHANGED <<rxstp, setup, epStalled, selected>> /\ ~ rxstp
        /\ xfer.stage \in Stages /\ TypeOK
    BY <1>3, TakeFacts, GiveFacts DEF Token, epVars, Stages, Typed
  <2>2. ~ Unread' /\ ~ Taken' /\ Pending
    BY <2>1 DEF Unread, Taken, Waiting, Read, Pending
  <2>3. CASE Stalled
    <3>1. xfer'.stage = "idle"
      BY <2>1, <2>3, StalledFacts
    <3>2. ~ Pending' /\ ~ Own'
      BY <3>1 DEF Own, Pending, Stages
    <3>3. QED
      BY <2>1, <2>2, <3>1, <3>2 DEF SetupInv
  <2>4. CASE \/ xfer.stage = "statusIn" /\ TakeIN
             \/ xfer.stage = "statusOut" /\ GiveOUT
    <3>1. xfer'.stage = "idle"
      BY <2>1, <2>4, TakeFacts, GiveFacts, CompleteFacts
    <3>2. ~ Pending' /\ ~ Own'
      BY <3>1 DEF Own, Pending, Stages
    <3>3. QED
      BY <2>1, <2>2, <3>1, <3>2 DEF SetupInv
  <2>5. CASE xfer.stage = "in" /\ TakeIN
    <3>1. /\ txin' /\ ~ txin /\ ~ epStalled[0] /\ xfer'.req = xfer.req
          /\ xfer'.by = inPkt /\ xfer'.stage \in {"in", "statusOut"}
      BY <2>1, <2>5, TakeFacts
    <3>2. Own
      BY <2>1, <2>2, <3>1 DEF Own
    <3>3. /\ request = xfer.req /\ setup = NoRequest /\ Supported(request)
          /\ xfer'.by = xfer.req
      BY <3>1, <3>2 DEF SetupInv
    <3>4. QED
      BY <1>1, <2>1, <2>2, <3>1, <3>3 DEF SetupInv
  <2>6. CASE xfer.stage = "out" /\ GiveOUT
    <3>1. /\ UNCHANGED <<txin, inPkt>> /\ xfer'.req = xfer.req
          /\ xfer'.stage \in {"statusIn", "out"} /\ ~ epStalled[0]
      BY <2>1, <2>6, GiveFacts
    <3>2. Own
      BY <2>1, <2>2, <3>1 DEF Own
    <3>3. /\ request = xfer.req /\ setup = NoRequest /\ Supported(request)
          /\ ~ txin => inPkt = request
      BY <3>2 DEF SetupInv
    <3>4. QED
      BY <1>1, <2>1, <2>2, <3>1, <3>3 DEF SetupInv
  <2>7. TakeIN => xfer.stage \in {"in", "statusIn"}
    BY DEF TakeIN
  <2>8. GiveOUT => xfer.stage \in {"out", "statusOut"}
    BY DEF GiveOUT
  <2>9. Stalled \/ TakeIN \/ GiveOUT
    BY <1>3 DEF Token
  <2>10. CASE TakeIN
    BY <2>4, <2>5, <2>7, <2>10
  <2>11. CASE GiveOUT
    BY <2>4, <2>6, <2>8, <2>11
  <2>12. QED
    BY <2>3, <2>9, <2>10, <2>11
<1>4. CASE Abort \/ BusEvent
  <2>1. xfer'.stage = "recovering"
    BY <1>4, BreakFacts DEF Abort, BusEvent, Plug, Unplug, Reset, Suspend, Resume
  <2>2. ~ Pending'
    BY <2>1 DEF Pending, Stages
  <2>3. QED
    BY <2>1, <2>2 DEF SetupInv, Unread, Taken, Own
<1>5. QED
  BY <1>2, <1>3, <1>4 DEF Host

LEMMA SetupStep ==
  ASSUME Typed, BusInv, BankInv, SetupInv, ControlSelected, Next \/ UNCHANGED vars
  PROVE  SetupInv'
<1>1. CASE Main
  BY <1>1, SetupSteps, SetupTask, SetupDispatch DEF Main, StoringStep
<1>2. CASE UNCHANGED vars
  BY <1>2, OtherPlace DEF SetupInv, Unread, Waiting, Taken, Read, Own, Pending, vars,
     packetVars, hostVars, epVars
<1>3. QED
  BY <1>1, <1>2, SetupInterrupt, SetupHost DEF Next

LEMMA OutcomeStep ==
  ASSUME Typed, SetupInv, StalledOnlyIfRaced, AnswersMatch, Next \/ UNCHANGED vars
  PROVE  StalledOnlyIfRaced' /\ AnswersMatch'
<1>1. CASE SendSetup
  BY <1>1, SetupFacts DEF StalledOnlyIfRaced, AnswersMatch
<1>2. CASE Token
  <2>1. ~ rxstp /\ xfer.stage \in Stages /\ TypeOK /\ Pending
    BY <1>2, TakeFacts, GiveFacts DEF Token, Stages, Typed, Pending
  <2>2. CASE Stalled
    BY <2>1, <2>2, StalledFacts DEF StalledOnlyIfRaced, AnswersMatch, SetupInv
  <2>3. CASE TakeIN /\ xfer.stage = "statusIn"
    <3>1. Own /\ ~ txin
      BY <2>1, <2>3, TakeFacts DEF Own
    <3>2. inPkt = xfer.req
      BY <3>1 DEF SetupInv
    <3>3. xfer'.outcome = "done" /\ xfer'.by = inPkt /\ xfer'.req = xfer.req
      BY <2>1, <2>3, TakeFacts, CompleteFacts
    <3>4. QED
      BY <3>2, <3>3 DEF StalledOnlyIfRaced, AnswersMatch
  <2>4. CASE TakeIN /\ xfer.stage = "in"
    <3>1. Own /\ ~ txin
      BY <2>1, <2>4, TakeFacts DEF Own
    <3>2. inPkt = xfer.req
      BY <3>1 DEF SetupInv
    <3>3. /\ xfer'.outcome = xfer.outcome /\ xfer'.by = inPkt
          /\ xfer'.req = xfer.req /\ xfer'.raced = xfer.raced
      BY <2>1, <2>4, TakeFacts
    <3>4. QED
      BY <3>2, <3>3 DEF StalledOnlyIfRaced, AnswersMatch
  <2>5. CASE GiveOUT /\ xfer.stage = "statusOut"
    <3>1. xfer.by = xfer.req
      BY <2>5 DEF SetupInv
    <3>2. xfer'.outcome = "done" /\ xfer'.by = xfer.by /\ xfer'.req = xfer.req
      BY <2>1, <2>5, GiveFacts, CompleteFacts
    <3>3. QED
      BY <3>1, <3>2 DEF StalledOnlyIfRaced, AnswersMatch
  <2>6. CASE GiveOUT /\ xfer.stage = "out"
    <3>1. /\ xfer'.outcome = xfer.outcome /\ xfer'.by = xfer.by
          /\ xfer'.req = xfer.req /\ xfer'.raced = xfer.raced
      BY <2>1, <2>6, GiveFacts
    <3>2. QED
      BY <3>1 DEF StalledOnlyIfRaced, AnswersMatch
  <2>7. QED
    BY <1>2, <2>1, <2>2, <2>3, <2>4, <2>5, <2>6, TakeFacts, GiveFacts DEF Token
<1>3. CASE Abort \/ BusEvent
  <2>1. xfer'.outcome = "none"
    BY <1>3, BreakFacts DEF Abort, BusEvent, Plug, Unplug, Reset, Suspend, Resume
  <2>2. QED
    BY <2>1 DEF StalledOnlyIfRaced, AnswersMatch
<1>4. CASE UsbGen \/ Main \/ UNCHANGED vars
  <2>1. xfer' = xfer
    BY <1>4 DEF UsbGen, Main, vars, hostVars
  <2>2. QED
    BY <2>1 DEF StalledOnlyIfRaced, AnswersMatch
<1>5. QED
  BY <1>1, <1>2, <1>3, <1>4 DEF Next, Host
=============================================================================

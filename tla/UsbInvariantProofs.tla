------------------------- MODULE UsbInvariantProofs -------------------------
(***************************************************************************)
(* Reports, the address and the configuration, and the theorems about      *)
(* UsbDevice: the invariant of UsbDeviceInv holds for every set of requests*)
(* and every disturbance, and with it the device serves a ControlPipe.     *)
(***************************************************************************)
EXTENDS UsbTransferProofs

-----------------------------------------------------------------------------
(* Reports.                                                                *)

(* What a stage of a transfer waits for, and what is read of a report.     *)
LEMMA ControlWaits ==
  ASSUME Typed, ControlStep
  PROVE  /\ Place = "clearSETUP" => left' = Packets(request)
         /\ Place = "receive" =>
              \/ left = 0 /\ ~ rxout' /\ Place' = "awaitIN"
              \/ Gone \/ rxstp
              \/ /\ left # 0 /\ rxout /\ report' = outPkt
                 /\ ~ rxout' /\ left' = left - 1
                 /\ Place' = IF left = 1 THEN "awaitIN" ELSE "receive"
         /\ Place = "send" =>
              \/ Place' \in {"send", "awaitOUT"}
              \/ (Gone \/ rxstp) /\ Place' = "clearOUT"
         /\ Place = "awaitOUT" => rxout \/ Gone
         /\ Place = "statusOUT" => rxout \/ Gone
         /\ Place = "awaitIN" => txin \/ Gone
         /\ Place = "statusIN" => txin \/ Unattached
<1>1. \A p \in ControlPlaces : Now(p) <=> Place = p
  BY StepPlace DEF ControlPlaces, StepNames
<1>2. Place = "receive" => Receive
  BY <1>1 DEF ControlPlaces, ControlStep, ClearSETUP, Receive, AwaitIN, Send,
     AwaitOUT, ClearIN, ClearOUT, StatusIN, StatusOUT, SpinIN
<1>3. Place = "send" => Send
  BY <1>1 DEF ControlPlaces, ControlStep, ClearSETUP, Receive, AwaitIN, Send,
     AwaitOUT, ClearIN, ClearOUT, StatusIN, StatusOUT, SpinIN
<1>4. Place = "receive" =>
        /\ Continue(Tail(todo)) => Place' = "awaitIN"
        /\ UNCHANGED <<pc, todo>> => Place' = "receive"
  BY StepPlace DEF Follows, Escape
<1>5. Place = "send" =>
        /\ Continue(Tail(todo)) => Place' = "awaitOUT"
        /\ Continue(Tail(Tail(todo))) => Place' = "clearOUT"
        /\ UNCHANGED <<pc, todo>> => Place' = "send"
  BY StepPlace DEF Follows, Escape
<1>6. /\ Place = "clearSETUP" => left' = Packets(request)
      /\ Place = "awaitOUT" => rxout \/ Gone
      /\ Place = "statusOUT" => rxout \/ Gone
      /\ Place = "awaitIN" => txin \/ Gone
      /\ Place = "statusIN" => txin \/ Unattached
  BY <1>1 DEF ControlPlaces, ControlStep, ClearSETUP, Receive, AwaitIN, Send,
     AwaitOUT, ClearIN, ClearOUT, StatusIN, StatusOUT, SpinIN, Gone, Unattached
<1>7. Place = "receive" =>
        \/ left = 0 /\ ~ rxout' /\ Place' = "awaitIN"
        \/ Gone \/ rxstp
        \/ /\ left # 0 /\ rxout /\ report' = outPkt
           /\ ~ rxout' /\ left' = left - 1
           /\ Place' = IF left = 1 THEN "awaitIN" ELSE "receive"
  BY <1>2, <1>4 DEF Receive
<1>8. Place = "send" =>
        \/ Place' \in {"send", "awaitOUT"}
        \/ (Gone \/ rxstp) /\ Place' = "clearOUT"
  BY <1>3, <1>5 DEF Send
<1>9. QED
  BY <1>6, <1>7, <1>8

(* A device in a transfer is not gone.                                     *)
LEMMA Heard ==
  ASSUME BusInv, Pending
  PROVE  ~ Gone /\ ~ Lost
BY DEF BusInv, Pending, Gone, Lost, Stages

LEMMA ReportControl ==
  ASSUME Typed, BusInv, BankInv, SetupInv, ReportInv, Main, ControlStep
  PROVE  ReportInv'
<1> DEFINE n == request.name
<1>1. /\ UNCHANGED <<xfer, agreed, broken, request, setup, outPkt, colors,
                     epStalled>>
      /\ Pending' = Pending
      /\ rxstp' = (IF Place = "clearSETUP" THEN FALSE ELSE rxstp)
  BY ControlFacts DEF Main, hostVars, Pending
<1>2. /\ Place # "clearSETUP" => Own' = Own
      /\ Place \in ControlPlaces
  BY <1>1, ControlPlace DEF Own
<1>3. /\ (Pending /\ SetsColor(xfer.req) => agreed = NoColor)'
      /\ (Pending /\ rxstp /\ xfer.req.name = "SetReport" =>
            xfer.wants = Packets(xfer.req))'
  BY <1>1 DEF ReportInv, SetsColor, Packets
<1>4. CASE broken
  BY <1>1, <1>3, <1>4 DEF ReportInv
<1>5. SetsColor(request) => n = "SetReport"
  BY DEF SetsColor
<1>6. CASE ~ broken
  <2>1. CASE Place = "clearSETUP"
    <3>1. ~ rxout' /\ txin' /\ txin /\ ~ rxstp' /\ (Lost \/ Taken)
      <4>1. ~ rxout
        BY <1>6, <2>1 DEF ReportInv
      <4>2. txin /\ (Lost \/ Taken)
        BY <2>1 DEF BankInv, Reading, Before
      <4>3. QED
        BY <1>1, <2>1, <4>1, <4>2, ControlFacts
    <3>2. Own' => Taken
      BY <1>1, <3>1 DEF Own, Pending, Lost, Stages
    <3>3. Follows(n, Place, Place')
      BY <2>1, ControlPlace DEF Escape
    <3>4. Taken =>
            /\ xfer.req = request /\ ~ epStalled[0]
            /\ xfer.stage = FirstStage(xfer.req)
      BY DEF SetupInv, Taken, Read
    <3>5. n = "SetReport" => Pending /\ xfer.req = request /\ Taken
      <4>1. n = "SetReport" => Pending
        BY <1>6, <2>1 DEF ReportInv
      <4>2. QED
        BY <3>1, <3>4, <4>1 DEF Lost, Pending, Stages
    <3>6. n = "SetReport" => Own'
      BY <1>1, <3>1, <3>4, <3>5 DEF Own
    <3>7. n = "SetReport" <=> Place' = "receive"
      BY <2>1, <3>3 DEF Follows, HidReads, ByteReads, HidStores, Features,
         Wakeups, Halts
    <3>8. Place' \in {"receive", "send", "clearIN", "spinIN", "setNumber",
                      "statusIN"}
      BY <2>1, <3>3 DEF Follows
    <3>9. Taken /\ xfer.stage = "in" => Place' \in {"clearIN", "spinIN", "send"}
      BY <2>1, <3>3, <3>4 DEF Follows, Typed, StageInv, ReadNames, HidReads,
         ByteReads, HidStores, Features, Wakeups, Halts
    <3>10. Taken => /\ xfer.stage # "statusOut"
                    /\ xfer.stage = "out" => n = "SetReport"
      BY <3>4 DEF FirstStage
    <3>11. colors # Garbage /\ (agreed # NoColor => colors = agreed)
      BY <1>6, <2>1 DEF ReportInv
    <3>12. Place' = "receive" =>
             /\ left' = (IF xfer.stage = "out" THEN xfer.wants ELSE 0) + 0
             /\ left' = 0 => request.arg = 0
      <4>1. SUFFICES ASSUME n = "SetReport"
                     PROVE  /\ left' = (IF xfer.stage = "out" THEN xfer.wants
                                                               ELSE 0) + 0
                            /\ left' = 0 => request.arg = 0
        BY <3>7
      <4>2. /\ left' = Packets(request) /\ Packets(request) \in Nat
            /\ Packets(request) = 0 <=> request.arg = 0
        BY <2>1, <4>1, ControlWaits, PacketsType DEF Typed, TypeOK, MainOK
      <4>3. xfer.wants = Packets(request)
        BY <3>5, <4>1 DEF ReportInv, Taken, Read
      <4>4. xfer.stage = IF request.arg # 0 THEN "out" ELSE "statusIn"
        BY <3>4, <3>5, <4>1 DEF FirstStage, ReadNames
      <4>5. QED
        BY <4>2, <4>3, <4>4
    <3>13. QED
      BY <1>1, <1>3, <3>1, <3>2, <3>5, <3>6, <3>7, <3>8, <3>9, <3>10, <3>11,
         <3>12 DEF ReportInv
  <2>2. CASE Place = "receive"
    <3>1. n = "SetReport"
      BY <2>2, StepPlace DEF Follows
    <3>2. Own /\ xfer.req = request /\ txin /\ Pending
      BY <1>6, <2>2, <3>1 DEF ReportInv
    <3>3. ~ Gone /\ ~ rxstp
      BY <3>2, Heard DEF Own
    <3>4. xfer.stage \notin {"in", "statusOut"}
      BY <3>1, <3>2 DEF Typed, StageInv, ReadNames
    <3>5. left = (IF xfer.stage = "out" THEN xfer.wants ELSE 0)
                    + (IF rxout THEN 1 ELSE 0)
      BY <1>6, <2>2 DEF ReportInv
    <3>6. /\ left = 0 => request.arg = 0
          /\ rxout => outPkt = request.color
          /\ colors # Garbage /\ (agreed # NoColor => colors = agreed)
      BY <1>6, <2>2 DEF ReportInv
    <3>7. /\ xfer.wants \in Nat /\ left \in Nat
          /\ xfer.stage = "out" => xfer.wants # 0
      BY DEF Typed, TypeOK, MainOK, HostOK, Transfers, StageInv
    <3>8. Own' /\ ~ rxstp' /\ txin'
      BY <1>1, <1>2, <2>2, <3>2, <3>3, ControlFacts
    <3>9. CASE left = 0
      <4>1. /\ Place' = "awaitIN" /\ ~ rxout'
        BY <2>2, <3>3, <3>9, ControlWaits
      <4>2. xfer.stage # "out" /\ request.arg = 0
        BY <3>5, <3>6, <3>7, <3>9
      <4>3. QED
        BY <1>1, <1>3, <3>1, <3>2, <3>4, <3>6, <3>8, <4>1, <4>2 DEF ReportInv
    <3>10. CASE left # 0
      <4>1. /\ rxout /\ ~ rxout' /\ report' = request.color /\ left' = left - 1
            /\ Place' = IF left = 1 THEN "awaitIN" ELSE "receive"
        BY <2>2, <3>3, <3>6, <3>10, ControlWaits
      <4>2. /\ left' = IF xfer.stage = "out" THEN xfer.wants ELSE 0
            /\ left = 1 <=> xfer.stage # "out"
            /\ left # 1 => left' # 0
        BY <3>5, <3>7, <4>1
      <4>3. QED
        BY <1>1, <1>3, <3>1, <3>2, <3>4, <3>6, <3>8, <4>1, <4>2 DEF ReportInv
    <3>11. QED
      BY <3>9, <3>10
  <2>3. CASE Place \in {"awaitIN", "spinIN"}
    <3>1. ~ rxout' /\ report' = report /\ txin' = txin /\ rxstp' = rxstp
      <4>1. rxout' = rxout /\ report' = report /\ txin' = txin
        BY <2>3, ControlFacts
      <4>2. ~ rxout
        BY <1>6, <2>3 DEF ReportInv
      <4>3. QED
        BY <1>1, <2>3, <4>1, <4>2
    <3>2. /\ Place = "awaitIN" => n = "SetReport" /\ Place' = "clearIN"
          /\ Place = "spinIN" /\ n = "SetAddress" => Place' = "enableAddress"
          /\ Place = "spinIN" /\ n # "SetAddress" =>
               n \in HidReads /\ Place' = "clearIN" /\ txin
      <4>1. Follows(n, Place, Place')
        BY <2>3, ControlPlace DEF Escape
      <4>2. Place = "spinIN" => txin
        BY ControlFacts
      <4>3. QED
        BY <2>3, <4>1, <4>2 DEF Follows, HidReads
    <3>3. Own => xfer.req = request /\ Pending
      BY DEF SetupInv, Own
    <3>4. Own => /\ xfer.stage # "out"
                 /\ Place = "awaitIN" => xfer.stage \notin {"in", "statusOut"}
                 /\ n = "SetAddress" => xfer.stage \notin {"in", "statusOut"}
                 /\ Place = "spinIN" => /\ xfer.stage # "statusOut"
                                        /\ xfer.stage = "in" => txin
      BY <1>6, <2>3, <3>3 DEF ReportInv, Typed, StageInv, ReadNames
    <3>5. Own' = Own
      BY <1>2, <2>3
    <3>6. QED
      BY <1>1, <1>3, <1>6, <2>3, <3>1, <3>2, <3>3, <3>4, <3>5
         DEF ReportInv, HidReads
  <2>4. CASE Place = "clearIN"
    <3>1. ~ rxout' /\ report' = report /\ ~ txin' /\ rxstp' = rxstp
      BY <1>1, <1>6, <2>4, ControlFacts DEF ReportInv
    <3>2. /\ n = "SetReport" => Place' = "commit"
          /\ n # "SetReport" => Place' \in {"awaitOUT", "statusOUT"}
      BY <2>4, ControlPlace DEF Follows, Escape, HidReads, ByteReads
    <3>3. Own => xfer.req = request /\ Pending
      BY DEF SetupInv, Own
    <3>4. Own => xfer.stage # "out"
      BY <1>6, <2>4 DEF ReportInv
    <3>5. /\ n = "SetReport" => Own
          /\ n = "SetReport" /\ SetsColor(request) => agreed = NoColor
          /\ agreed # NoColor => agreed = colors
      BY <1>6, <2>4, <3>3 DEF ReportInv
    <3>6. n = "SetReport" => xfer.stage \notin {"in", "statusOut"}
      BY <3>3, <3>5 DEF Typed, StageInv, ReadNames
    <3>7. Own' = Own
      BY <1>2, <2>4
    <3>8. QED
      BY <1>1, <1>3, <1>5, <1>6, <2>4, <3>1, <3>2, <3>3, <3>4, <3>5, <3>6, <3>7
         DEF ReportInv
  <2>5. CASE Place = "send"
    <3>1. n = "GetDescriptor" /\ Place' \in {"send", "awaitOUT", "clearOUT"}
      BY <2>5, StepPlace, ControlWaits DEF Follows
    <3>2. Own => Place' # "clearOUT"
      BY <3>1, <2>5, ControlWaits, Heard DEF Own
    <3>3. rxout' = rxout /\ report' = report /\ rxstp' = rxstp /\ Own' = Own
      BY <1>1, <1>2, <2>5, ControlFacts
    <3>4. Own => xfer.req = request /\ Pending
      BY DEF SetupInv, Own
    <3>5. Own => xfer.stage # "out"
      BY <1>6, <2>5 DEF ReportInv
    <3>6. QED
      BY <1>1, <1>3, <1>5, <1>6, <2>5, <3>1, <3>2, <3>3, <3>4, <3>5 DEF ReportInv
  <2>6. CASE Place \in {"awaitOUT", "statusOUT", "clearOUT"}
    <3>1. /\ n # "SetReport"
          /\ Place = "awaitOUT" => Place' = "clearOUT"
          /\ Place # "awaitOUT" => Place' \in {"standard", "final"}
      BY <2>6, ControlPlace DEF Follows, Escape, HidReads, ByteReads, End
    <3>2. Place \in {"awaitOUT", "statusOUT"} => ~ Own
      <4>1. SUFFICES ASSUME Place \in {"awaitOUT", "statusOUT"}, Own PROVE FALSE
        OBVIOUS
      <4>2. rxout
        BY <4>1, ControlWaits, Heard DEF Own
      <4>3. QED
        BY <1>6, <4>1, <4>2 DEF ReportInv
    <3>3. Own => xfer.stage \notin {"out", "in", "statusOut"}
      BY <1>6, <2>6, <3>2 DEF ReportInv
    <3>4. /\ Place # "awaitOUT" => ~ rxout'
          /\ rxout' => rxout
          /\ report' = report /\ rxstp' = rxstp /\ Own' = Own
      <4>1. /\ Place # "awaitOUT" => ~ rxout'
            /\ rxout' => rxout
        BY <2>6, ControlFacts
      <4>2. report' = report
        BY <2>6, ControlFacts
      <4>3. QED
        BY <1>1, <1>2, <2>6, <4>1, <4>2
    <3>5. Own => xfer.req = request /\ Pending
      BY DEF SetupInv, Own
    <3>6. QED
      BY <1>1, <1>3, <1>5, <1>6, <2>6, <3>1, <3>2, <3>3, <3>4, <3>5 DEF ReportInv
  <2>7. CASE Place = "statusIN"
    <3>1. n # "SetReport" /\ n \notin ReadNames
          /\ Place' \in {"storeHid", "spinIN", "chooseState", "final"}
      BY <2>7, ControlPlace DEF Follows, Escape, HidStores, Features, Wakeups,
         Halts, ReadNames
    <3>2. ~ rxout' /\ report' = report /\ rxstp' = rxstp /\ Own' = Own
      BY <1>1, <1>2, <1>6, <2>7, ControlFacts DEF ReportInv
    <3>3. Own => xfer.req = request /\ Pending
      BY DEF SetupInv, Own
    <3>4. Own => xfer.stage \notin {"out", "in", "statusOut"}
      BY <1>6, <2>7, <3>1, <3>3 DEF ReportInv, Typed, StageInv
    <3>5. QED
      BY <1>1, <1>3, <1>5, <1>6, <2>7, <3>1, <3>2, <3>3, <3>4 DEF ReportInv
  <2>8. QED
    BY <1>2, <2>1, <2>2, <2>3, <2>4, <2>5, <2>6, <2>7 DEF ControlPlaces
<1>7. QED
  BY <1>4, <1>6

LEMMA ReportStore ==
  ASSUME Typed, BusInv, BankInv, SetupInv, ReportInv, Main, StoringStep
  PROVE  ReportInv'
<1> DEFINE n == request.name
<1>1. /\ UNCHANGED <<xfer, agreed, broken, request, setup, outPkt>>
      /\ Pending' = Pending
  BY StoreFacts DEF Main, hostVars, Pending
<1>2. /\ Place \in StorePlaces
      /\ \/ Follows(n, Place, Place')
         \/ Place = "rewriteHigher" /\ Place' = "rewriteHigher"
      /\ Place = "rewriteHigher" => n = "SetConfiguration"
  BY StorePlace, StepPlace DEF Follows
<1>3. /\ rxstp' => rxstp
      /\ rxout' => rxout
      /\ txin => txin'
      /\ Own' => Own /\ txin' = txin
  <2>1. CASE Place \in Configuring /\ selected = 0
    <3>1. ~ Pending
      BY <2>1 DEF BankInv, Lost, Pending, Stages, Configuring
    <3>2. QED
      BY <1>1, <2>1, <3>1, StoreFacts DEF Own
  <2>2. CASE ~ (Place \in Configuring /\ selected = 0)
    <3>1. UNCHANGED <<rxstp, rxout, txin>>
      BY <2>2, StoreFacts
    <3>2. Pending => epStalled'[0] = epStalled[0]
      BY <2>2, StoreEndpoints DEF BankInv, Lost, Pending, Stages, Configuring
    <3>3. QED
      BY <1>1, <3>1, <3>2 DEF Own
  <2>3. QED
    BY <2>1, <2>2
<1>4. /\ (Pending /\ SetsColor(xfer.req) => agreed = NoColor)'
      /\ (Pending /\ rxstp /\ xfer.req.name = "SetReport" =>
            xfer.wants = Packets(xfer.req))'
  BY <1>1, <1>3 DEF ReportInv, SetsColor, Packets
<1>5. Own => xfer.req = request /\ Pending
  BY DEF SetupInv, Own
<1>6. CASE broken
  BY <1>1, <1>4, <1>6 DEF ReportInv
<1>7. CASE ~ broken
  <2>1. ~ rxout /\ (Own => xfer.stage \notin {"out", "in", "statusOut"})
    BY <1>2, <1>7 DEF ReportInv, StorePlaces, StepNames, ControlPlaces
  <2>2. CASE Place = "commit"
    <3>1. n = "SetReport" /\ Place' = "standard"
      BY <1>2, <2>2 DEF Follows
    <3>2. colors' = IF SetsColor(request) THEN request.color ELSE colors
      BY <1>7, <2>2, <3>1, StoreFacts DEF ReportInv, SetsColor
    <3>3. request.color # Garbage
      <4>1. request \in Requests
        BY StepPlace
      <4>2. QED
        BY <4>1, RequestType, ConstantAssumption DEF RequestOrNone
    <3>4. agreed # NoColor => agreed = colors'
      BY <1>7, <2>2, <3>2 DEF ReportInv
    <3>5. colors # Garbage
      BY <1>7 DEF ReportInv
    <3>6. QED
      BY <1>1, <1>3, <1>4, <1>5, <1>7, <2>1, <3>1, <3>2, <3>3, <3>4, <3>5
         DEF ReportInv
  <2>3. CASE Place # "commit"
    <3>1. report' = report /\ colors' = colors
      BY <2>3, StoreFacts
    <3>2. /\ n # "SetReport"
          /\ Place' \notin {"receive", "awaitIN", "clearIN", "commit"}
      BY <1>2, <2>3 DEF Follows, StorePlaces, StepNames, ControlPlaces,
         HidStores, Features, Wakeups, Halts, End
    <3>3. QED
      BY <1>1, <1>3, <1>4, <1>5, <1>7, <2>1, <2>3, <3>1, <3>2 DEF ReportInv
  <2>4. QED
    BY <2>2, <2>3
<1>8. QED
  BY <1>6, <1>7

LEMMA ReportTask ==
  ASSUME Typed, BusInv, BankInv, SetupInv, ReportInv, Main,
         HidTask \/ DeviceTask \/ Final
  PROVE  ReportInv'
<1>1. /\ UNCHANGED <<xfer, agreed, broken, outPkt, colors, report, rxout, txin>>
      /\ Pending' = Pending
  BY DEF Main, HidTask, DeviceTask, Final, hostVars, deviceVars, packetVars,
     localVars, Pending
<1>2. /\ Place \in {"hid", "task", "final"}
      /\ Place' \in {"hid", "task", "event"}
  BY TaskPlace
<1>3. /\ rxstp' => rxstp
      /\ Own' => Own
  <2>1. CASE Final
    BY <1>1, <2>1 DEF Final, Own, StallRequest, SetupReceived, Typed, TypeOK,
       ControllerOK, Endpoints
  <2>2. CASE HidTask \/ DeviceTask
    BY <1>1, <2>2 DEF HidTask, DeviceTask, Own, packetVars
  <2>3. QED
    BY <2>1, <2>2
<1>4. /\ (Pending /\ SetsColor(xfer.req) => agreed = NoColor)'
      /\ (Pending /\ rxstp /\ xfer.req.name = "SetReport" =>
            xfer.wants = Packets(xfer.req))'
  BY <1>1, <1>3 DEF ReportInv, SetsColor, Packets
<1>5. CASE broken
  BY <1>1, <1>4, <1>5 DEF ReportInv
<1>6. CASE ~ broken
  <2>1. ~ rxout /\ (Own => xfer.stage \notin {"out", "in", "statusOut"})
    BY <1>2, <1>6 DEF ReportInv
  <2>2. CASE Place' = "event"
    <3>1. /\ Place = "task" /\ rxstp /\ rxstp' /\ request' = setup
          /\ setup' = NoRequest
      BY <1>2, <2>2, TaskPlace DEF DeviceTask
    <3>2. Waiting /\ txin
      BY <3>1 DEF BankInv, Waiting, Read, Reading, Before, Between
    <3>3. setup.name = "SetReport" => Pending /\ setup = xfer.req
      BY <1>6, <3>1, <3>2 DEF ReportInv, SetupInv, Unread
    <3>4. setup'.name # "SetReport"
      BY <3>1 DEF NoRequest
    <3>5. ~ Own'
      BY <3>1 DEF Own
    <3>6. QED
      BY <1>1, <1>2, <1>4, <1>6, <2>1, <2>2, <3>1, <3>2, <3>3, <3>4, <3>5
         DEF ReportInv
  <2>3. CASE Place' # "event"
    <3>1. setup' = setup /\ Place' \in {"hid", "task"}
      BY <1>2, <2>3, TaskPlace DEF HidTask, DeviceTask, Final, packetVars, Place
    <3>2. QED
      BY <1>1, <1>2, <1>3, <1>4, <1>6, <2>1, <2>3, <3>1 DEF ReportInv
  <2>4. QED
    BY <2>2, <2>3
<1>7. QED
  BY <1>5, <1>6

LEMMA ReportDispatch ==
  ASSUME Typed, SetupInv, ReportInv, Main,
         ProcessClassRequest \/ ProcessStandardRequest
  PROVE  ReportInv'
<1>1. /\ UNCHANGED <<xfer, agreed, broken, request, outPkt, colors, report,
                     setup, rxstp, rxout, txin, epStalled>>
      /\ Pending' = Pending
  BY DEF Main, ProcessClassRequest, ProcessStandardRequest, Dispatch, hostVars,
     deviceVars, packetVars, epVars, localVars, Pending
<1>2. Own' = Own
  BY <1>1 DEF Own
<1>3. /\ Place \in {"event", "standard"}
      /\ Place' \in Before \cup {"standard", "final"}
      /\ request.name = "SetReport" =>
           \/ Place = "event" /\ Place' = "clearSETUP"
           \/ Place' \in {"standard", "final"}
  BY DispatchPlace DEF Begins, Before, Wakeups, EndpointNames, StandardNames
<1>4. /\ (Pending /\ SetsColor(xfer.req) => agreed = NoColor)'
      /\ (Pending /\ rxstp /\ xfer.req.name = "SetReport" =>
            xfer.wants = Packets(xfer.req))'
  BY <1>1 DEF ReportInv, SetsColor, Packets
<1>5. CASE broken
  BY <1>1, <1>4, <1>5 DEF ReportInv
<1>6. CASE ~ broken
  BY <1>1, <1>2, <1>3, <1>4, <1>6 DEF ReportInv, Before
<1>7. QED
  BY <1>5, <1>6

LEMMA ReportInterrupt ==
  ASSUME Typed, BusInv, ReportInv, UsbGen
  PROVE  ReportInv'
<1>1. /\ UNCHANGED <<xfer, agreed, broken, request, outPkt, colors, report, setup,
                     left>>
      /\ Place' = Place /\ Pending' = Pending
  <2>1. UNCHANGED <<xfer, agreed, broken, outPkt, colors, report, setup, left>>
    BY DEF UsbGen, VbusChanged, Suspended, WokenUp, BusWasReset, packetVars,
       hostVars, localVars
  <2>2. QED
    BY <2>1, OtherPlace DEF Pending
<1>2. CASE BusWasReset
  <2>1. ~ rxstp' /\ ~ rxout' /\ Lost
    BY <1>2 DEF BusWasReset, BusInv
  <2>2. ~ Pending
    BY <2>1 DEF Lost, Pending, Stages
  <2>3. ~ broken => Place # "receive"
    BY <2>2, TypedHandler, Places DEF ReportInv, Follows, Outside
  <2>4. QED
    BY <1>1, <2>1, <2>2, <2>3 DEF ReportInv, Own
<1>3. CASE VbusChanged \/ Suspended \/ WokenUp
  <2>1. UNCHANGED <<rxstp, rxout, txin, epStalled>>
    BY <1>3 DEF VbusChanged, Suspended, WokenUp, packetVars, epVars
  <2>2. Own' = Own
    BY <1>1, <2>1 DEF Own
  <2>3. QED
    BY <1>1, <2>1, <2>2 DEF ReportInv
<1>4. QED
  BY <1>2, <1>3 DEF UsbGen

LEMMA ReportSetup ==
  ASSUME Typed, SetupInv, ReportInv, Host, SendSetup
  PROVE  ReportInv'
<1>1. /\ rxstp' /\ UNCHANGED <<broken, rxout, outPkt, colors, report, left>>
      /\ Place' = Place /\ request' = request
      /\ xfer'.req = setup' /\ xfer'.stage \in {"in", "out", "statusIn"}
      /\ agreed' = IF SetsColor(setup)' THEN NoColor ELSE agreed
  BY SetupFacts, SetupPlace, OtherPlace DEF SendSetup, Host, deviceVars, localVars
<1>2. Pending' /\ ~ Own' /\ xfer'.stage # "statusOut"
  BY <1>1 DEF Own, Pending, Stages
<1>3. ~ Pending
  BY SetupPlace DEF Lost, Pending, Stages
<1>4. ~ broken => Place # "receive"
  BY <1>3, TypedHandler, Places DEF ReportInv, Follows, Outside
<1>5. rxout /\ ~ broken =>
        Place \in {"send", "awaitOUT", "statusOUT", "clearOUT"}
  BY <1>4 DEF ReportInv
<1>6. /\ (Pending /\ SetsColor(xfer.req) => agreed = NoColor)'
      /\ (Pending /\ rxstp /\ xfer.req.name = "SetReport" =>
            xfer.wants = Packets(xfer.req))'
  BY <1>1, SetupFacts DEF SetsColor, Packets, Wants
<1>7. QED
  BY <1>1, <1>2, <1>3, <1>4, <1>5, <1>6 DEF ReportInv

LEMMA ReportToken ==
  ASSUME Typed, BusInv, BankInv, SetupInv, ReportInv, Host, Token
  PROVE  ReportInv'
<1>1. /\ UNCHANGED <<rxstp, setup, epStalled, broken, colors, report, left>>
      /\ Place' = Place /\ request' = request
      /\ ~ rxstp /\ xfer.stage \in Stages /\ Pending /\ TypeOK
  BY OtherPlace, TakeFacts, GiveFacts DEF Token, epVars, Typed, Host,
     deviceVars, localVars, Pending, Stages
<1>2. Place \notin Before
  BY <1>1 DEF BankInv, Reading, Taken, Read, Lost, Stages
<1>3. Pending /\ SetsColor(xfer.req) => agreed = NoColor
  BY DEF ReportInv
<1>4. Place = "receive" => request.name = "SetReport"
  BY TypedHandler, Places DEF Follows, Outside
<1>5. Own => xfer.req = request
  BY DEF SetupInv
<1>6. CASE Stalled
  <2>1. /\ xfer'.stage = "idle" /\ UNCHANGED <<agreed, rxout, outPkt>>
        /\ epStalled[0]
    BY <1>1, <1>6, StalledFacts
  <2>2. ~ Own /\ ~ Own' /\ ~ Pending'
    BY <2>1 DEF Own, Pending, Stages
  <2>3. ~ broken => Place # "receive"
    BY <1>4, <2>2 DEF ReportInv
  <2>4. QED
    BY <1>1, <1>2, <2>1, <2>2, <2>3 DEF ReportInv, Before
<1>7. CASE TakeIN
  <2>1. /\ Own /\ ~ txin /\ txin' /\ UNCHANGED <<rxout, outPkt>>
        /\ xfer'.req = xfer.req /\ xfer.stage \in {"in", "statusIn"}
    BY <1>1, <1>7, TakeFacts DEF Own
  <2>2. ~ broken => /\ ~ rxout
                    /\ request.name = "SetReport" =>
                         Place \notin {"receive", "awaitIN", "clearIN"}
    BY <1>4, <2>1 DEF ReportInv
  <2>3. CASE xfer.stage = "in"
    <3>1. xfer'.stage \in {"in", "statusOut"} /\ agreed' = agreed
      BY <1>1, <1>7, <2>3, TakeFacts
    <3>2. ~ broken => Place \in {"send", "awaitOUT", "statusOUT"}
      BY <2>1, <2>3 DEF ReportInv
    <3>3. xfer.req.name # "SetReport"
      BY <2>3 DEF Typed, StageInv, ReadNames
    <3>4. QED
      BY <1>1, <1>2, <1>4, <2>1, <2>2, <3>1, <3>2, <3>3
         DEF ReportInv, Before, SetsColor
  <2>4. CASE xfer.stage = "statusIn"
    <3>1. xfer'.stage = "idle"
          /\ agreed' = IF SetsColor(xfer.req) THEN xfer.req.color ELSE agreed
      BY <1>1, <1>7, <2>4, TakeFacts, CompleteFacts DEF Complete
    <3>2. ~ Pending' /\ ~ Own'
      BY <3>1 DEF Own, Pending, Stages
    <3>3. ~ broken /\ SetsColor(xfer.req) =>
            Place = "commit" \/ colors = xfer.req.color
      BY <2>1 DEF ReportInv
    <3>4. ~ broken /\ agreed' # NoColor =>
            agreed' = IF Place = "commit" /\ SetsColor(request)
                      THEN request.color ELSE colors
      BY <1>5, <2>1, <3>1, <3>3 DEF ReportInv
    <3>5. QED
      BY <1>1, <1>2, <1>4, <2>1, <2>2, <3>1, <3>2, <3>4 DEF ReportInv, Before
  <2>5. QED
    BY <2>1, <2>3, <2>4
<1>8. CASE GiveOUT
  <2>1. /\ Own /\ ~ rxout /\ rxout' /\ UNCHANGED txin
        /\ xfer'.req = xfer.req /\ xfer.stage \in {"out", "statusOut"}
    BY <1>1, <1>8, GiveFacts DEF Own
  <2>2. CASE xfer.stage = "statusOut"
    <3>1. ~ SetsColor(xfer.req)
      BY <2>2 DEF Typed, StageInv, ReadNames, SetsColor
    <3>2. xfer'.stage = "idle" /\ agreed' = agreed
      BY <1>1, <1>8, <2>2, <3>1, GiveFacts, CompleteFacts DEF Complete
    <3>3. ~ Pending' /\ ~ Own'
      BY <3>2 DEF Own, Pending, Stages
    <3>4. ~ broken => Place \in {"send", "awaitOUT", "statusOUT"}
      BY <2>1, <2>2 DEF ReportInv
    <3>5. QED
      BY <1>1, <2>1, <3>2, <3>3, <3>4 DEF ReportInv
  <2>3. CASE xfer.stage = "out"
    <3>1. /\ xfer'.stage = IF xfer.wants = 1 THEN "statusIn" ELSE "out"
          /\ xfer'.wants = xfer.wants - 1 /\ agreed' = agreed
          /\ outPkt' = xfer.req.color
      BY <1>1, <1>8, <2>3, GiveFacts
    <3>2. Pending' /\ Own'
      BY <1>1, <2>1, <3>1 DEF Own, Pending, Stages
    <3>3. ~ broken => Place = "receive" /\ txin
      BY <1>4, <2>1, <2>3 DEF ReportInv
    <3>4. ~ broken => left = (IF xfer'.stage = "out" THEN xfer'.wants ELSE 0) + 1
      <4>1. xfer.wants \in Nat \ {0}
        BY <2>3 DEF Typed, TypeOK, HostOK, Transfers, StageInv
      <4>2. ~ broken => left = xfer.wants
        BY <2>1, <2>3, <3>3, <4>1 DEF ReportInv
      <4>3. QED
        BY <3>1, <4>1, <4>2
    <3>5. (Pending /\ SetsColor(xfer.req) => agreed = NoColor)'
      BY <1>1, <1>3, <2>1, <3>1 DEF SetsColor
    <3>6. QED
      BY <1>1, <1>4, <1>5, <2>1, <2>3, <3>1, <3>2, <3>3, <3>4, <3>5 DEF ReportInv
  <2>4. QED
    BY <2>1, <2>2, <2>3
<1>9. QED
  BY <1>6, <1>7, <1>8 DEF Token

LEMMA ReportBreak ==
  ASSUME Typed, SetupInv, ReportInv, Host, Abort \/ BusEvent
  PROVE  ReportInv'
<1>1. /\ UNCHANGED <<setup, rxstp, rxout, outPkt, txin, agreed, colors, report,
                     left>>
      /\ Place' = Place /\ request' = request
      /\ xfer'.stage = "recovering"
      /\ broken \/ (Pending /\ xfer.req.name = "SetReport") => broken'
  BY BreakFacts, OtherPlace DEF Abort, BusEvent, Plug, Unplug, Reset, Suspend,
     Resume, packetVars, Host, deviceVars, localVars
<1>2. ~ Pending' /\ ~ Own'
  BY <1>1 DEF Own, Pending, Stages
<1>3. CASE broken'
  BY <1>2, <1>3 DEF ReportInv
<1>4. CASE ~ broken'
  <2>1. ~ broken /\ ~ (Pending /\ xfer.req.name = "SetReport")
    BY <1>1, <1>4
  <2>2. ~ (rxstp /\ setup.name = "SetReport")
    <3>1. SUFFICES ASSUME rxstp, setup.name = "SetReport" PROVE FALSE
      OBVIOUS
    <3>2. Pending /\ Unread
      BY <2>1, <3>1 DEF ReportInv, Unread, Waiting, NoRequest
    <3>3. QED
      BY <2>1, <3>1, <3>2 DEF SetupInv
  <2>3. request.name = "SetReport" =>
          Place \notin {"event", "clearSETUP", "receive", "awaitIN", "clearIN"}
    BY <2>1 DEF ReportInv
  <2>4. Place = "receive" => request.name = "SetReport"
    BY TypedHandler, Places DEF Follows, Outside
  <2>5. rxout => Place \in {"send", "awaitOUT", "statusOUT", "clearOUT"}
    BY <2>1, <2>3, <2>4 DEF ReportInv
  <2>6. QED
    BY <1>1, <1>2, <2>1, <2>2, <2>3, <2>4, <2>5 DEF ReportInv
<1>5. QED
  BY <1>3, <1>4

LEMMA ReportStep ==
  ASSUME Typed, BusInv, BankInv, SetupInv, ReportInv, Next \/ UNCHANGED vars
  PROVE  ReportInv'
<1>1. CASE Main
  BY <1>1, ReportControl, ReportStore, ReportTask, ReportDispatch
     DEF Main, StoringStep
<1>2. CASE Host
  BY <1>2, ReportSetup, ReportToken, ReportBreak DEF Host
<1>3. CASE UNCHANGED vars
  BY <1>3, OtherPlace DEF ReportInv, Own, Pending, vars, packetVars, hostVars,
     epVars, deviceVars, localVars, SetsColor, Packets
<1>4. QED
  BY <1>1, <1>2, <1>3, ReportInterrupt DEF Next

-----------------------------------------------------------------------------
(* The address.                                                            *)

LEMMA AddressControl ==
  ASSUME Typed, BankInv, SetupInv, AddressInv, Main, ControlStep
  PROVE  AddressInv'
<1>1. /\ UNCHANGED <<xfer, request>> /\ Pending' = Pending
  BY ControlFacts DEF Main, hostVars, Pending
<1>2. SUFFICES ASSUME Pending, xfer.req.name = "SetAddress", ~ xfer.raced
               PROVE  Place' # "enableAddress" /\ (Place' = "spinIN" => ~ txin')
  BY <1>1 DEF AddressInv
<1>3. Place # "enableAddress" /\ (Place = "spinIN" => ~ txin)
  BY <1>2 DEF AddressInv
<1>4. Place # "spinIN"
  BY <1>3, ControlFacts
<1>5. CASE Place = "clearSETUP"
  <2>1. request = xfer.req
    BY <1>2, <1>5 DEF BankInv, SetupInv, Reading, Before, Lost, Pending, Stages
  <2>2. Place' = "statusIN"
    BY <1>2, <1>5, <2>1, ControlPlace DEF Follows, Escape, ByteReads, HidReads
  <2>3. QED
    BY <2>2
<1>6. CASE Place = "statusIN"
  BY <1>6, ControlPlace, ControlFacts DEF Follows, Escape
<1>7. CASE Place \notin {"clearSETUP", "statusIN"}
  <2>1. Place' \notin {"spinIN", "enableAddress"}
    BY <1>4, <1>7, ControlPlace DEF Follows, Escape, ControlPlaces, StepNames, End
  <2>2. QED
    BY <2>1
<1>8. QED
  BY <1>5, <1>6, <1>7

LEMMA AddressMain ==
  ASSUME Typed, BankInv, SetupInv, AddressInv, Main
  PROVE  AddressInv'
<1>1. CASE ControlStep
  BY <1>1, AddressControl
<1>2. CASE StoringStep
  BY <1>2, StorePlace DEF Follows, StorePlaces, StepNames, ControlPlaces, End,
     AddressInv
<1>3. CASE HidTask \/ DeviceTask \/ Final
  BY <1>3, TaskPlace DEF AddressInv
<1>4. CASE ProcessClassRequest \/ ProcessStandardRequest
  BY <1>4, DispatchPlace DEF Begins, AddressInv
<1>5. QED
  BY <1>1, <1>2, <1>3, <1>4 DEF Main, StoringStep

LEMMA AddressStep ==
  ASSUME Typed, BusInv, BankInv, SetupInv, AddressInv, Next \/ UNCHANGED vars
  PROVE  AddressInv'
<1>1. CASE Main
  BY <1>1, AddressMain
<1>2. CASE UsbGen
  <2>1. Place' = Place /\ xfer' = xfer
    BY <1>2, OtherPlace DEF UsbGen, hostVars
  <2>2. Pending => ~ BusWasReset
    BY DEF BusInv, BusWasReset, Pending, Lost, Stages
  <2>3. Pending => txin' = txin
    BY <1>2, <2>2 DEF UsbGen, VbusChanged, Suspended, WokenUp, packetVars
  <2>4. QED
    BY <2>1, <2>3 DEF AddressInv, Pending
<1>3. CASE UNCHANGED vars
  BY <1>3, OtherPlace DEF AddressInv, Pending, vars, packetVars, hostVars
<1>4. CASE Host
  <2>1. Place' = Place /\ TypeOK
    BY <1>4, OtherPlace DEF Typed
  <2>2. CASE SendSetup
    BY <2>1, <2>2, SetupFacts, SetupPlace DEF AddressInv, Between
  <2>3. CASE Token
    <3>1. CASE Stalled
      BY <2>1, <3>1, StalledFacts DEF AddressInv, Pending, Stages
    <3>2. CASE TakeIN
      <4>1. xfer'.stage = "idle" \/ xfer'.req.name \in ReadNames
        BY <2>1, <3>2, TakeFacts, CompleteFacts DEF Typed, StageInv
      <4>2. QED
        BY <4>1 DEF AddressInv, Pending, Stages, ReadNames
    <3>3. CASE GiveOUT
      <4>1. xfer'.stage = "idle" \/ xfer'.req.name = "SetReport"
        BY <2>1, <3>3, GiveFacts, CompleteFacts DEF Typed, StageInv
      <4>2. QED
        BY <4>1 DEF AddressInv, Pending, Stages
    <3>4. QED
      BY <2>3, <3>1, <3>2, <3>3 DEF Token
  <2>4. CASE Abort \/ BusEvent
    BY <2>4, BreakFacts DEF Abort, BusEvent, Plug, Unplug, Reset, Suspend, Resume,
       AddressInv, Pending, Stages
  <2>5. QED
    BY <1>4, <2>2, <2>3, <2>4 DEF Host
<1>5. QED
  BY <1>1, <1>2, <1>3, <1>4 DEF Next

(* The address is enabled by the handler of SetAddress, when the host no   *)
(* longer waits for its status packet.                                     *)
LEMMA AddressEnabled ==
  ASSUME Typed, AddressInv, Next \/ UNCHANGED vars, addEn' # addEn, addEn',
         xfer.req.name = "SetAddress"
  PROVE  xfer.stage # "statusIn" \/ xfer.raced
<1>1. Place = "enableAddress"
  <2>1. CASE Main
    <3>1. StoringStep
      BY <2>1, ControlFacts DEF Main, StoringStep, HidTask, DeviceTask,
         ProcessClassRequest, ProcessStandardRequest, Dispatch, Final, addrVars
    <3>2. QED
      BY <3>1, StoreFacts
  <2>2. CASE Host
    BY <2>2 DEF Host, SendSetup, Token, Abort, BusEvent, Plug, Unplug, Reset,
       Suspend, Resume, addrVars
  <2>3. CASE UsbGen
    BY <2>3 DEF UsbGen, VbusChanged, Suspended, WokenUp, BusWasReset, addrVars
  <2>4. QED
    BY <2>1, <2>2, <2>3 DEF Next, vars, addrVars
<1>2. QED
  BY <1>1 DEF AddressInv, Pending, Stages

-----------------------------------------------------------------------------
(* The configuration.                                                      *)

LEMMA ConfigControl ==
  ASSUME Typed, BankInv, SetupInv, ConfigInv, Main, ControlStep
  PROVE  ConfigInv'
<1>1. /\ UNCHANGED <<xfer, hostAddr, hostConf, bus, request, setup, confNumber,
                     devState, chosen, epType, epStalled>>
      /\ Pending' = Pending
      /\ rxstp' => rxstp
  BY ControlFacts DEF Main, hostVars, Pending
<1>2. Place # "clearSETUP" => Own' = Own
  BY <1>1, ControlFacts DEF Own
<1>3. Place \in ControlPlaces
  BY ControlPlace
<1>4. CASE request.name = "SetConfiguration"
  <2>1. \/ Place = "clearSETUP" /\ Place' = "setNumber" /\ txin'
        \/ Place = "statusIN" /\ Place' = "chooseState"
    <3>1. \/ Place = "clearSETUP" /\ Place' = "setNumber"
          \/ Place = "statusIN" /\ Place' = "chooseState"
      BY <1>4, ControlPlace, StepPlace DEF Follows, Escape, ControlPlaces,
         HidReads, ByteReads, HidStores, Features, Wakeups, Halts
    <3>2. Place = "clearSETUP" => txin /\ txin' = txin
      BY ControlFacts DEF BankInv, Reading, Before
    <3>3. QED
      BY <3>1, <3>2
  <2>2. hostConf = 0
    BY <1>4, <2>1 DEF ConfigInv
  <2>3. Own /\ Place = "statusIN" => confNumber = request.arg
    BY <1>4 DEF ConfigInv
  <2>4. QED
    BY <1>1, <1>2, <1>4, <2>1, <2>2, <2>3 DEF ConfigInv, Kept
<1>5. CASE request.name # "SetConfiguration"
  <2>1. Place' \notin {"chooseState", "storeState", "selectIN", "configureIN"}
    BY <1>3, <1>5, ControlPlace DEF Follows, Escape, ControlPlaces, End
  <2>2. Place \notin {"chooseState", "storeState", "selectIN", "configureIN"}
    BY <1>3 DEF ControlPlaces
  <2>3. hostConf # 0 /\ bus \in {"active", "suspended"} => Kept(hostConf)'
    BY <1>1, <2>1, <2>2 DEF ConfigInv, Kept
  <2>4. QED
    BY <1>1, <1>5, <2>3 DEF ConfigInv
<1>6. QED
  BY <1>4, <1>5

(* Kept of the next state, for what is now n.                              *)
KeptNext(n) ==
  /\ confNumber' = n
  /\ Place' = "storeState" => chosen' = "Configured"
  /\ Place' \notin {"chooseState", "storeState"} =>
       devState' \in {"Configured", "Suspended"}
  /\ Place' \notin {"chooseState", "storeState", "selectIN", "configureIN"} =>
       epType'[1] = "interrupt"

(* A step that stores keeps a configuration, but for SetConfiguration      *)
(* before its status stage and SetAddress.                                 *)
LEMMA KeptStore ==
  ASSUME Typed, StoringStep, NEW n \in Nat \ {0}, Kept(n), Place # "setNumber",
         request.name # "SetAddress", Place = "configureIN" => selected = 1
  PROVE  KeptNext(n)
<1>1. /\ Place \in StorePlaces
      /\ \/ Follows(request.name, Place, Place')
         \/ Place = "rewriteHigher" /\ Place' = "rewriteHigher"
  BY StorePlace
<1>2. confNumber = n /\ confNumber' = n
  BY StoreFacts DEF Kept
<1>3. Place' = "storeState" <=> Place = "chooseState"
  BY <1>1 DEF Follows, StorePlaces, StepNames, ControlPlaces, End
<1>4. Place = "chooseState" => chosen' = "Configured"
  BY <1>2, StoreFacts DEF AwakeState
<1>5. Place' \notin {"chooseState", "storeState"} =>
        devState' \in {"Configured", "Suspended"}
  BY <1>1, <1>3, StoreFacts DEF Kept, Follows, StorePlaces, StepNames, ControlPlaces
<1>6. Place' \notin {"chooseState", "storeState", "selectIN", "configureIN"} =>
        epType'[1] = "interrupt"
  <2>1. CASE Place = "configureIN"
    BY <2>1, StoreEndpoints
  <2>2. CASE Place # "configureIN"
    <3>1. epType'[1] \in {epType[1], "interrupt"}
      BY StoreEndpoints
    <3>2. Place' \notin {"chooseState", "storeState", "selectIN", "configureIN"} =>
            Place \notin {"chooseState", "storeState", "selectIN", "configureIN"}
      BY <1>1, <1>3, <2>2 DEF Follows, StorePlaces, StepNames, ControlPlaces
    <3>3. QED
      BY <3>1, <3>2 DEF Kept
  <2>3. QED
    BY <2>1, <2>2
<1>7. QED
  BY <1>2, <1>3, <1>4, <1>5, <1>6 DEF KeptNext

LEMMA ConfigStore ==
  ASSUME Typed, BankInv, SetupInv, ConfigInv, Main, StoringStep
  PROVE  ConfigInv'
<1>1. /\ UNCHANGED <<xfer, hostAddr, hostConf, bus, request, setup>>
      /\ Pending' = Pending
  BY StoreFacts DEF Main, hostVars, Pending
<1>2. /\ Place \in StorePlaces
      /\ \/ Follows(request.name, Place, Place')
         \/ Place = "rewriteHigher" /\ Place' = "rewriteHigher"
      /\ Place \notin {"configureIN", "rewriteHigher"} =>
           Follows(request.name, Place, Place')
  BY StorePlace
<1>3. /\ rxstp' => rxstp
      /\ Own' => Own /\ txin' = txin
  <2>1. CASE Place \in Configuring /\ selected = 0
    <3>1. ~ Pending
      BY <2>1 DEF BankInv, Lost, Pending, Stages, Configuring
    <3>2. QED
      BY <1>1, <2>1, <3>1, StoreFacts DEF Own
  <2>2. CASE ~ (Place \in Configuring /\ selected = 0)
    <3>1. UNCHANGED <<rxstp, txin>>
      BY <2>2, StoreFacts
    <3>2. Pending => epStalled'[0] = epStalled[0]
      BY <2>2, StoreEndpoints DEF BankInv, Lost, Pending, Stages, Configuring
    <3>3. QED
      BY <1>1, <3>1, <3>2 DEF Own
  <2>3. QED
    BY <2>1, <2>2
<1>4. CASE Place = "setNumber"
  <2>1. /\ request.name = "SetConfiguration" /\ Place' = "statusIN"
        /\ confNumber' = request.arg
    BY <1>2, <1>4, StoreFacts DEF Follows
  <2>2. hostConf = 0 /\ txin
    BY <1>4, <2>1 DEF ConfigInv, BankInv
  <2>3. QED
    BY <1>1, <1>3, <2>1, <2>2 DEF ConfigInv
<1>5. CASE Place # "setNumber"
  <2>1. request.arg \in Nat /\ hostConf \in Nat
    BY RequestType DEF Typed, TypeOK, MainOK, HostOK
  <2>2. Place' \notin {"event", "standard", "setNumber", "statusIN"}
        \/ request.name # "SetConfiguration"
    BY <1>2, <1>5 DEF Follows, StorePlaces, StepNames, ControlPlaces,
       HidStores, Features, Wakeups, Halts, End
  <2>3. Place' = "clearSETUP" => request.name # "SetConfiguration"
    BY <1>2 DEF Follows, StorePlaces, StepNames, ControlPlaces, Wakeups, Halts, End,
       ClassNames
  <2>4. ASSUME Own', request.name = "SetConfiguration", ~ txin', request.arg # 0
        PROVE  KeptNext(request.arg)
    <3>1. Own /\ ~ txin
      BY <1>3, <2>4
    <3>2. Kept(request.arg)
      BY <2>4, <3>1 DEF ConfigInv
    <3>3. Place = "configureIN" => selected = 1
      BY <3>1 DEF BankInv, Own, Pending, Lost, Stages
    <3>4. QED
      BY <1>5, <2>1, <2>4, <3>2, <3>3, KeptStore
  <2>5. ASSUME hostConf # 0, bus \in {"active", "suspended"}
        PROVE  KeptNext(hostConf)
    <3>1. Kept(hostConf) /\ request.name # "SetAddress"
      BY <2>5 DEF ConfigInv
    <3>2. Place = "configureIN" => selected = 1
      BY <2>5 DEF BankInv
    <3>3. QED
      BY <1>5, <2>1, <2>5, <3>1, <3>2, KeptStore
  <2>6. Own' /\ request.name = "SetConfiguration" /\ ~ txin' /\ request.arg # 0
        => Kept(request.arg)'
    BY <1>1, <2>4 DEF Kept, KeptNext
  <2>7. hostConf # 0 /\ bus \in {"active", "suspended"} => Kept(hostConf)'
    BY <1>1, <2>5 DEF Kept, KeptNext
  <2>8. QED
    BY <1>1, <1>3, <2>2, <2>3, <2>6, <2>7 DEF ConfigInv
<1>6. QED
  BY <1>4, <1>5

LEMMA ConfigTask ==
  ASSUME Typed, ConfigInv, Main, HidTask \/ DeviceTask \/ Final
  PROVE  ConfigInv'
<1>1. /\ UNCHANGED <<xfer, hostAddr, hostConf, bus, confNumber, devState, epType,
                     txin>>
      /\ Pending' = Pending
      /\ rxstp' => rxstp
  BY DEF Main, HidTask, DeviceTask, Final, hostVars, deviceVars, packetVars, Pending
<1>2. /\ Place \in {"hid", "task", "final"}
      /\ Place' \in {"hid", "task", "event"}
  BY TaskPlace
<1>3. hostConf # 0 /\ bus \in {"active", "suspended"} => Kept(hostConf)'
  BY <1>1, <1>2 DEF ConfigInv, Kept
<1>4. CASE Place' = "event"
  <2>1. rxstp /\ rxstp' /\ request' = setup /\ setup' = NoRequest
    BY <1>2, <1>4, TaskPlace DEF DeviceTask
  <2>2. setup'.name = "None"
    BY <2>1 DEF NoRequest
  <2>3. ~ Own'
    BY <2>1 DEF Own
  <2>4. QED
    BY <1>1, <1>3, <1>4, <2>1, <2>2, <2>3 DEF ConfigInv
<1>5. CASE Place' # "event"
  <2>1. /\ UNCHANGED <<setup, request>> /\ Place' \in {"hid", "task"}
    BY <1>2, <1>5, TaskPlace DEF HidTask, DeviceTask, Final, packetVars, Place
  <2>2. Own' => Own
    <3>1. CASE Final
      BY <1>1, <3>1 DEF Final, Own, StallRequest, SetupReceived, Typed, TypeOK,
         ControllerOK, Endpoints
    <3>2. CASE HidTask \/ DeviceTask
      BY <1>1, <3>2 DEF HidTask, DeviceTask, Own, packetVars
    <3>3. QED
      BY <3>1, <3>2
  <2>3. Own' /\ request.name = "SetConfiguration" /\ ~ txin' /\ request.arg # 0
        => Kept(request.arg)'
    BY <1>1, <1>2, <2>1, <2>2 DEF ConfigInv, Kept
  <2>4. QED
    BY <1>1, <1>3, <2>1, <2>3 DEF ConfigInv
<1>6. QED
  BY <1>4, <1>5

LEMMA ConfigDispatch ==
  ASSUME Typed, ConfigInv, Main, ProcessClassRequest \/ ProcessStandardRequest
  PROVE  ConfigInv'
<1>1. /\ UNCHANGED <<xfer, hostAddr, hostConf, bus, confNumber, devState, epType,
                     txin, rxstp, epStalled, setup, request>>
      /\ Pending' = Pending
  BY DEF Main, ProcessClassRequest, ProcessStandardRequest, Dispatch, hostVars,
     deviceVars, packetVars, epVars, Pending
<1>2. Own' = Own
  BY <1>1 DEF Own
<1>3. /\ Place \in {"event", "standard"}
      /\ Place' \in Before \cup {"standard", "final"}
  BY DispatchPlace DEF Begins, Before
<1>4. hostConf # 0 /\ bus \in {"active", "suspended"} => Kept(hostConf)'
  BY <1>1, <1>3 DEF ConfigInv, Kept, Before
<1>5. Own' /\ request.name = "SetConfiguration" /\ ~ txin' /\ request.arg # 0
      => Kept(request.arg)'
  BY <1>1, <1>2, <1>3 DEF ConfigInv, Kept, Before
<1>6. QED
  BY <1>1, <1>2, <1>3, <1>4, <1>5 DEF ConfigInv, Before

LEMMA ConfigInterrupt ==
  ASSUME Typed, BusInv, ConfigInv, UsbGen
  PROVE  ConfigInv'
<1>1. /\ UNCHANGED <<xfer, hostAddr, hostConf, bus, chosen, setup, request>>
      /\ Place' = Place /\ Pending' = Pending
  <2>1. UNCHANGED <<xfer, hostAddr, hostConf, bus, chosen, setup>>
    BY DEF UsbGen, VbusChanged, Suspended, WokenUp, BusWasReset, packetVars,
       hostVars, localVars
  <2>2. QED
    BY <2>1, OtherPlace DEF Pending
<1>2. CASE BusWasReset
  <2>1. ~ rxstp' /\ Lost /\ hostConf = 0
    BY <1>2 DEF BusWasReset, BusInv
  <2>2. ~ Pending
    BY <2>1 DEF Lost, Pending, Stages
  <2>3. QED
    BY <1>1, <2>1, <2>2 DEF ConfigInv, Own
<1>3. CASE VbusChanged
  <2>1. Lost /\ bus \in {"detached", "attached"} /\ UNCHANGED rxstp
    BY <1>3 DEF VbusChanged, BusInv, packetVars
  <2>2. ~ Pending
    BY <2>1 DEF Lost, Pending, Stages
  <2>3. QED
    BY <1>1, <2>1, <2>2 DEF ConfigInv, Own
<1>4. CASE Suspended \/ WokenUp
  <2>1. UNCHANGED <<rxstp, txin, epStalled, confNumber, epType>>
    BY <1>4 DEF Suspended, WokenUp, packetVars, epVars
  <2>2. Own' = Own
    BY <1>1, <2>1 DEF Own
  <2>3. confNumber # 0 => devState' \in {"Configured", "Suspended"}
    BY <1>4 DEF Suspended, WokenUp, AwakeState
  <2>4. hostConf # 0 /\ bus \in {"active", "suspended"} => Kept(hostConf)'
    BY <1>1, <2>1, <2>3 DEF ConfigInv, Kept
  <2>5. Own' /\ request.name = "SetConfiguration" /\ ~ txin' /\ request.arg # 0
        => Kept(request.arg)'
    BY <1>1, <2>1, <2>2, <2>3 DEF ConfigInv, Kept
  <2>6. QED
    BY <1>1, <2>1, <2>2, <2>4, <2>5 DEF ConfigInv
<1>5. QED
  BY <1>2, <1>3, <1>4 DEF UsbGen

LEMMA ConfigSetup ==
  ASSUME Typed, ConfigInv, Host, SendSetup
  PROVE  ConfigInv'
<1>1. /\ rxstp' /\ UNCHANGED <<confNumber, devState, chosen, epType, bus, hostAddr>>
      /\ Place' = Place /\ request' = request
      /\ xfer'.req = setup' /\ Sensible(setup')
      /\ hostConf' = IF setup'.name = "SetConfiguration" THEN 0 ELSE hostConf
  BY SetupFacts, OtherPlace DEF SendSetup, Host, deviceVars, localVars
<1>2. ~ Own'
  BY <1>1 DEF Own
<1>3. setup'.name = "SetConfiguration" => hostAddr # 0
  BY <1>1 DEF Sensible
<1>4. hostAddr # 0 => setup'.name # "SetAddress"
  BY <1>1 DEF Sensible
<1>5. hostConf' # 0 => hostConf' = hostConf
  BY <1>1
<1>6. hostConf' # 0 /\ bus \in {"active", "suspended"} => Kept(hostConf)'
  BY <1>1, <1>5 DEF ConfigInv, Kept
<1>7. QED
  BY <1>1, <1>2, <1>3, <1>4, <1>5, <1>6 DEF ConfigInv

LEMMA ConfigToken ==
  ASSUME Typed, BusInv, BankInv, SetupInv, ConfigInv, Host, Token
  PROVE  ConfigInv'
<1>1. /\ UNCHANGED <<rxstp, setup, epStalled, confNumber, devState, chosen,
                     epType, bus, request>>
      /\ Place' = Place /\ xfer'.req = xfer.req
      /\ ~ rxstp /\ xfer.stage \in Stages /\ Pending /\ TypeOK
  BY OtherPlace, StalledFacts, TakeFacts, GiveFacts DEF Token, epVars, Typed, Host,
     deviceVars, localVars, Pending, Stages
<1>2. ASSUME hostConf' = hostConf, hostAddr' = hostAddr,
             Own' => Own /\ request.name # "SetConfiguration"
      PROVE  ConfigInv'
  <2>1. hostConf # 0 /\ bus \in {"active", "suspended"} => Kept(hostConf)'
    BY <1>1, <1>2 DEF ConfigInv, Kept
  <2>2. QED
    BY <1>1, <1>2, <2>1 DEF ConfigInv, Pending, Stages
<1>3. Own => /\ xfer.req = request /\ setup = NoRequest
             /\ xfer.stage \in {"in", "out", "statusOut"} =>
                  request.name # "SetConfiguration"
  BY DEF SetupInv, Typed, StageInv, ReadNames
<1>4. xfer'.stage = "idle" => ~ Own' /\ ~ Pending'
  BY DEF Own, Pending, Stages
<1>5. CASE Stalled
  BY <1>1, <1>2, <1>4, <1>5, StalledFacts
<1>6. CASE GiveOUT
  <2>1. Own /\ xfer.stage \in {"out", "statusOut"}
    BY <1>1, <1>6, GiveFacts DEF Own
  <2>2. xfer.req.name \notin {"SetAddress", "SetConfiguration"}
    BY <2>1 DEF Typed, StageInv, ReadNames
  <2>3. hostConf' = hostConf /\ hostAddr' = hostAddr
    BY <1>1, <1>6, <2>1, <2>2, GiveFacts DEF Complete
  <2>4. QED
    BY <1>2, <1>3, <2>1, <2>3
<1>7. CASE TakeIN /\ xfer.stage = "in"
  <2>1. Own /\ hostConf' = hostConf /\ hostAddr' = hostAddr
    BY <1>1, <1>7, TakeFacts DEF Own
  <2>2. QED
    BY <1>2, <1>3, <1>7, <2>1
<1>8. CASE TakeIN /\ xfer.stage = "statusIn"
  <2>1. /\ Own /\ ~ txin /\ xfer'.stage = "idle"
        /\ hostAddr' = IF xfer.req.name = "SetAddress" THEN xfer.req.arg
                                                       ELSE hostAddr
        /\ hostConf' = IF xfer.req.name = "SetConfiguration" THEN xfer.req.arg
                                                             ELSE hostConf
    BY <1>1, <1>8, TakeFacts, CompleteFacts DEF Own, Complete
  <2>2. CASE xfer.req.name = "SetConfiguration"
    <3>1. /\ request.name = "SetConfiguration" /\ request = xfer.req
          /\ hostConf' = request.arg /\ hostAddr' = hostAddr /\ hostAddr # 0
          /\ setup.name = "None"
      BY <1>1, <1>3, <2>1, <2>2 DEF ConfigInv, NoRequest
    <3>2. Place \notin {"event", "standard", "clearSETUP", "setNumber", "statusIN"}
      BY <2>1, <3>1 DEF BankInv, Reading, Before, ClassNames
    <3>3. request.arg # 0 => Kept(request.arg)
      BY <2>1, <3>1 DEF ConfigInv
    <3>4. request.arg # 0 => Kept(hostConf)'
      BY <1>1, <3>1, <3>3 DEF Kept
    <3>5. QED
      BY <1>1, <1>4, <2>1, <3>1, <3>2, <3>4 DEF ConfigInv
  <2>3. CASE xfer.req.name = "SetAddress"
    <3>1. hostConf = 0 /\ hostConf' = hostConf
      BY <1>3, <2>1, <2>3 DEF ConfigInv
    <3>2. QED
      BY <1>1, <1>4, <2>1, <3>1 DEF ConfigInv
  <2>4. CASE xfer.req.name \notin {"SetConfiguration", "SetAddress"}
    BY <1>2, <1>4, <2>1, <2>4
  <2>5. QED
    BY <2>2, <2>3, <2>4
<1>9. QED
  <2>1. TakeIN => xfer.stage \in {"in", "statusIn"}
    BY DEF TakeIN
  <2>2. QED
    BY <1>5, <1>6, <1>7, <1>8, <2>1 DEF Token

LEMMA ConfigBreak ==
  ASSUME Typed, ConfigInv, Host, Abort \/ BusEvent
  PROVE  ConfigInv'
<1>1. /\ UNCHANGED <<rxstp, setup, confNumber, devState, chosen>>
      /\ Place' = Place /\ request' = request
      /\ xfer'.stage = "recovering"
  BY BreakFacts, OtherPlace DEF Abort, BusEvent, Plug, Unplug, Reset, Suspend,
     Resume, packetVars, Host, deviceVars, localVars
<1>2. ~ Pending' /\ ~ Own'
  BY <1>1 DEF Own, Pending, Stages
<1>3. CASE hostConf' = 0
  BY <1>1, <1>2, <1>3 DEF ConfigInv
<1>4. CASE hostConf' # 0
  <2>1. /\ UNCHANGED <<hostConf, hostAddr, epType>>
        /\ bus' \in {"active", "suspended"} => bus \in {"active", "suspended"}
    BY <1>4 DEF Abort, BusEvent, Plug, Unplug, Reset, Suspend, Resume
  <2>2. bus' \in {"active", "suspended"} => Kept(hostConf)'
    BY <1>1, <1>4, <2>1 DEF ConfigInv, Kept
  <2>3. QED
    BY <1>1, <1>2, <1>4, <2>1, <2>2 DEF ConfigInv
<1>5. QED
  BY <1>3, <1>4

LEMMA ConfigStep ==
  ASSUME Typed, BusInv, BankInv, SetupInv, ConfigInv, Next \/ UNCHANGED vars
  PROVE  ConfigInv'
<1>1. CASE Main
  BY <1>1, ConfigControl, ConfigStore, ConfigTask, ConfigDispatch
     DEF Main, StoringStep
<1>2. CASE Host
  BY <1>2, ConfigSetup, ConfigToken, ConfigBreak DEF Host
<1>3. CASE UNCHANGED vars
  BY <1>3, OtherPlace DEF ConfigInv, Kept, Own, Pending, vars, packetVars, hostVars,
     epVars, deviceVars, localVars
<1>4. QED
  BY <1>1, <1>2, <1>3, ConfigInterrupt DEF Next

-----------------------------------------------------------------------------
(* The theorems.                                                           *)

LEMMA InitInv == Init => IInv
<1> SUFFICES ASSUME Init PROVE IInv
  OBVIOUS
<1>1. /\ Place = "hid" /\ todo = <<>> /\ ~ Pending /\ ~ Own
      /\ xfer.stage = "idle" /\ xfer.req = NoRequest /\ xfer.by = NoRequest
      /\ xfer.outcome = "none" /\ xfer.raced = FALSE /\ xfer.wants = 0
  BY DEF Init, Place, Pending, Own, NoTransfer, Stages
<1>2. TypeOK
  <2>1. MainOK
    BY DEF Init, MainOK, DeviceStates, Endpoints, RequestOrNone, Now
  <2>2. DeviceOK
    <3>1. 0 \in 0 .. Configurations /\ PowerUp \in Colors
      BY ConstantAssumption
    <3>2. [protocol |-> FALSE, idle |-> 0] \in [protocol : BOOLEAN, idle : Nat]
      OBVIOUS
    <3>3. QED
      BY <3>1, <3>2 DEF Init, DeviceOK, DeviceStates
  <2>3. ControllerOK
    BY DEF Init, ControllerOK, Endpoints, RequestOrNone
  <2>4. HostOK
    <3>1. xfer = [stage |-> "idle", req |-> NoRequest, by |-> NoRequest,
                  wants |-> 0, raced |-> FALSE, outcome |-> "none"]
      BY DEF Init, NoTransfer
    <3>2. xfer \in Transfers
      BY <3>1 DEF Transfers, RequestOrNone
    <3>3. /\ bus \in {"detached", "attached", "active", "suspended"}
          /\ agreed \in Colors \cup {NoColor}
      BY ConstantAssumption DEF Init
    <3>4. {hostAddr, hostConf} \subseteq Nat
      BY DEF Init
    <3>5. broken \in BOOLEAN
      BY DEF Init
    <3>6. QED
      BY <3>2, <3>3, <3>4, <3>5 DEF HostOK
  <2>5. QED
    BY <2>1, <2>2, <2>3, <2>4 DEF TypeOK
<1>3. StageInv /\ BusInv /\ BankInv /\ SetupInv
  BY <1>1 DEF Init, StageInv, BusInv, BankInv, SetupInv, Reading, Before, Waiting,
     Read, Taken, Unread, Between
<1>4. StalledOnlyIfRaced /\ AnswersMatch /\ AddressInv
  BY <1>1 DEF StalledOnlyIfRaced, AnswersMatch, AddressInv
<1>5. ReportInv /\ ConfigInv
  BY <1>1, ConstantAssumption DEF Init, ReportInv, ConfigInv, NoRequest
<1>6. QED
  BY <1>2, <1>3, <1>4, <1>5 DEF IInv

LEMMA StepInv ==
  ASSUME IInv, ControlSelected, Next \/ UNCHANGED vars
  PROVE  IInv'
<1>1. Typed
  BY DEF Typed, IInv
<1>2. TypeOK' /\ StageInv'
  BY <1>1, TypeStep, StageStep
<1>3. BusInv' /\ BankInv' /\ SetupInv'
  BY <1>1, BusStep, BankStep, SetupStep DEF IInv
<1>4. StalledOnlyIfRaced' /\ AnswersMatch'
  BY <1>1, OutcomeStep DEF IInv
<1>5. ReportInv' /\ ConfigInv' /\ AddressInv'
  BY <1>1, ReportStep, ConfigStep, AddressStep DEF IInv
<1>6. QED
  BY <1>2, <1>3, <1>4, <1>5 DEF IInv

(* What the main loop, the control endpoint and the host know of each      *)
(* other at each place of a handler holds whatever the host sends and      *)
(* whatever disturbs the bus (UsbDeviceInv).                               *)
THEOREM UsbInvariant == Spec => []IInv
<1>1. Init => IInv
  BY InitInv
<1>2. IInv /\ ControlSelected /\ [Next]_vars => IInv'
  BY StepInv
<1>3. SelectInv => ControlSelected
  BY DEF SelectInv
<1>4. QED
  BY <1>1, <1>2, <1>3, SelectInvariant, PTL DEF Spec

(* Every variable stays in its type: no handler loses its place although   *)
(* the stream functions leave theirs early, and no stream sends more than  *)
(* it has (Template_Endpoint_Control_W.c:33-84).                           *)
THEOREM TypeCorrect == Spec => []TypeOK
<1>1. IInv => TypeOK
  BY DEF IInv
<1>2. QED
  BY <1>1, UsbInvariant, PTL

(* USB_Device_ProcessControlRequest stalls a request that the firmware has *)
(* a handler for only if its SETUP packet came before the handler of the   *)
(* last request had returned (DeviceStandardReq.c:118-121).                *)
THEOREM StallsOnlyRaced == Spec => []StalledOnlyIfRaced
<1>1. IInv => StalledOnlyIfRaced
  BY DEF IInv
<1>2. QED
  BY <1>1, UsbInvariant, PTL

(* A transfer the host sees complete was answered by the handler of its    *)
(* own request, although one bank serves all of them and a SETUP packet    *)
(* may come at any step of a handler (DeviceStandardReq.c:49-123).         *)
THEOREM AnswersOwn == Spec => []AnswersMatch
<1>1. IInv => AnswersMatch
  BY DEF IInv
<1>2. QED
  BY <1>1, UsbInvariant, PTL

(* The report buffer of HID_Device_ProcessControlRequest, which nothing    *)
(* initialises (HIDClassDevice.c:82-86), reaches the colours unread only   *)
(* after the host has broken off a report.                                 *)
THEOREM GarbageNeedsBreak == Spec => []GarbageOnlyIfBroken
<1>1. IInv => GarbageOnlyIfBroken
  BY DEF IInv, ReportInv, GarbageOnlyIfBroken
<1>2. QED
  BY <1>1, UsbInvariant, PTL

(* The colours CALLBACK_HID_Device_ProcessHIDReport leaves                 *)
(* (main.cpp:91-104) are, back in the main loop, those of the last report  *)
(* the host has seen complete, for every order of reports and other        *)
(* requests without a break.                                               *)
THEOREM ReportsTaken == Spec => []ReportTaken
<1>1. IInv => ReportTaken
  BY DEF IInv, TypeOK, MainOK, ReportInv, ReportTaken, Place
<1>2. QED
  BY <1>1, UsbInvariant, PTL

(* What SetConfiguration has set up after its status stage                 *)
(* (DeviceStandardReq.c:197-206) outlives every suspension, resumption and *)
(* later request until the host resets or unplugs the device.              *)
THEOREM ConfigurationStays == Spec => []ConfigurationKept
<1>1. IInv /\ SleepInv => ConfigurationKept
  <2> SUFFICES ASSUME IInv, SleepInv, hostConf # 0, bus = "active", pc = "hid",
                      ~ InterruptPending
               PROVE  /\ devState = "Configured"
                      /\ confNumber = hostConf
                      /\ epType[1] = "interrupt"
    BY DEF ConfigurationKept
  <2>1. Place = "hid"
    BY DEF IInv, TypeOK, MainOK, Place
  <2>2. /\ confNumber = hostConf /\ epType[1] = "interrupt"
        /\ devState \in {"Configured", "Suspended"}
    BY <2>1 DEF IInv, ConfigInv, Kept
  <2>3. ~ frozen
    BY DEF SleepInv, IInv, BusInv, InterruptPending, WakeupPending
  <2>4. QED
    BY <2>2, <2>3 DEF IInv, BusInv
<1>2. QED
  BY <1>1, UsbInvariant, SleepInvariant, PTL

(* USB_Device_SetAddress enables the address only when the host no longer  *)
(* waits for its status packet on the old one (DeviceStandardReq.c:133-137;*)
(* unless the host waits for a second SetAddress, sent during the first).  *)
THEOREM AddressLate == Spec => AddressAfterStatus
<1>1. IInv /\ [Next]_vars =>
        [addEn' # addEn /\ addEn' /\ xfer.req.name = "SetAddress" =>
           xfer.stage # "statusIn" \/ xfer.raced]_vars
  BY AddressEnabled DEF IInv, Typed
<1>2. QED
  BY <1>1, UsbInvariant, PTL DEF Spec, AddressAfterStatus

(* Transfers as a ControlPipe.                                             *)

LEMMA PipeStates ==
  /\ xfer.stage \in Stages => PipeState = "pending" /\ PipeAnswer = NoRequest
  /\ xfer.stage = "recovering" => PipeState = "lost" /\ PipeAnswer = NoRequest
  /\ xfer.stage = "idle" =>
       /\ xfer.outcome = "none" => PipeState = "idle" /\ PipeAnswer = NoRequest
       /\ xfer.outcome = "done" => PipeState = "served" /\ PipeAnswer = xfer.by
       /\ xfer.outcome = "stalled" =>
            PipeState = "refused" /\ PipeAnswer = NoRequest
BY DEF PipeState, PipeAnswer, Stages

LEMMA PipeStatesNext ==
  /\ xfer'.stage \in Stages => PipeState' = "pending" /\ PipeAnswer' = NoRequest
  /\ xfer'.stage = "recovering" =>
       PipeState' = "lost" /\ PipeAnswer' = NoRequest
  /\ xfer'.stage = "idle" =>
       /\ xfer'.outcome = "done" =>
            PipeState' = "served" /\ PipeAnswer' = xfer'.by
       /\ xfer'.outcome = "stalled" =>
            PipeState' = "refused" /\ PipeAnswer' = NoRequest
BY DEF PipeState, PipeAnswer, Stages

LEMMA PipeInit == Init => Pipe!Init
BY PipeStates DEF Init, Pipe!Init, NoTransfer, Stages

LEMMA PipeSetup ==
  ASSUME Typed, SendSetup
  PROVE  Pipe!Begin
<1>1. xfer.stage \in {"idle", "recovering"}
  BY SetupPlace DEF Lost
<1>2. PipeState # "pending"
  <2>1. xfer.outcome \in {"none", "done", "stalled"}
    BY DEF Typed, TypeOK, HostOK, Transfers
  <2>2. QED
    BY <1>1, <2>1 DEF PipeState, Stages
<1>3. /\ xfer'.stage \in Stages /\ xfer'.req \in Requests
      /\ xfer'.raced \in BOOLEAN
  BY SetupFacts, SetupPlace DEF Stages
<1>4. QED
  BY <1>2, <1>3, PipeStatesNext DEF Pipe!Begin

LEMMA PipeToken ==
  ASSUME IInv, IInv', Token
  PROVE  Pipe!Serve \/ Pipe!Refuse \/ UNCHANGED Pipe!vars
<1>1. xfer.stage \in Stages /\ TypeOK /\ PipeState = "pending"
      /\ PipeAnswer = NoRequest
  <2>1. xfer.stage \in Stages
    BY TakeFacts, GiveFacts DEF Token, Stages, IInv
  <2>2. QED
    BY <2>1, PipeStates DEF IInv
<1>2. CASE Stalled
  <2>1. /\ xfer'.stage = "idle" /\ xfer'.outcome = "stalled"
        /\ xfer'.req = xfer.req /\ xfer'.raced = xfer.raced
        /\ xfer.raced \/ ~ Supported(xfer.req)
    BY <1>1, <1>2, StalledFacts DEF IInv, SetupInv, Pending
  <2>2. QED
    BY <1>1, <2>1, PipeStatesNext DEF Pipe!Refuse
<1>3. ASSUME NEW by, Complete(by) PROVE Pipe!Serve
  <2>1. /\ xfer'.stage = "idle" /\ xfer'.outcome = "done"
        /\ xfer'.req = xfer.req /\ xfer'.raced = xfer.raced
    BY <1>1, <1>3, CompleteFacts
  <2>2. xfer'.by = xfer.req
    BY <2>1 DEF IInv, AnswersMatch
  <2>3. QED
    BY <1>1, <2>1, <2>2, PipeStatesNext DEF Pipe!Serve
<1>4. ASSUME xfer'.stage \in Stages, xfer'.req = xfer.req, xfer'.raced = xfer.raced
      PROVE  UNCHANGED Pipe!vars
  BY <1>1, <1>4, PipeStatesNext DEF Pipe!vars
<1>5. CASE TakeIN
  BY <1>1, <1>3, <1>4, <1>5, TakeFacts DEF Stages
<1>6. CASE GiveOUT
  BY <1>1, <1>3, <1>4, <1>6, GiveFacts DEF Stages
<1>7. QED
  BY <1>2, <1>5, <1>6 DEF Token

LEMMA PipeStep ==
  ASSUME IInv, IInv', Next \/ UNCHANGED vars
  PROVE  Pipe!Next \/ UNCHANGED Pipe!vars
<1>1. CASE SendSetup
  BY <1>1, PipeSetup DEF IInv, Typed, Pipe!Next
<1>2. CASE Token
  BY <1>2, PipeToken DEF Pipe!Next
<1>3. CASE Abort \/ BusEvent
  <2>1. xfer'.stage = "recovering" /\ xfer'.req = NoRequest /\ xfer'.raced = FALSE
    BY <1>3, BreakFacts DEF Abort, BusEvent, Plug, Unplug, Reset, Suspend, Resume
  <2>2. QED
    BY <2>1, PipeStatesNext DEF Pipe!Lose, Pipe!Next
<1>4. CASE UsbGen \/ Main \/ UNCHANGED vars
  <2>1. xfer' = xfer
    BY <1>4 DEF UsbGen, Main, vars, hostVars
  <2>2. QED
    BY <2>1 DEF Pipe!vars, PipeState, PipeAnswer
<1>5. QED
  BY <1>1, <1>2, <1>3, <1>4 DEF Next, Host

(* Whatever the host sends and whatever happens on the bus, transfers go   *)
(* as ControlPipe says: one that ends was answered by its own handler, or  *)
(* refused because nobody knows the request or because it came early       *)
(* (DeviceStandardReq.c:49-123, HIDClassDevice.c:40-135).                  *)
THEOREM Refinement == Spec => ServesPipe
<1>1. Init => Pipe!Init
  BY PipeInit
<1>2. IInv /\ IInv' /\ [Next]_vars => [Pipe!Next]_(Pipe!vars)
  BY PipeStep
<1>3. QED
  BY <1>1, <1>2, UsbInvariant, PTL DEF Spec, ServesPipe, Pipe!SafeSpec
=============================================================================

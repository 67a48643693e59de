-------------------------- MODULE UsbHandlerProofs --------------------------
(***************************************************************************)
(* The handlers of UsbDevice as the proofs see them: which step follows    *)
(* which, what each step of the main loop, the interrupt routine and the   *)
(* host does to what it touches, and that every variable stays in its type.*)
(***************************************************************************)
EXTENDS UsbDeviceProofs, UsbDeviceInv, SequenceTheorems

-----------------------------------------------------------------------------
(* The steps of the handlers and what comes after each.                    *)

End(n) == IF n \in ClassNames THEN "standard" ELSE "final"

HidReads  == {"GetProtocol", "GetIdle"}
ByteReads == {"GetConfiguration", "GetStatus", "GetEndpointStatus"}
HidStores == {"SetProtocol", "SetIdle"}
Wakeups   == {"SetWakeup", "ClearWakeup"}
Halts     == {"SetHalt", "ClearHalt"}
Features  == {"OtherFeature"} \cup Wakeups \cup Halts

(* Step p of the handler of n is followed by step q, or q is where the     *)
(* main loop is after the handler.                                         *)
Follows(n, p, q) ==
  /\ p \in StepNames
  /\ p = "clearSETUP" =>
       \/ n = "SetReport" /\ q = "receive"
       \/ n = "GetDescriptor" /\ q = "send"
       \/ n \in {"GetReport"} \cup ByteReads /\ q = "clearIN"
       \/ n \in HidReads /\ q = "spinIN"
       \/ n = "SetConfiguration" /\ q = "setNumber"
       \/ n \in {"SetAddress"} \cup HidStores \cup Features /\ q = "statusIN"
  /\ p = "receive" => n = "SetReport" /\ q = "awaitIN"
  /\ p = "awaitIN" => n = "SetReport" /\ q = "clearIN"
  /\ p = "commit" => n = "SetReport" /\ q = "standard"
  /\ p = "send" => n = "GetDescriptor" /\ q = "awaitOUT"
  /\ p = "awaitOUT" => n \in {"GetReport", "GetDescriptor"} /\ q = "clearOUT"
  /\ p = "clearOUT" => n \in {"GetReport", "GetDescriptor"} /\ q = End(n)
  /\ p = "clearIN" =>
       \/ n = "SetReport" /\ q = "commit"
       \/ n = "GetReport" /\ q = "awaitOUT"
       \/ n \in HidReads \cup ByteReads /\ q = "statusOUT"
  /\ p = "statusOUT" => n \in HidReads \cup ByteReads /\ q = End(n)
  /\ p = "spinIN" =>
       \/ n \in HidReads /\ q = "clearIN"
       \/ n = "SetAddress" /\ q = "enableAddress"
  /\ p = "statusIN" =>
       \/ n \in HidStores /\ q = "storeHid"
       \/ n = "SetAddress" /\ q = "spinIN"
       \/ n = "SetConfiguration" /\ q = "chooseState"
       \/ n \in Features /\ q = "final"
  /\ p = "storeHid" => n \in HidStores /\ q = "standard"
  /\ p = "storeWakeup" => n \in Wakeups /\ q = "clearSETUP"
  /\ p = "setAddress" => n = "SetAddress" /\ q = "clearSETUP"
  /\ p = "enableAddress" => n = "SetAddress" /\ q = "storeState"
  /\ p = "storeState" =>
       \/ n = "SetAddress" /\ q = "final"
       \/ n = "SetConfiguration" /\ q = "selectIN"
  /\ p = "setNumber" => n = "SetConfiguration" /\ q = "statusIN"
  /\ p = "chooseState" => n = "SetConfiguration" /\ q = "storeState"
  /\ p = "selectIN" => n = "SetConfiguration" /\ q = "configureIN"
  /\ p = "configureIN" => n = "SetConfiguration" /\ q = "rewriteHigher"
  /\ p = "rewriteHigher" => n = "SetConfiguration" /\ q = "loadEnables"
  /\ p = "loadEnables" => n = "SetConfiguration" /\ q = "storeEnables"
  /\ p = "storeEnables" => n = "SetConfiguration" /\ q = "final"
  /\ p = "selectEndpoint" =>
       \/ n \in Halts /\ q = "halt"
       \/ n = "GetEndpointStatus" /\ q = "readStall"
  /\ p = "halt" => n \in Halts /\ q = "clearSETUP"
  /\ p = "readStall" => n = "GetEndpointStatus" /\ q = "clearSETUP"

(* Where a handler begins.                                                 *)
Begins(n, q) ==
  \/ n = "SetAddress" /\ q = "setAddress"
  \/ n \in Wakeups /\ q = "storeWakeup"
  \/ n \in EndpointNames /\ q = "selectEndpoint"
  \/ n \notin {"SetAddress"} \cup Wakeups \cup EndpointNames
     /\ q = "clearSETUP"

(* The place after a stream function that was left.                        *)
Escape(p, q) ==
  \/ p = "receive" /\ q = "clearIN"
  \/ p = "send" /\ q = "clearOUT"

(* A list of steps is the handler of n.                                    *)
Path(n, h) ==
  /\ h \in Seq(StepNames)
  /\ Len(h) # 0
  /\ Begins(n, h[1])
  /\ \A k \in 1 .. Len(h) :
       /\ Follows(n, h[k], IF k = Len(h) THEN End(n) ELSE h[k + 1])
       /\ h[k] \in {"receive", "send"} => k + 2 <= Len(h) /\ Escape(h[k], h[k + 2])

LEMMA HandlerPath ==
  ASSUME NEW n \in ClassNames \cup StandardNames
  PROVE  Path(n, Handler[n])
<1>1. CASE n \in {"SetReport"}
  <2> DEFINE h == <<"clearSETUP", "receive", "awaitIN", "clearIN", "commit">>
  <2>1. Handler[n] = h
    BY <1>1 DEF Handler, ReportSteps
  <2>2. h \in Seq(StepNames) /\ Len(h) = 5
    BY DEF StepNames
  <2>3. /\ h[1] = "clearSETUP"
        /\ h[2] = "receive"
        /\ h[3] = "awaitIN"
        /\ h[4] = "clearIN"
        /\ h[5] = "commit"
    OBVIOUS
  <2>4. Path(n, h)
    <3> HIDE DEF h
    <3>1. 1 .. 5 = {1, 2, 3, 4, 5}
      OBVIOUS
    <3>2. QED
      BY <1>1, <2>2, <2>3, <3>1 DEF Path, Follows, Begins, Escape, StepNames,
         HidReads, ByteReads, HidStores, Wakeups, Halts, Features,
         EndpointNames, End, ClassNames
  <2>5. QED
    BY <2>1, <2>4
<1>2. CASE n \in {"SetProtocol", "SetIdle"}
  <2> DEFINE h == <<"clearSETUP", "statusIN", "storeHid">>
  <2>1. Handler[n] = h
    BY <1>2 DEF Handler, HidSteps
  <2>2. h \in Seq(StepNames) /\ Len(h) = 3
    BY DEF StepNames
  <2>3. /\ h[1] = "clearSETUP"
        /\ h[2] = "statusIN"
        /\ h[3] = "storeHid"
    OBVIOUS
  <2>4. Path(n, h)
    <3> HIDE DEF h
    <3>1. 1 .. 3 = {1, 2, 3}
      OBVIOUS
    <3>2. QED
      BY <1>2, <2>2, <2>3, <3>1 DEF Path, Follows, Begins, Escape, StepNames,
         HidReads, ByteReads, HidStores, Wakeups, Halts, Features,
         EndpointNames, End, ClassNames
  <2>5. QED
    BY <2>1, <2>4
<1>3. CASE n \in {"SetAddress"}
  <2> DEFINE h == <<"setAddress", "clearSETUP", "statusIN", "spinIN",
                   "enableAddress", "storeState">>
  <2>1. Handler[n] = h
    BY <1>3 DEF Handler, AddressSteps
  <2>2. h \in Seq(StepNames) /\ Len(h) = 6
    BY DEF StepNames
  <2>3. /\ h[1] = "setAddress"
        /\ h[2] = "clearSETUP"
        /\ h[3] = "statusIN"
        /\ h[4] = "spinIN"
        /\ h[5] = "enableAddress"
        /\ h[6] = "storeState"
    OBVIOUS
  <2>4. Path(n, h)
    <3> HIDE DEF h
    <3>1. 1 .. 6 = {1, 2, 3, 4, 5, 6}
      OBVIOUS
    <3>2. QED
      BY <1>3, <2>2, <2>3, <3>1 DEF Path, Follows, Begins, Escape, StepNames,
         HidReads, ByteReads, HidStores, Wakeups, Halts, Features,
         EndpointNames, End, ClassNames
  <2>5. QED
    BY <2>1, <2>4
<1>4. CASE n \in {"SetConfiguration"}
  <2> DEFINE h == <<"clearSETUP", "setNumber", "statusIN", "chooseState",
                   "storeState", "selectIN", "configureIN", "rewriteHigher",
                   "loadEnables", "storeEnables">>
  <2>1. Handler[n] = h
    BY <1>4 DEF Handler, ConfigurationSteps
  <2>2. h \in Seq(StepNames) /\ Len(h) = 10
    BY DEF StepNames
  <2>3. /\ h[1] = "clearSETUP"
        /\ h[2] = "setNumber"
        /\ h[3] = "statusIN"
        /\ h[4] = "chooseState"
        /\ h[5] = "storeState"
        /\ h[6] = "selectIN"
        /\ h[7] = "configureIN"
        /\ h[8] = "rewriteHigher"
        /\ h[9] = "loadEnables"
        /\ h[10] = "storeEnables"
    OBVIOUS
  <2>4. Path(n, h)
    <3> HIDE DEF h
    <3>1. 1 .. 10 = {1, 2, 3, 4, 5, 6, 7, 8, 9, 10}
      OBVIOUS
    <3>2. QED
      BY <1>4, <2>2, <2>3, <3>1 DEF Path, Follows, Begins, Escape, StepNames,
         HidReads, ByteReads, HidStores, Wakeups, Halts, Features,
         EndpointNames, End, ClassNames
  <2>5. QED
    BY <2>1, <2>4
<1>5. CASE n \in {"GetReport"}
  <2> DEFINE h == <<"clearSETUP", "clearIN", "awaitOUT", "clearOUT">>
  <2>1. Handler[n] = h
    BY <1>5 DEF Handler
  <2>2. h \in Seq(StepNames) /\ Len(h) = 4
    BY DEF StepNames
  <2>3. /\ h[1] = "clearSETUP"
        /\ h[2] = "clearIN"
        /\ h[3] = "awaitOUT"
        /\ h[4] = "clearOUT"
    OBVIOUS
  <2>4. Path(n, h)
    <3> HIDE DEF h
    <3>1. 1 .. 4 = {1, 2, 3, 4}
      OBVIOUS
    <3>2. QED
      BY <1>5, <2>2, <2>3, <3>1 DEF Path, Follows, Begins, Escape, StepNames,
         HidReads, ByteReads, HidStores, Wakeups, Halts, Features,
         EndpointNames, End, ClassNames
  <2>5. QED
    BY <2>1, <2>4
<1>6. CASE n \in {"GetProtocol", "GetIdle"}
  <2> DEFINE h == <<"clearSETUP", "spinIN", "clearIN", "statusOUT">>
  <2>1. Handler[n] = h
    BY <1>6 DEF Handler
  <2>2. h \in Seq(StepNames) /\ Len(h) = 4
    BY DEF StepNames
  <2>3. /\ h[1] = "clearSETUP"
        /\ h[2] = "spinIN"
        /\ h[3] = "clearIN"
        /\ h[4] = "statusOUT"
    OBVIOUS
  <2>4. Path(n, h)
    <3> HIDE DEF h
    <3>1. 1 .. 4 = {1, 2, 3, 4}
      OBVIOUS
    <3>2. QED
      BY <1>6, <2>2, <2>3, <3>1 DEF Path, Follows, Begins, Escape, StepNames,
         HidReads, ByteReads, HidStores, Wakeups, Halts, Features,
         EndpointNames, End, ClassNames
  <2>5. QED
    BY <2>1, <2>4
<1>7. CASE n \in {"GetDescriptor"}
  <2> DEFINE h == <<"clearSETUP", "send", "awaitOUT", "clearOUT">>
  <2>1. Handler[n] = h
    BY <1>7 DEF Handler
  <2>2. h \in Seq(StepNames) /\ Len(h) = 4
    BY DEF StepNames
  <2>3. /\ h[1] = "clearSETUP"
        /\ h[2] = "send"
        /\ h[3] = "awaitOUT"
        /\ h[4] = "clearOUT"
    OBVIOUS
  <2>4. Path(n, h)
    <3> HIDE DEF h
    <3>1. 1 .. 4 = {1, 2, 3, 4}
      OBVIOUS
    <3>2. QED
      BY <1>7, <2>2, <2>3, <3>1 DEF Path, Follows, Begins, Escape, StepNames,
         HidReads, ByteReads, HidStores, Wakeups, Halts, Features,
         EndpointNames, End, ClassNames
  <2>5. QED
    BY <2>1, <2>4
<1>8. CASE n \in {"GetConfiguration", "GetStatus"}
  <2> DEFINE h == <<"clearSETUP", "clearIN", "statusOUT">>
  <2>1. Handler[n] = h
    BY <1>8 DEF Handler
  <2>2. h \in Seq(StepNames) /\ Len(h) = 3
    BY DEF StepNames
  <2>3. /\ h[1] = "clearSETUP"
        /\ h[2] = "clearIN"
        /\ h[3] = "statusOUT"
    OBVIOUS
  <2>4. Path(n, h)
    <3> HIDE DEF h
    <3>1. 1 .. 3 = {1, 2, 3}
      OBVIOUS
    <3>2. QED
      BY <1>8, <2>2, <2>3, <3>1 DEF Path, Follows, Begins, Escape, StepNames,
         HidReads, ByteReads, HidStores, Wakeups, Halts, Features,
         EndpointNames, End, ClassNames
  <2>5. QED
    BY <2>1, <2>4
<1>9. CASE n \in {"SetWakeup", "ClearWakeup"}
  <2> DEFINE h == <<"storeWakeup", "clearSETUP", "statusIN">>
  <2>1. Handler[n] = h
    BY <1>9 DEF Handler
  <2>2. h \in Seq(StepNames) /\ Len(h) = 3
    BY DEF StepNames
  <2>3. /\ h[1] = "storeWakeup"
        /\ h[2] = "clearSETUP"
        /\ h[3] = "statusIN"
    OBVIOUS
  <2>4. Path(n, h)
    <3> HIDE DEF h
    <3>1. 1 .. 3 = {1, 2, 3}
      OBVIOUS
    <3>2. QED
      BY <1>9, <2>2, <2>3, <3>1 DEF Path, Follows, Begins, Escape, StepNames,
         HidReads, ByteReads, HidStores, Wakeups, Halts, Features,
         EndpointNames, End, ClassNames
  <2>5. QED
    BY <2>1, <2>4
<1>10. CASE n \in {"SetHalt", "ClearHalt"}
  <2> DEFINE h == <<"selectEndpoint", "halt", "clearSETUP", "statusIN">>
  <2>1. Handler[n] = h
    BY <1>10 DEF Handler
  <2>2. h \in Seq(StepNames) /\ Len(h) = 4
    BY DEF StepNames
  <2>3. /\ h[1] = "selectEndpoint"
        /\ h[2] = "halt"
        /\ h[3] = "clearSETUP"
        /\ h[4] = "statusIN"
    OBVIOUS
  <2>4. Path(n, h)
    <3> HIDE DEF h
    <3>1. 1 .. 4 = {1, 2, 3, 4}
      OBVIOUS
    <3>2. QED
      BY <1>10, <2>2, <2>3, <3>1 DEF Path, Follows, Begins, Escape, StepNames,
         HidReads, ByteReads, HidStores, Wakeups, Halts, Features,
         EndpointNames, End, ClassNames
  <2>5. QED
    BY <2>1, <2>4
<1>11. CASE n \in {"GetEndpointStatus"}
  <2> DEFINE h == <<"selectEndpoint", "readStall", "clearSETUP",
                   "clearIN", "statusOUT">>
  <2>1. Handler[n] = h
    BY <1>11 DEF Handler
  <2>2. h \in Seq(StepNames) /\ Len(h) = 5
    BY DEF StepNames
  <2>3. /\ h[1] = "selectEndpoint"
        /\ h[2] = "readStall"
        /\ h[3] = "clearSETUP"
        /\ h[4] = "clearIN"
        /\ h[5] = "statusOUT"
    OBVIOUS
  <2>4. Path(n, h)
    <3> HIDE DEF h
    <3>1. 1 .. 5 = {1, 2, 3, 4, 5}
      OBVIOUS
    <3>2. QED
      BY <1>11, <2>2, <2>3, <3>1 DEF Path, Follows, Begins, Escape, StepNames,
         HidReads, ByteReads, HidStores, Wakeups, Halts, Features,
         EndpointNames, End, ClassNames
  <2>5. QED
    BY <2>1, <2>4
<1>12. CASE n \in {"OtherFeature"}
  <2> DEFINE h == <<"clearSETUP", "statusIN">>
  <2>1. Handler[n] = h
    BY <1>12 DEF Handler
  <2>2. h \in Seq(StepNames) /\ Len(h) = 2
    BY DEF StepNames
  <2>3. /\ h[1] = "clearSETUP"
        /\ h[2] = "statusIN"
    OBVIOUS
  <2>4. Path(n, h)
    <3> HIDE DEF h
    <3>1. 1 .. 2 = {1, 2}
      OBVIOUS
    <3>2. QED
      BY <1>12, <2>2, <2>3, <3>1 DEF Path, Follows, Begins, Escape, StepNames,
         HidReads, ByteReads, HidStores, Wakeups, Halts, Features,
         EndpointNames, End, ClassNames
  <2>5. QED
    BY <2>1, <2>4
<1>13. QED
  BY <1>1, <1>2, <1>3, <1>4, <1>5, <1>6, <1>7, <1>8, <1>9, <1>10, <1>11, <1>12
     DEF ClassNames, StandardNames

(* What is left of a list is a place in it and what is left after it.      *)
LEMMA RestOf ==
  ASSUME NEW S, NEW h \in Seq(S), NEW k \in 1 .. Len(h),
         NEW s, s = SubSeq(h, k, Len(h))
  PROVE  /\ s \in Seq(S) /\ s # <<>>
         /\ Head(s) = h[k]
         /\ Tail(s) = SubSeq(h, k + 1, Len(h))
         /\ Tail(s) = <<>> <=> k = Len(h)
<1>1. Len(h) \in Nat /\ k \in Int /\ k <= Len(h) /\ Len(h) \in k .. Len(h)
  BY LenProperties
<1>2. Head(s) = h[k] /\ Tail(s) = SubSeq(h, k + 1, Len(h))
  BY <1>1, HeadTailOfSubSeq
<1>3. \A i \in k .. Len(h) : h[i] \in S
  BY <1>1, ElementOfSeq
<1>4. s \in Seq(S)
  BY <1>1, <1>3, SubSeqProperties
<1>5. Len(s) = Len(h) - k + 1
  BY <1>1, <1>3, SubSeqProperties
<1>6. s # <<>>
  <2>1. Len(<<>>) = 0
    BY EmptySeq
  <2>2. Len(s) # 0
    BY <1>1, <1>5
  <2>3. QED
    BY <2>1, <2>2
<1>7. Tail(s) \in Seq(S) /\ Len(Tail(s)) = Len(s) - 1
  BY <1>4, <1>6, HeadTailProperties
<1>8. Tail(s) = <<>> <=> Len(Tail(s)) = 0
  BY <1>7, EmptySeq
<1>9. Len(Tail(s)) = Len(h) - k
  BY <1>1, <1>5, <1>7
<1>10. Len(h) - k = 0 <=> k = Len(h)
  BY <1>1
<1>11. Tail(s) = <<>> <=> k = Len(h)
  BY <1>8, <1>9, <1>10, Zenon
<1>12. QED
  BY <1>2, <1>4, <1>6, <1>11, Zenon

LEMMA RestHead ==
  ASSUME NEW S, NEW h \in Seq(S), NEW k \in 1 .. Len(h)
  PROVE  SubSeq(h, k, Len(h)) # <<>> /\ Head(SubSeq(h, k, Len(h))) = h[k]
<1>1. PICK s : s = SubSeq(h, k, Len(h))
  OBVIOUS
<1>2. s # <<>> /\ Head(s) = h[k]
  BY <1>1, RestOf
<1>3. QED
  BY <1>1, <1>2

-----------------------------------------------------------------------------
(* Places.                                                                 *)

(* What MainOK and StageInv say of the handler the main loop is in.        *)
HandlerOK ==
  /\ pc \in {"hid", "task", "event", "class", "standard", "handler", "final"}
  /\ pc \in {"class", "handler"} <=> todo # <<>>
  /\ todo # <<>> =>
       /\ \E k \in 1 .. Len(Handler[request.name]) :
            todo = SubSeq(Handler[request.name], k, Len(Handler[request.name]))
       /\ request \in Requests /\ Supported(request)
       /\ request.name \in ClassNames \cup StandardNames
       /\ pc = IF request.name \in ClassNames THEN "class" ELSE "handler"

Outside == {"hid", "task", "event", "standard", "final"}

(* In a handler the place is the step that is due.                         *)
LEMMA Places ==
  ASSUME HandlerOK
  PROVE  /\ todo = <<>> => Place = pc /\ Place \in Outside
         /\ todo # <<>> => Place = Head(todo) /\ Place \in StepNames
         /\ todo # <<>> =>
              \E q : Follows(request.name, Place, q) /\ Supported(request)
         /\ \A p \in StepNames : Now(p) <=> Place = p
<1>1. CASE todo = <<>>
  BY <1>1 DEF HandlerOK, Place, Outside, StepNames, Now
<1>2. CASE todo # <<>>
  <2> DEFINE n == request.name
             h == Handler[n]
  <2>1. PICK k \in 1 .. Len(h) : todo = SubSeq(h, k, Len(h))
    BY <1>2 DEF HandlerOK
  <2>2. Path(n, h)
    BY <1>2, HandlerPath DEF HandlerOK
  <2>3. h \in Seq(StepNames)
    BY <2>2 DEF Path
  <2> HIDE DEF h
  <2>4. Head(todo) = h[k]
    BY <2>1, <2>3, RestOf
  <2>5. h[k] \in StepNames
    BY <2>3, ElementOfSeq
  <2>6. \E q : Follows(n, h[k], q)
    BY <2>1, <2>2 DEF Path
  <2>7. Supported(request)
    BY <1>2 DEF HandlerOK
  <2>8. QED
    BY <1>2, <2>4, <2>5, <2>6, <2>7 DEF Place, Now
<1>3. QED
  BY <1>1, <1>2

(* A handler goes on with its next step, or the main loop leaves it.       *)
LEMMA HandlerMove ==
  ASSUME HandlerOK, todo # <<>>, request' = request
  PROVE  /\ Continue(Tail(todo)) =>
              HandlerOK' /\ Follows(request.name, Place, Place')
         /\ Continue(Tail(Tail(todo))) /\ Place \in {"receive", "send"} =>
              HandlerOK' /\ Escape(Place, Place')
<1> DEFINE n == request.name
           h == Handler[n]
<1>1. PICK k \in 1 .. Len(h) : todo = SubSeq(h, k, Len(h))
  BY DEF HandlerOK
<1>2. Path(n, h) /\ n \in ClassNames \cup StandardNames
  BY HandlerPath DEF HandlerOK
<1>3. h \in Seq(StepNames)
  BY <1>2 DEF Path
<1>4. Len(h) \in Nat
  BY <1>3, LenProperties
<1>5. h = Handler[request.name] /\ h = Handler[request'.name]
  OBVIOUS
<1>6. /\ pc = IF n \in ClassNames THEN "class" ELSE "handler"
      /\ After[pc] = End(n)
  BY DEF HandlerOK, After, End
<1>7. request \in Requests /\ Supported(request)
      /\ (Supported(request))' = Supported(request)
  BY DEF HandlerOK, Supported
<1> HIDE DEF h
<1>8. Place = h[k] /\ (Tail(todo) = <<>> <=> k = Len(h))
      /\ Tail(todo) = SubSeq(h, k + 1, Len(h))
  BY <1>1, <1>3, RestOf DEF Place
<1>9. k # Len(h) => k + 1 \in 1 .. Len(h)
  BY <1>4
<1>10. k # Len(h) =>
         /\ Head(Tail(todo)) = h[k + 1]
         /\ Tail(Tail(todo)) = SubSeq(h, k + 2, Len(h))
  <2>1. SUFFICES ASSUME k # Len(h)
                 PROVE  /\ Head(Tail(todo)) = h[k + 1]
                        /\ Tail(Tail(todo)) = SubSeq(h, (k + 1) + 1, Len(h))
    <3>1. k \in Int /\ k + 2 = (k + 1) + 1
      BY <1>4
    <3>2. QED
      BY <3>1
  <2>2. QED
    BY <2>1, <1>3, <1>8, <1>9, RestOf
<1>11. ASSUME Continue(Tail(todo))
       PROVE  HandlerOK' /\ Follows(n, Place, Place')
  <2>1. CASE k = Len(h)
    <3>1. todo' = <<>> /\ pc' = End(n) /\ Place' = End(n)
      BY <1>6, <1>8, <1>11, <2>1 DEF Continue, Place
    <3>2. Follows(n, h[k], End(n))
      BY <1>2, <2>1 DEF Path
    <3>3. HandlerOK'
      BY <3>1 DEF HandlerOK, End
    <3>4. QED
      BY <1>8, <3>1, <3>2, <3>3
  <2>2. CASE k # Len(h)
    <3>1. todo' = Tail(todo) /\ todo' # <<>> /\ pc' = pc /\ Place' = h[k + 1]
      BY <1>8, <1>10, <1>11, <2>2 DEF Continue, Place
    <3>2. Follows(n, h[k], h[k + 1])
      BY <1>2, <2>2 DEF Path
    <3>3. HandlerOK'
      BY <1>2, <1>5, <1>6, <1>7, <1>8, <1>9, <2>2, <3>1 DEF HandlerOK
    <3>4. QED
      BY <1>8, <3>1, <3>2, <3>3
  <2>3. QED
    BY <2>1, <2>2
<1>12. ASSUME Continue(Tail(Tail(todo))), Place \in {"receive", "send"}
       PROVE  HandlerOK' /\ Escape(Place, Place')
  <2>1. k + 2 <= Len(h) /\ Escape(h[k], h[k + 2])
    BY <1>2, <1>8, <1>12 DEF Path
  <2>2. k # Len(h) /\ k + 2 \in 1 .. Len(h)
    BY <1>4, <2>1
  <2> PICK m \in 1 .. Len(h) : m = k + 2
    BY <2>2
  <2>3. Tail(Tail(todo)) = SubSeq(h, m, Len(h))
    BY <1>10, <2>2
  <2>4. Tail(Tail(todo)) # <<>> /\ Head(Tail(Tail(todo))) = h[m]
    <3>1. SubSeq(h, m, Len(h)) # <<>> /\ Head(SubSeq(h, m, Len(h))) = h[m]
      BY <1>3, RestHead
    <3>2. QED
      BY <2>3, <3>1
  <2>5. todo' = Tail(Tail(todo)) /\ todo' # <<>> /\ pc' = pc /\ Place' = h[k + 2]
    BY <1>12, <2>4 DEF Continue, Place
  <2>6. HandlerOK'
    BY <1>2, <1>5, <1>6, <1>7, <2>2, <2>3, <2>5 DEF HandlerOK
  <2>7. QED
    BY <1>8, <2>1, <2>5, <2>6
<1>13. QED
  BY <1>11, <1>12

(* The main loop enters the handler of a request.                          *)
LEMMA HandlerEnter ==
  ASSUME NEW n \in ClassNames \cup StandardNames,
         request \in Requests, Supported(request), request.name = n,
         request' = request, todo' = Handler[n],
         pc' = IF n \in ClassNames THEN "class" ELSE "handler"
  PROVE  HandlerOK' /\ Begins(n, Place')
<1> DEFINE h == Handler[n]
<1>1. Path(n, h)
  BY HandlerPath
<1>2. h = Handler[request'.name] /\ (Supported(request))' /\ todo' = h
  BY DEF Supported
<1> HIDE DEF h
<1>3. h \in Seq(StepNames) /\ Len(h) # 0 /\ Begins(n, h[1])
  BY <1>1 DEF Path
<1>4. 1 \in 1 .. Len(h)
  BY <1>3, LenProperties
<1>5. h = SubSeq(h, 1, Len(h))
  BY <1>3, SubSeqFull
<1>6. h # <<>> /\ Head(h) = h[1]
  BY <1>3, <1>4, <1>5, RestOf
<1>7. Place' = h[1]
  BY <1>2, <1>6 DEF Place
<1>8. HandlerOK'
  BY <1>2, <1>4, <1>5, <1>6 DEF HandlerOK
<1>9. QED
  BY <1>3, <1>7, <1>8

-----------------------------------------------------------------------------
(* Types.                                                                  *)

Typed == TypeOK /\ StageInv

(* The steps of the handlers beyond the control endpoint.                  *)
StoringStep == StoreStep \/ ConfigureStep

LEMMA TypedHandler == ASSUME Typed PROVE HandlerOK
BY DEF Typed, TypeOK, MainOK, StageInv, HandlerOK

(* What a request is made of.                                              *)
LEMMA RequestType ==
  ASSUME NEW r \in RequestOrNone
  PROVE  /\ r.arg \in Nat
         /\ r.exact \in BOOLEAN
         /\ r.color \in Colors \cup {NoColor}
         /\ r \in Requests => r.name \in ClassNames \cup StandardNames \cup {"Other"}
         /\ r \notin Requests => r.name = "None"
         /\ r.name \in EndpointNames => r.arg \in Endpoints
<1>1. CASE r \in Requests
  <2>1. r \in AllRequests
    BY <1>1, RequestAssumption
  <2>2. r.name \in EndpointNames => r.arg \in Endpoints
    BY <1>1, RequestAssumption
  <2>3. QED
    BY <1>1, <2>1, <2>2 DEF AllRequests
<1>2. CASE r = NoRequest /\ r \notin Requests
  BY <1>2 DEF NoRequest, EndpointNames
<1>3. QED
  BY <1>1, <1>2 DEF RequestOrNone

(* What a request has of packets.                                          *)
LEMMA PacketsType ==
  ASSUME NEW r \in RequestOrNone
  PROVE  /\ Packets(r) \in Nat
         /\ r.name = "SetReport" => (Packets(r) = 0 <=> r.arg = 0)
<1>1. r.arg \in Nat
  BY RequestType
<1>2. (r.arg + 7) \div 8 \in Nat /\ ((r.arg + 7) \div 8 = 0 <=> r.arg = 0)
  BY <1>1
<1>3. QED
  BY <1>1, <1>2 DEF Packets

(* The main loop moves to a place, in a handler or between two.            *)
LEMMA HandlerStep ==
  ASSUME Typed, Next \/ UNCHANGED vars
  PROVE  HandlerOK'
<1>1. HandlerOK
  BY TypedHandler
<1>2. CASE ControlStep \/ StoringStep
  <2>1. todo # <<>> /\ request' = request
    BY <1>2
    DEF ControlStep, ClearSETUP, Receive, AwaitIN, Send, AwaitOUT, ClearIN,
        ClearOUT, StatusIN, StatusOUT, SpinIN, Now, StoringStep, StoreStep,
        Commit, StoreHid, StoreWakeup, SetDeviceAddress, EnableDeviceAddress,
        SetNumber, ChooseState, StoreState, SelectIN, LoadEnables, StoreEnables,
        SelectEndpoint, Halt, ReadStall, ConfigureStep, ConfigureIN,
        RewriteHigher
  <2>2. UNCHANGED <<pc, todo>> => HandlerOK'
    BY <1>1, <2>1 DEF HandlerOK, Supported
  <2>3. \/ Continue(Tail(todo))
        \/ Continue(Tail(Tail(todo))) /\ Place \in {"receive", "send"}
        \/ UNCHANGED <<pc, todo>>
    BY <1>1, <1>2, Places
    DEF ControlStep, ClearSETUP, Receive, AwaitIN, Send, AwaitOUT, ClearIN,
        ClearOUT, StatusIN, StatusOUT, SpinIN, StoringStep, StoreStep,
        ConfigureStep, ConfigureIN, RewriteHigher, StepNames
  <2>4. QED
    BY <1>1, <2>1, <2>2, <2>3, HandlerMove
<1>3. CASE ProcessClassRequest \/ ProcessStandardRequest
  <2>1. todo = <<>> /\ request' = request
    BY <1>1, <1>3
    DEF HandlerOK, ProcessClassRequest, ProcessStandardRequest, Dispatch
  <2>2. CASE UNCHANGED todo /\ pc' \in {"standard", "final"}
    BY <2>1, <2>2 DEF HandlerOK
  <2>3. ASSUME NEW n \in ClassNames \cup StandardNames,
               request.name = n, Supported(request), todo' = Handler[n],
               pc' = IF n \in ClassNames THEN "class" ELSE "handler"
        PROVE  HandlerOK'
    <3>1. request \in Requests
      BY <2>3, RequestType DEF Typed, TypeOK, MainOK, ClassNames, StandardNames
    <3>2. QED
      BY <2>1, <2>3, <3>1, HandlerEnter
  <2>4. QED
    BY <1>3, <2>2, <2>3
    DEF ProcessClassRequest, ProcessStandardRequest, Dispatch, ClassNames,
        StandardNames
<1>4. CASE UsbGen \/ HidTask \/ DeviceTask \/ Final \/ Host \/ UNCHANGED vars
  <2>1. CASE UNCHANGED <<pc, todo, request>>
    BY <1>1, <2>1 DEF HandlerOK, Supported
  <2>2. CASE HidTask \/ DeviceTask \/ Final
    BY <1>1, <2>2 DEF HandlerOK, HidTask, DeviceTask, Final
  <2>3. QED
    BY <1>4, <2>1, <2>2 DEF UsbGen, Host, vars
<1>5. QED
  BY <1>2, <1>3, <1>4 DEF Next, Main, StoringStep

(* The locals of the main loop.                                            *)
LocalsOK ==
  /\ prev \in Endpoints
  /\ report \in Colors \cup {Garbage, NoColor}
  /\ left \in Nat /\ full \in BOOLEAN
  /\ chosen \in DeviceStates
  /\ reg \subseteq {"SOF", "SUSP", "WAKEUP"}
  /\ request \in RequestOrNone

EndpointTypes == {"off", "disabled", "control", "interrupt"}

LEMMA StepTypes ==
  ASSUME Typed, Main
  PROVE  LocalsOK' /\ DeviceOK' /\ ControllerOK'
<1>1. LocalsOK /\ DeviceOK /\ ControllerOK /\ HandlerOK
  BY TypedHandler DEF Typed, TypeOK, MainOK, LocalsOK
<1>2. /\ request.arg \in Nat /\ request.exact \in BOOLEAN
      /\ request.name \in EndpointNames => request.arg \in Endpoints
  BY <1>1, RequestType DEF LocalsOK
<1>3. CASE HidTask \/ DeviceTask \/ Final
  <2>1. 0 \in Endpoints /\ 1 \in Endpoints
    BY DEF Endpoints
  <2>2. CASE HidTask
    BY <1>1, <2>1, <2>2 DEF HidTask, LocalsOK, DeviceOK, ControllerOK, localVars,
       deviceVars, packetVars, addrVars, intVars
  <2>3. CASE DeviceTask
    BY <1>1, <2>1, <2>3 DEF DeviceTask, LocalsOK, DeviceOK, ControllerOK,
       RequestOrNone, deviceVars, addrVars, intVars
  <2>4. CASE Final
    <3>1. /\ UNCHANGED <<request, report, left, full, chosen, reg, devState,
                         confNumber, hidState, remoteWakeup, colors, epType,
                         setup, rxout, outPkt, txin, inPkt, addr, addEn, frozen,
                         udien, line, eorsti, vbusti>>
          /\ prev' = 0 /\ selected' = prev
          /\ \/ UNCHANGED <<rxstp, epStalled>>
             \/ /\ rxstp' = FALSE
                /\ epStalled' = [epStalled EXCEPT ![0] = TRUE]
      BY <2>4 DEF Final, StallRequest, deviceVars, addrVars, intVars
    <3>2. LocalsOK' /\ DeviceOK'
      BY <1>1, <2>1, <3>1 DEF LocalsOK, DeviceOK
    <3>3. epStalled' \in [Endpoints -> BOOLEAN] /\ rxstp' \in BOOLEAN
      BY <1>1, <2>1, <3>1 DEF ControllerOK
    <3>4. ControllerOK'
      BY <1>1, <2>1, <3>1, <3>3 DEF ControllerOK, LocalsOK
    <3>5. QED
      BY <3>2, <3>4
  <2>5. QED
    BY <1>3, <2>2, <2>3, <2>4
<1>4. CASE ProcessClassRequest \/ ProcessStandardRequest
  <2>1. UNCHANGED <<request, localVars, deviceVars, epVars, packetVars, addrVars,
                    intVars>>
    BY <1>4 DEF ProcessClassRequest, ProcessStandardRequest, Dispatch
  <2>2. LocalsOK' /\ DeviceOK'
    BY <1>1, <2>1 DEF LocalsOK, DeviceOK, localVars, deviceVars
  <2>3. ControllerOK'
    BY <1>1, <2>1 DEF ControllerOK, epVars, packetVars, addrVars, intVars
  <2>4. QED
    BY <2>2, <2>3
<1>5. CASE ControlStep
  <2>1. UNCHANGED <<prev, chosen, reg, request, deviceVars, epVars, setup,
                    outPkt, addrVars, intVars>>
    BY <1>5 DEF ControlStep
  <2>2. DeviceOK'
    BY <1>1, <2>1 DEF DeviceOK, deviceVars
  <2>3. /\ report' \in Colors \cup {Garbage, NoColor}
        /\ left' \in Nat /\ full' \in BOOLEAN
    <3>1. left \in Nat /\ full \in BOOLEAN /\ request.arg \in Nat
          /\ request.exact \in BOOLEAN
      BY <1>1, <1>2 DEF LocalsOK
    <3>2. left' \in Nat
      BY <1>1, <1>5, <3>1, PacketsType DEF LocalsOK, ControlStep, ClearSETUP, Receive, AwaitIN, Send, AwaitOUT,
         ClearIN, ClearOUT, StatusIN, StatusOUT, SpinIN, PacketsAfter
    <3>3. full' \in BOOLEAN
      BY <1>5, <3>1 DEF ControlStep, ClearSETUP, Receive, AwaitIN, Send, AwaitOUT,
         ClearIN, ClearOUT, StatusIN, StatusOUT, SpinIN
    <3>4. report' \in {report, outPkt}
      BY <1>5 DEF ControlStep, ClearSETUP, Receive, AwaitIN, Send, AwaitOUT,
         ClearIN, ClearOUT, StatusIN, StatusOUT, SpinIN
    <3>5. QED
      BY <1>1, <3>2, <3>3, <3>4 DEF LocalsOK, ControllerOK
  <2>4. /\ {rxstp, rxout, txin}' \subseteq BOOLEAN
        /\ inPkt' \in RequestOrNone
    BY <1>1, <1>2, <1>5 DEF LocalsOK, ControllerOK, ControlStep, ClearSETUP,
       Receive, AwaitIN, Send, AwaitOUT, ClearIN, ClearOUT, StatusIN, StatusOUT,
       SpinIN, SendIN
  <2>5. QED
    BY <1>1, <2>1, <2>2, <2>3, <2>4 DEF LocalsOK, ControllerOK, epVars, addrVars,
       intVars
<1>6. CASE StoreStep
  <2>1. UNCHANGED <<request, prev, left, full, setup, outPkt, inPkt, frozen,
                    line, eorsti, vbusti>>
    BY <1>6 DEF StoreStep
  <2>2. /\ Now("selectEndpoint") => request.name \in EndpointNames
        /\ Now("setNumber") => request.arg \in 0 .. Configurations
    BY <1>1, <1>2, Places, ConstantAssumption DEF Now, Follows, StepNames,
       Supported, Halts, EndpointNames
  <2>3. LocalsOK'
    BY <1>1, <2>1, <1>6 DEF LocalsOK, DeviceOK, ControllerOK, StoreStep, Commit,
       StoreHid, StoreWakeup, SetDeviceAddress, EnableDeviceAddress, SetNumber,
       ChooseState, StoreState, SelectIN, LoadEnables, StoreEnables,
       SelectEndpoint, Halt, ReadStall, AwakeState, DeviceStates
  <2>4. DeviceOK'
    <3>1. CASE StoreHid \/ SelectIN
      <4>1. UNCHANGED <<devState, confNumber, remoteWakeup, colors>>
        BY <3>1 DEF StoreHid, SelectIN
      <4>2. hidState' \in [protocol : BOOLEAN, idle : Nat]
        <5>1. CASE StoreHid
          <6>1. 4 * request.arg \in Nat /\ (request.arg # 0) \in BOOLEAN
            BY <1>2
          <6>2. QED
            BY <1>1, <5>1, <6>1 DEF DeviceOK, StoreHid
        <5>2. CASE SelectIN
          BY <5>2, ConstantAssumption DEF SelectIN
        <5>3. QED
          BY <3>1, <5>1, <5>2
      <4>3. QED
        BY <1>1, <4>1, <4>2 DEF DeviceOK
    <3>2. CASE ~ (StoreHid \/ SelectIN)
      <4>1. hidState' = hidState
        BY <1>6, <3>2 DEF StoreStep, Commit, StoreWakeup, SetDeviceAddress,
           EnableDeviceAddress, SetNumber, ChooseState, StoreState, LoadEnables,
           StoreEnables, SelectEndpoint, Halt, ReadStall, deviceVars
      <4>2. /\ devState' \in DeviceStates
            /\ confNumber' \in 0 .. Configurations
            /\ remoteWakeup' \in BOOLEAN
            /\ colors' \in Colors \cup {Garbage, NoColor}
        BY <1>1, <1>6, <2>2, <3>2 DEF LocalsOK, DeviceOK, deviceVars, StoreStep,
           Commit, StoreWakeup, SetDeviceAddress, EnableDeviceAddress, SetNumber,
           ChooseState, StoreState, LoadEnables, StoreEnables, SelectEndpoint,
           Halt, ReadStall
      <4>3. QED
        BY <1>1, <4>1, <4>2 DEF DeviceOK
    <3>3. QED
      BY <3>1, <3>2
  <2>5. ControllerOK'
    <3>1. /\ epType' \in [Endpoints -> EndpointTypes]
          /\ epStalled' \in [Endpoints -> BOOLEAN]
      <4>1. CASE Halt
        BY <1>1, <4>1 DEF ControllerOK, EndpointTypes, Halt
      <4>2. CASE ~ Halt
        <5>1. UNCHANGED <<epType, epStalled>>
          BY <1>6, <4>2 DEF StoreStep, Commit, StoreHid, StoreWakeup,
             SetDeviceAddress, EnableDeviceAddress, SetNumber, ChooseState,
             StoreState, SelectIN, LoadEnables, StoreEnables, SelectEndpoint,
             ReadStall, epVars
        <5>2. QED
          BY <1>1, <5>1 DEF ControllerOK, EndpointTypes
      <4>3. QED
        BY <4>1, <4>2
    <3>2. selected' \in Endpoints
      BY <1>1, <1>2, <1>6, <2>2 DEF ControllerOK, epVars, Endpoints, StoreStep,
         Commit, StoreHid, StoreWakeup, SetDeviceAddress, EnableDeviceAddress,
         SetNumber, ChooseState, StoreState, SelectIN, LoadEnables,
         StoreEnables, SelectEndpoint, Halt, EndpointAfterHalt, ReadStall,
         EndpointAfterStatus
    <3>3. {rxstp, rxout, txin}' \subseteq BOOLEAN
      BY <1>1, <1>6 DEF ControllerOK, StoreStep, Commit, StoreHid, StoreWakeup,
         SetDeviceAddress, EnableDeviceAddress, SetNumber, ChooseState,
         StoreState, SelectIN, LoadEnables, StoreEnables, SelectEndpoint, Halt,
         ReadStall
    <3>4. addr' \in Nat /\ addEn' \in BOOLEAN
      BY <1>1, <1>2, <1>6 DEF ControllerOK, addrVars, StoreStep, Commit, StoreHid,
         StoreWakeup, SetDeviceAddress, EnableDeviceAddress, SetNumber,
         ChooseState, StoreState, SelectIN, LoadEnables, StoreEnables,
         SelectEndpoint, Halt, ReadStall
    <3>5. udien' \subseteq {"SOF", "SUSP", "WAKEUP"}
      BY <1>1, <1>6 DEF LocalsOK, ControllerOK, StoreStep, Commit, StoreHid,
         StoreWakeup, SetDeviceAddress, EnableDeviceAddress, SetNumber,
         ChooseState, StoreState, SelectIN, LoadEnables, StoreEnables,
         SelectEndpoint, Halt, ReadStall
    <3>6. QED
      BY <1>1, <2>1, <3>1, <3>2, <3>3, <3>4, <3>5 DEF ControllerOK, EndpointTypes
  <2>6. QED
    BY <2>3, <2>4, <2>5
<1>7. CASE ConfigureStep
  <2>1. UNCHANGED <<request, prev, report, full, chosen, reg, deviceVars, setup,
                    outPkt, inPkt, addrVars, intVars>>
    BY <1>7 DEF ConfigureStep
  <2>2. Now("rewriteHigher") => left \in 1 .. 5
    BY DEF Typed, TypeOK, MainOK
  <2>3. left' \in Nat /\ selected' \in Endpoints
    BY <1>7, <2>2 DEF ConfigureStep, ConfigureIN, RewriteHigher, Endpoints
  <2>4. LocalsOK' /\ DeviceOK'
    BY <1>1, <2>1, <2>3 DEF LocalsOK, DeviceOK, deviceVars
  <2>5. /\ epType' \in [Endpoints -> EndpointTypes]
        /\ epStalled' \in [Endpoints -> BOOLEAN]
        /\ {rxstp, rxout, txin}' \subseteq BOOLEAN
    <3>1. /\ epType \in [Endpoints -> EndpointTypes]
          /\ epStalled \in [Endpoints -> BOOLEAN]
          /\ selected \in Endpoints /\ {rxstp, rxout, txin} \subseteq BOOLEAN
      BY <1>1 DEF ControllerOK, EndpointTypes
    <3>2. Rewritten(epType[selected]) \in EndpointTypes
      BY <3>1 DEF Rewritten, EndpointTypes
    <3>3. CASE UNCHANGED <<epType, epStalled, rxstp, rxout, txin>>
      BY <3>1, <3>3
    <3>4. ASSUME NEW type \in EndpointTypes, Configured(type)
          PROVE  /\ epType' \in [Endpoints -> EndpointTypes]
                 /\ epStalled' \in [Endpoints -> BOOLEAN]
                 /\ {rxstp, rxout, txin}' \subseteq BOOLEAN
      BY <3>1, <3>4 DEF Configured
    <3>5. "interrupt" \in EndpointTypes
      BY DEF EndpointTypes
    <3>6. QED
      BY <1>7, <3>2, <3>3, <3>4, <3>5 DEF ConfigureStep, ConfigureIN,
         RewriteHigher
  <2>6. ControllerOK'
    BY <1>1, <2>1, <2>3, <2>5 DEF ControllerOK, EndpointTypes, addrVars, intVars
  <2>7. QED
    BY <2>4, <2>6
<1>8. QED
  BY <1>3, <1>4, <1>5, <1>6, <1>7 DEF Main

-----------------------------------------------------------------------------
(* The host: what its actions do to the transfer, field by field.          *)

LEMMA SetupFacts ==
  ASSUME SendSetup
  PROVE  /\ setup' \in Requests /\ Sensible(setup')
         /\ xfer'.stage = FirstStage(setup') /\ xfer'.req = setup'
         /\ xfer'.by = NoRequest /\ xfer'.outcome = "none"
         /\ xfer'.wants \in Wants(setup') /\ xfer'.raced = (pc \notin Between)
         /\ xfer' = [stage |-> xfer'.stage, req |-> xfer'.req, by |-> xfer'.by,
                     wants |-> xfer'.wants, outcome |-> xfer'.outcome,
                     raced |-> xfer'.raced]
         /\ agreed' = IF SetsColor(setup)' THEN NoColor ELSE agreed
         /\ hostConf' = IF setup'.name = "SetConfiguration" THEN 0 ELSE hostConf
<1>1. PICK r \in Requests : \E wants \in Wants(r) :
        /\ Sensible(r)
        /\ setup' = r
        /\ xfer' = [stage |-> FirstStage(r), req |-> r, by |-> NoRequest,
                    wants |-> wants, outcome |-> "none",
                    raced |-> pc \notin Between]
        /\ agreed' = IF SetsColor(r) THEN NoColor ELSE agreed
        /\ hostConf' = IF r.name = "SetConfiguration" THEN 0 ELSE hostConf
  BY DEF SendSetup, Between
<1>2. QED
  BY <1>1 DEF SetsColor

LEMMA StalledFacts ==
  ASSUME TypeOK, Stalled
  PROVE  /\ epStalled[0]
         /\ xfer'.stage = "idle" /\ xfer'.outcome = "stalled"
         /\ xfer'.req = xfer.req /\ xfer'.by = xfer.by
         /\ xfer'.raced = xfer.raced /\ xfer'.wants = xfer.wants
         /\ UNCHANGED <<hostAddr, hostConf, agreed, txin, inPkt, rxout, outPkt>>
BY DEF TypeOK, HostOK, Transfers, Stalled

LEMMA CompleteFacts ==
  ASSUME TypeOK, NEW by, Complete(by)
  PROVE  /\ xfer'.stage = "idle" /\ xfer'.outcome = "done"
         /\ xfer'.req = xfer.req /\ xfer'.by = by
         /\ xfer'.raced = xfer.raced /\ xfer'.wants = xfer.wants
BY DEF TypeOK, HostOK, Transfers, Complete

LEMMA TakeFacts ==
  ASSUME TypeOK, TakeIN
  PROVE  /\ xfer.stage \in {"in", "statusIn"} /\ ~ epStalled[0] /\ ~ txin
         /\ txin' /\ inPkt' = NoRequest
         /\ UNCHANGED <<rxout, outPkt>>
         /\ xfer'.req = xfer.req /\ xfer'.raced = xfer.raced
         /\ xfer.stage = "statusIn" => Complete(inPkt)
         /\ xfer.stage = "in" =>
              /\ UNCHANGED <<hostAddr, hostConf, agreed>>
              /\ xfer'.by = inPkt /\ xfer'.outcome = xfer.outcome
              /\ xfer'.wants = xfer.wants - 1
              /\ xfer'.stage = IF xfer.wants = 1 THEN "statusOut" ELSE "in"
<1>1. CASE xfer.stage = "statusIn"
  BY <1>1, CompleteFacts DEF TakeIN
<1>2. CASE xfer.stage = "in"
  BY <1>2 DEF TypeOK, HostOK, Transfers, TakeIN
<1>3. QED
  BY <1>1, <1>2 DEF TakeIN

LEMMA GiveFacts ==
  ASSUME TypeOK, GiveOUT
  PROVE  /\ xfer.stage \in {"out", "statusOut"} /\ ~ epStalled[0] /\ ~ rxout
         /\ rxout'
         /\ UNCHANGED <<txin, inPkt>>
         /\ xfer'.req = xfer.req /\ xfer'.raced = xfer.raced
         /\ xfer'.by = xfer.by
         /\ xfer.stage = "statusOut" => Complete(xfer.by) /\ outPkt' = NoColor
         /\ xfer.stage = "out" =>
              /\ UNCHANGED <<hostAddr, hostConf, agreed>>
              /\ outPkt' = xfer.req.color
              /\ xfer'.outcome = xfer.outcome
              /\ xfer'.wants = xfer.wants - 1
              /\ xfer'.stage = IF xfer.wants = 1 THEN "statusIn" ELSE "out"
<1>1. CASE xfer.stage = "statusOut"
  BY <1>1, CompleteFacts DEF GiveOUT
<1>2. CASE xfer.stage = "out"
  BY <1>2 DEF TypeOK, HostOK, Transfers, GiveOUT
<1>3. QED
  BY <1>1, <1>2 DEF GiveOUT

LEMMA BreakFacts ==
  ASSUME BreakOff
  PROVE  /\ xfer'.stage = "recovering" /\ xfer'.req = NoRequest
         /\ xfer'.by = NoRequest /\ xfer'.outcome = "none"
         /\ xfer'.wants = 0 /\ xfer'.raced = FALSE
         /\ xfer' = NoTransfer
         /\ broken \/ (Pending /\ xfer.req.name = "SetReport") => broken'
         /\ broken' => broken \/ (Pending /\ xfer.req.name = "SetReport")
         /\ UNCHANGED <<selected, epStalled, packetVars, addr, agreed>>
BY DEF BreakOff, NoTransfer, Pending

(* The interrupt routine and the host keep the types.                      *)
LEMMA InterruptTypes ==
  ASSUME Typed, UsbGen
  PROVE  LocalsOK' /\ DeviceOK' /\ ControllerOK' /\ HostOK'
<1>1. LocalsOK /\ DeviceOK /\ ControllerOK /\ HostOK
  BY DEF Typed, TypeOK, MainOK, LocalsOK
<1>2. LocalsOK' /\ HostOK'
  BY <1>1 DEF UsbGen, LocalsOK, HostOK, localVars, hostVars
<1>3. DeviceOK'
  BY <1>1, ConstantAssumption DEF UsbGen, VbusChanged, Suspended, WokenUp,
     BusWasReset, AwakeState, DeviceOK, DeviceStates
<1>4. ControllerOK'
  <2>1. CASE VbusChanged \/ Suspended \/ WokenUp
    BY <1>1, <2>1 DEF VbusChanged, Suspended, WokenUp, EnablesAsleep,
       ControllerOK, epVars, packetVars, addrVars
  <2>2. CASE BusWasReset
    <3>1. /\ epType' \in [Endpoints -> EndpointTypes]
          /\ epStalled' \in [Endpoints -> BOOLEAN]
      BY <1>1, <2>2 DEF BusWasReset, Rewritten, ControllerOK, EndpointTypes
    <3>2. 0 \in Endpoints
      BY DEF Endpoints
    <3>3. QED
      BY <1>1, <2>2, <3>1, <3>2 DEF BusWasReset, ControllerOK, EndpointTypes,
         addrVars
  <2>3. QED
    BY <2>1, <2>2 DEF UsbGen
<1>5. QED
  BY <1>2, <1>3, <1>4

LEMMA HostTypes ==
  ASSUME Typed, Host
  PROVE  LocalsOK' /\ DeviceOK' /\ ControllerOK' /\ HostOK'
<1>1. /\ LocalsOK /\ DeviceOK /\ ControllerOK /\ HostOK /\ StageInv
      /\ TypeOK
  BY DEF Typed, TypeOK, MainOK, LocalsOK
<1>2. LocalsOK' /\ DeviceOK'
  BY <1>1 DEF Host, LocalsOK, DeviceOK, localVars, deviceVars
<1>3. CASE SendSetup
  <2>1. ControllerOK'
    BY <1>1, <1>3, SetupFacts DEF SendSetup, ControllerOK, RequestOrNone, addrVars
  <2>2. HostOK'
    <3>1. setup'.arg \in Nat /\ setup'.exact \in BOOLEAN
      BY <1>3, SetupFacts, RequestType DEF RequestOrNone
    <3>2. xfer'.wants \in Nat
      <4>1. setup' \in RequestOrNone /\ xfer'.wants \in Wants(setup')
        BY <1>3, SetupFacts DEF RequestOrNone
      <4>2. Packets(setup') \in Nat
        BY <4>1, PacketsType
      <4>3. QED
        BY <3>1, <4>1, <4>2 DEF Wants
    <3>3. xfer'.stage \in Stages /\ xfer'.raced \in BOOLEAN
      BY <1>3, SetupFacts DEF FirstStage, Stages
    <3>4. xfer' \in Transfers
      BY <1>3, <3>2, <3>3, SetupFacts DEF Transfers, RequestOrNone
    <3>5. agreed' \in Colors \cup {NoColor} /\ hostConf' \in Nat
      BY <1>1, <1>3, SetupFacts DEF HostOK
    <3>6. QED
      BY <1>1, <1>3, <3>4, <3>5 DEF SendSetup, HostOK, Transfers
  <2>3. QED
    BY <1>2, <2>1, <2>2
<1>4. CASE Token
  <2>1. UNCHANGED <<epVars, setup, rxstp, addrVars, intVars, bus, broken>>
    BY <1>4 DEF Token
  <2>2. xfer.req.arg \in Nat /\ xfer.req.color \in Colors \cup {NoColor}
    BY <1>1, RequestType DEF HostOK, Transfers
  <2>3. ControllerOK'
    <3>1. CASE Stalled
      BY <1>1, <2>1, <3>1 DEF Stalled, ControllerOK, epVars, addrVars, intVars
    <3>2. CASE TakeIN
      BY <1>1, <2>1, <3>2, TakeFacts DEF ControllerOK, RequestOrNone, epVars,
         addrVars, intVars
    <3>3. CASE GiveOUT
      BY <1>1, <2>1, <2>2, <3>3, GiveFacts DEF ControllerOK, epVars, addrVars,
         intVars
    <3>4. QED
      BY <1>4, <3>1, <3>2, <3>3 DEF Token
  <2>4. CASE Stalled
    <3>1. xfer' \in Transfers
      BY <1>1, <2>4 DEF Stalled, HostOK, Transfers
    <3>2. QED
      BY <1>1, <1>2, <2>1, <2>3, <2>4, <3>1 DEF Stalled, HostOK, Transfers
  <2>5. ASSUME NEW by \in RequestOrNone, Complete(by)
        PROVE  HostOK'
    <3>1. xfer' \in Transfers
      BY <1>1, <2>5 DEF Complete, HostOK, Transfers
    <3>2. {hostAddr', hostConf'} \subseteq Nat
          /\ agreed' \in Colors \cup {NoColor}
      BY <1>1, <2>2, <2>5 DEF Complete, HostOK
    <3>3. QED
      BY <1>1, <2>1, <3>1, <3>2 DEF HostOK, Transfers
  <2>6. CASE TakeIN /\ xfer.stage = "in"
    <3>1. xfer.wants - 1 \in Nat
      BY <1>1, <2>6 DEF StageInv, HostOK, Transfers
    <3> DEFINE w == xfer.wants - 1
    <3>2. xfer' = [xfer EXCEPT !.wants = w, !.by = inPkt,
                     !.stage = IF xfer.wants = 1 THEN "statusOut" ELSE "in"]
      BY <2>6 DEF TakeIN
    <3>3. w \in Nat
      BY <3>1
    <3> HIDE DEF w
    <3>4. xfer' \in Transfers
      BY <1>1, <3>2, <3>3 DEF HostOK, ControllerOK, Transfers, Stages
    <3>5. HostOK'
      BY <1>1, <2>1, <2>6, <3>4, TakeFacts DEF HostOK, Transfers
    <3>6. QED
      BY <1>2, <2>3, <3>5
  <2>7. CASE GiveOUT /\ xfer.stage = "out"
    <3>1. xfer.wants - 1 \in Nat
      BY <1>1, <2>7 DEF StageInv, HostOK, Transfers
    <3> DEFINE w == xfer.wants - 1
    <3>2. xfer' = [xfer EXCEPT !.wants = w,
                     !.stage = IF xfer.wants = 1 THEN "statusIn" ELSE "out"]
      BY <2>7 DEF GiveOUT
    <3>3. w \in Nat
      BY <3>1
    <3> HIDE DEF w
    <3>4. xfer' \in Transfers
      BY <1>1, <3>2, <3>3 DEF HostOK, Transfers, Stages
    <3>5. HostOK'
      BY <1>1, <2>1, <2>7, <3>4, GiveFacts DEF HostOK, Transfers
    <3>6. QED
      BY <1>2, <2>3, <3>5
  <2>8. inPkt \in RequestOrNone /\ xfer.by \in RequestOrNone
    BY <1>1 DEF ControllerOK, HostOK, Transfers
  <2>9. QED
    BY <1>1, <1>2, <1>4, <2>3, <2>4, <2>5, <2>6, <2>7, <2>8, TakeFacts, GiveFacts
       DEF Token
<1>5. CASE Abort \/ BusEvent
  <2>1. BreakOff
    BY <1>5 DEF Abort, BusEvent, Plug, Unplug, Reset, Suspend, Resume
  <2>2. HostOK'
    <3>1. xfer' \in Transfers /\ agreed' = agreed /\ broken' \in BOOLEAN
      BY <1>1, <2>1 DEF BreakOff, NoTransfer, HostOK, Transfers, RequestOrNone
    <3>2. QED
      BY <1>1, <1>5, <3>1 DEF HostOK, Abort, BusEvent, Plug, Unplug, Reset,
         Suspend, Resume
  <2>3. ControllerOK'
    <3>1. epType' \in [Endpoints -> EndpointTypes]
      BY <1>1, <1>5 DEF ControllerOK, EndpointTypes, Abort, BusEvent, Plug,
         Unplug, Reset, Suspend, Resume
    <3>2. QED
      BY <1>1, <1>5, <2>1, <3>1 DEF BreakOff, ControllerOK, EndpointTypes, Abort,
         BusEvent, Plug, Unplug, Reset, Suspend, Resume, packetVars, intVars
  <2>4. QED
    BY <1>2, <2>2, <2>3
<1>6. QED
  BY <1>3, <1>4, <1>5 DEF Host

LEMMA StageStep ==
  ASSUME Typed, Next \/ UNCHANGED vars
  PROVE  StageInv'
<1>1. StageInv /\ TypeOK /\ HandlerOK'
  BY HandlerStep DEF Typed
<1>2. CASE xfer' = xfer
  BY <1>1, <1>2 DEF HandlerOK, StageInv, Pending, Stages
<1>3. CASE SendSetup
  <2>1. /\ xfer'.stage \in {"in", "out", "statusIn"}
        /\ xfer'.stage = "in" => setup'.name \in ReadNames
        /\ xfer'.stage = "out" => setup'.name = "SetReport" /\ setup'.arg # 0
        /\ xfer'.stage = "statusIn" => setup'.name \notin ReadNames
    BY <1>3, SetupFacts DEF FirstStage
  <2>2. xfer'.stage \in {"in", "out"} => xfer'.wants # 0
    <3>1. setup' \in RequestOrNone
      BY <1>3, SetupFacts DEF RequestOrNone
    <3>2. setup'.arg \in Nat
      BY <3>1, RequestType
    <3>3. setup'.name = "SetReport" => (Packets(setup') = 0 <=> setup'.arg = 0)
      BY <3>1, PacketsType
    <3>4. xfer'.wants \in Wants(setup') /\ xfer'.stage = FirstStage(setup')
      BY <1>3, SetupFacts
    <3>5. QED
      BY <3>2, <3>3, <3>4 DEF Wants, FirstStage, ReadNames
  <2>3. QED
    BY <1>1, <1>3, <2>1, <2>2, SetupFacts DEF HandlerOK, StageInv, Pending
<1>4. CASE Token
  <2>2. ASSUME NEW by, Complete(by)
        PROVE  StageInv'
    BY <1>1, <2>2, CompleteFacts DEF HandlerOK, StageInv, Pending, Stages
  <2>3. CASE Stalled
    BY <1>1, <2>3, StalledFacts DEF HandlerOK, StageInv, Pending, Stages
  <2>4. CASE TakeIN /\ xfer.stage = "in"
    <3>1. xfer.wants \in Nat
      BY <1>1 DEF TypeOK, HostOK, Transfers
    <3>2. QED
      BY <1>1, <2>4, <3>1, TakeFacts DEF HandlerOK, StageInv, Pending, Stages
  <2>5. CASE GiveOUT /\ xfer.stage = "out"
    <3>1. xfer.wants \in Nat
      BY <1>1 DEF TypeOK, HostOK, Transfers
    <3>2. QED
      BY <1>1, <2>5, <3>1, GiveFacts DEF HandlerOK, StageInv, Pending, Stages,
         ReadNames
  <2>6. QED
    BY <1>1, <1>4, <2>2, <2>3, <2>4, <2>5, TakeFacts, GiveFacts DEF Token
<1>5. CASE BreakOff
  BY <1>1, <1>5, BreakFacts DEF HandlerOK, StageInv, Pending, Stages
<1>6. QED
  BY <1>2, <1>3, <1>4, <1>5 DEF Next, UsbGen, Main, Host, Abort, BusEvent, Plug,
     Unplug, Reset, Suspend, Resume, hostVars, vars

-----------------------------------------------------------------------------
(* Where the main loop goes.                                               *)

LEMMA SamePlace == ASSUME UNCHANGED <<pc, todo>> PROVE Place' = Place
BY DEF Place

LEMMA StepPlace ==
  ASSUME Typed, ControlStep \/ StoringStep
  PROVE  /\ request' = request /\ Supported(request) /\ request \in Requests
         /\ Place \in StepNames
         /\ \A p \in StepNames : Now(p) <=> Place = p
         /\ \E q : Follows(request.name, Place, q)
         /\ Continue(Tail(todo)) => Follows(request.name, Place, Place')
         /\ Continue(Tail(Tail(todo))) /\ Place \in {"receive", "send"} =>
              Escape(Place, Place')
         /\ UNCHANGED <<pc, todo>> => Place' = Place
<1>1. HandlerOK
  BY TypedHandler
<1>2. todo # <<>> /\ request' = request
  BY DEF ControlStep, ClearSETUP, Receive, AwaitIN, Send, AwaitOUT, ClearIN,
     ClearOUT, StatusIN, StatusOUT, SpinIN, Now, StoringStep, StoreStep, Commit,
     StoreHid, StoreWakeup, SetDeviceAddress, EnableDeviceAddress, SetNumber,
     ChooseState, StoreState, SelectIN, LoadEnables, StoreEnables,
     SelectEndpoint, Halt, ReadStall, ConfigureStep, ConfigureIN, RewriteHigher
<1>3. Supported(request) /\ request \in Requests
  BY <1>1, <1>2 DEF HandlerOK
<1>4. QED
  BY <1>1, <1>2, <1>3, Places, HandlerMove, SamePlace

(* The steps that use only the control endpoint.                           *)
ControlPlaces ==
  {"clearSETUP", "receive", "awaitIN", "send", "awaitOUT", "clearIN",
   "clearOUT", "statusIN", "statusOUT", "spinIN"}

LEMMA ControlPlace ==
  ASSUME Typed, ControlStep
  PROVE  /\ Place \in ControlPlaces
         /\ \/ Follows(request.name, Place, Place')
            \/ Escape(Place, Place')
            \/ Place \in {"receive", "send"} /\ Place' = Place
<1>1. \A p \in ControlPlaces : Now(p) <=> Place = p
  BY StepPlace DEF ControlPlaces, StepNames
<1>2. Place \in ControlPlaces
  BY <1>1 DEF ControlPlaces, ControlStep, ClearSETUP, Receive, AwaitIN, Send,
     AwaitOUT, ClearIN, ClearOUT, StatusIN, StatusOUT, SpinIN
<1>3. \/ Continue(Tail(todo))
      \/ Continue(Tail(Tail(todo))) /\ Place \in {"receive", "send"}
      \/ UNCHANGED <<pc, todo>> /\ Place \in {"receive", "send"}
  BY <1>1 DEF ControlPlaces, ControlStep, ClearSETUP, Receive, AwaitIN, Send,
     AwaitOUT, ClearIN, ClearOUT, StatusIN, StatusOUT, SpinIN
<1>4. QED
  BY <1>2, <1>3, StepPlace

(* The steps that store what a request sets, variable by variable.         *)
StorePlaces == StepNames \ ControlPlaces

LEMMA StorePlace ==
  ASSUME Typed, StoringStep
  PROVE  /\ Place \in StorePlaces
         /\ \/ Follows(request.name, Place, Place')
            \/ Place = "rewriteHigher" /\ Place' = "rewriteHigher"
<1>1. \A p \in StepNames : Now(p) <=> Place = p
  BY StepPlace
<1>2. Place \in StorePlaces
  BY <1>1 DEF StorePlaces, ControlPlaces, StepNames, StoringStep, StoreStep,
     Commit, StoreHid, StoreWakeup, SetDeviceAddress, EnableDeviceAddress,
     SetNumber, ChooseState, StoreState, SelectIN, LoadEnables, StoreEnables,
     SelectEndpoint, Halt, ReadStall, ConfigureStep, ConfigureIN, RewriteHigher
<1>3. \/ Continue(Tail(todo))
      \/ UNCHANGED <<pc, todo>> /\ Place = "rewriteHigher"
  BY <1>1 DEF StepNames, StoringStep, StoreStep, ConfigureStep, ConfigureIN,
     RewriteHigher
<1>4. QED
  BY <1>2, <1>3, StepPlace

(* The steps that write the registers of endpoints.                        *)
Configuring == {"configureIN", "rewriteHigher"}

LEMMA ConfigurePlace ==
  ASSUME Typed, ConfigureStep
  PROVE  /\ Place \in Configuring
         /\ ConfigureIN <=> Place = "configureIN"
         /\ RewriteHigher <=> Place = "rewriteHigher"
         /\ selected' # 0
<1>1. \A p \in StepNames : Now(p) <=> Place = p
  BY StepPlace DEF StoringStep
<1>2. Now("rewriteHigher") => left \in 1 .. 5
  BY DEF Typed, TypeOK, MainOK
<1>3. QED
  BY <1>1, <1>2 DEF Configuring, StepNames, ConfigureStep, ConfigureIN,
     RewriteHigher

LEMMA StoreFacts ==
  ASSUME Typed, StoringStep
  PROVE  /\ UNCHANGED <<request, setup, outPkt, inPkt, eorsti, vbusti>>
         /\ \/ UNCHANGED <<rxstp, rxout, txin>>
            \/ /\ Place \in Configuring /\ selected = 0
               /\ ~ rxstp' /\ ~ rxout' /\ txin'
         /\ Place = "selectIN" => selected' = 1
         /\ Place \in Configuring => selected' # 0
         /\ Place = "selectEndpoint" => selected' = request.arg
         /\ Place \in {"halt", "readStall"} => selected' = 0
         /\ Place \notin Configuring
                        \cup {"selectIN", "selectEndpoint", "halt", "readStall"} =>
              selected' = selected
         /\ devState' = IF Place = "storeState" THEN chosen ELSE devState
         /\ confNumber' = IF Place = "setNumber" THEN request.arg ELSE confNumber
         /\ Place = "chooseState" => chosen' = AwakeState
         /\ colors' = IF Place = "commit" /\ SetsColor(request) THEN report
                                                               ELSE colors
         /\ Place # "commit" => report' = report
         /\ addEn' # addEn => Place = "enableAddress"
<1>1. \A p \in StepNames : Now(p) <=> Place = p
  BY StepPlace
<1>2. CASE ConfigureStep
  <2>1. Place \in Configuring /\ selected' # 0
    BY <1>2, ConfigurePlace
  <2>2. UNCHANGED <<request, setup, outPkt, inPkt, eorsti, vbusti, devState,
                    confNumber, chosen, colors, report, addEn>>
    BY <1>2 DEF ConfigureStep, deviceVars, addrVars, intVars
  <2>3. \/ UNCHANGED <<rxstp, rxout, txin>>
        \/ selected = 0 /\ ~ rxstp' /\ ~ rxout' /\ txin'
    BY <1>2 DEF ConfigureStep, ConfigureIN, RewriteHigher, Configured
  <2>4. QED
    BY <2>1, <2>2, <2>3 DEF Configuring
<1>3. CASE StoreStep
  <2> USE <1>1, <1>3 DEF StepNames, StoreStep, Commit, StoreHid, StoreWakeup,
          SetDeviceAddress, EnableDeviceAddress, SetNumber, ChooseState,
          StoreState, SelectIN, LoadEnables, StoreEnables, SelectEndpoint, Halt,
          ReadStall, deviceVars, epVars, addrVars
  <2>1. /\ UNCHANGED <<request, setup, outPkt, inPkt, eorsti, vbusti>>
        /\ UNCHANGED <<rxstp, rxout, txin>>
        /\ Place \notin Configuring
    BY DEF Configuring
  <2>2. /\ Place = "selectIN" => selected' = 1
        /\ Place = "selectEndpoint" => selected' = request.arg
        /\ Place \in {"halt", "readStall"} => selected' = 0
        /\ Place \notin {"selectIN", "selectEndpoint", "halt", "readStall"} =>
             selected' = selected
    BY DEF EndpointAfterHalt, EndpointAfterStatus
  <2>3. /\ devState' = IF Place = "storeState" THEN chosen ELSE devState
        /\ confNumber' = IF Place = "setNumber" THEN request.arg ELSE confNumber
        /\ Place = "chooseState" => chosen' = AwakeState
    OBVIOUS
  <2>4. /\ colors' = IF Place = "commit" /\ Accepts(request) THEN report
                                                              ELSE colors
        /\ Place # "commit" => report' = report
        /\ addEn' # addEn => Place = "enableAddress"
    OBVIOUS
  <2>5. Place = "commit" => (Accepts(request) <=> SetsColor(request))
    <3>1. Place = "commit" => request.name = "SetReport"
      BY StepPlace DEF StoringStep, Follows
    <3>2. QED
      BY <3>1 DEF Accepts, SetsColor
  <2>6. QED
    BY <2>1, <2>2, <2>3, <2>4, <2>5
<1>4. QED
  BY <1>2, <1>3 DEF StoringStep

(* The endpoints a step changes.                                           *)
LEMMA StoreEndpoints ==
  ASSUME Typed, StoringStep
  PROVE  /\ epStalled'[0] # epStalled[0] =>
              Place \in {"halt"} \cup Configuring /\ selected = 0
         /\ Place \notin Configuring => epType' = epType
         /\ Place = "configureIN" => epType'[selected] = "interrupt"
         /\ epType'[1] # epType[1] => epType'[1] = "interrupt"
<1>1. \A p \in StepNames : Now(p) <=> Place = p
  BY StepPlace
<1>2. /\ epType \in [Endpoints -> EndpointTypes]
      /\ epStalled \in [Endpoints -> BOOLEAN]
      /\ selected \in Endpoints /\ 0 \in Endpoints /\ 1 \in Endpoints
  BY DEF Typed, TypeOK, ControllerOK, Endpoints, EndpointTypes
<1>3. CASE ConfigureStep
  <2>1. CASE ConfigureIN
    BY <1>2, <1>3, <2>1, ConfigurePlace DEF ConfigureIN, Configured
  <2>2. CASE RewriteHigher
    BY <1>2, <1>3, <2>2, ConfigurePlace DEF RewriteHigher, Configured, Rewritten
  <2>3. QED
    BY <1>3, <2>1, <2>2 DEF ConfigureStep
<1>4. CASE StoreStep /\ Halt
  BY <1>1, <1>2, <1>4 DEF Halt, StepNames, Configuring
<1>5. CASE StoreStep /\ ~ Halt
  BY <1>1, <1>5 DEF StepNames, StoreStep, Commit, StoreHid, StoreWakeup,
     SetDeviceAddress, EnableDeviceAddress, SetNumber, ChooseState, StoreState,
     SelectIN, LoadEnables, StoreEnables, SelectEndpoint, ReadStall, epVars,
     Configuring
<1>6. QED
  BY <1>3, <1>4, <1>5 DEF StoringStep

(* The steps on the control endpoint, variable by variable.                *)
LEMMA ControlFacts ==
  ASSUME Typed, ControlStep
  PROVE  /\ UNCHANGED <<request, setup, selected, epType, epStalled, outPkt, addEn,
                       devState, confNumber, colors, chosen, eorsti, vbusti>>
         /\ rxstp' = (IF Place = "clearSETUP" THEN FALSE ELSE rxstp)
         /\ \/ UNCHANGED <<txin, inPkt>>
            \/ /\ Place \in {"clearIN", "send", "statusIN"}
               /\ Place = "send" => ~ rxstp
               /\ txin /\ ~ txin' /\ inPkt' = request
         /\ Place = "clearIN" => ~ txin'
         /\ Place = "statusIN" => ~ txin'
         /\ Place = "spinIN" => txin
         /\ Place \in {"clearOUT", "statusOUT"} => ~ rxout'
         /\ Place \notin {"clearOUT", "statusOUT", "receive"} => rxout' = rxout
         /\ Place # "receive" => report' = report
<1>1. \A p \in ControlPlaces : Now(p) <=> Place = p
  BY StepPlace DEF ControlPlaces, StepNames
<1>2. UNCHANGED <<request, setup, selected, epType, epStalled, outPkt, addEn,
                  devState, confNumber, colors, chosen, eorsti, vbusti>>
  BY DEF ControlStep, epVars, deviceVars, addrVars, intVars
<1> USE <1>1 DEF ControlPlaces, ControlStep, ClearSETUP, Receive, AwaitIN, Send,
        AwaitOUT, ClearIN, ClearOUT, StatusIN, StatusOUT, SpinIN, SendIN
<1>3. rxstp' = (IF Place = "clearSETUP" THEN FALSE ELSE rxstp)
  OBVIOUS
<1>4. \/ UNCHANGED <<txin, inPkt>>
      \/ /\ Place \in {"clearIN", "send", "statusIN"}
         /\ Place = "send" => ~ rxstp
         /\ txin /\ ~ txin' /\ inPkt' = request
  OBVIOUS
<1>5. /\ Place = "clearIN" => ~ txin'
      /\ Place = "statusIN" => ~ txin'
      /\ Place = "spinIN" => txin
      /\ Place \in {"clearOUT", "statusOUT"} => ~ rxout'
      /\ Place \notin {"clearOUT", "statusOUT", "receive"} => rxout' = rxout
      /\ Place # "receive" => report' = report
  OBVIOUS
<1>6. QED
  BY <1>2, <1>3, <1>4, <1>5

LEMMA DispatchPlace ==
  ASSUME Typed, ProcessClassRequest \/ ProcessStandardRequest
  PROVE  /\ request' = request /\ UNCHANGED selected /\ UNCHANGED rxstp
         /\ Place \in {"event", "standard"}
         /\ \/ /\ SetupReceived /\ Supported(request) /\ request \in Requests
               /\ Place = "event" => request.name \in ClassNames
               /\ Place = "standard" => request.name \in StandardNames
               /\ Begins(request.name, Place')
            \/ /\ Place = "event" /\ Place' = "standard" /\ todo' = <<>>
               /\ ~ (SetupReceived /\ request.name \in ClassNames
                                   /\ Supported(request))
            \/ /\ Place = "standard" /\ Place' = "final" /\ todo' = <<>>
               /\ ~ (SetupReceived /\ request.name \in StandardNames
                                   /\ Supported(request))
<1>1. HandlerOK
  BY TypedHandler
<1>2. /\ request' = request /\ UNCHANGED selected /\ UNCHANGED rxstp
      /\ todo = <<>> /\ Place = pc /\ Place \in {"event", "standard"}
  BY <1>1, Places DEF HandlerOK, ProcessClassRequest, ProcessStandardRequest,
     Dispatch, epVars, packetVars
<1>3. todo' = <<>> => Place' = pc'
  BY DEF Place
<1>4. ASSUME NEW n \in ClassNames \cup StandardNames,
             request.name = n, Supported(request), todo' = Handler[n],
             pc' = IF n \in ClassNames THEN "class" ELSE "handler"
      PROVE  request \in Requests /\ Begins(n, Place')
  <2>1. request \in Requests
    BY <1>4, RequestType DEF Typed, TypeOK, MainOK, ClassNames, StandardNames
  <2>2. QED
    BY <1>2, <1>4, <2>1, HandlerEnter
<1>5. CASE ProcessClassRequest
  BY <1>2, <1>3, <1>4, <1>5 DEF ProcessClassRequest, Dispatch
<1>6. CASE ProcessStandardRequest
  <2>1. request.name \in StandardNames => request.name \notin ClassNames
    BY DEF StandardNames, ClassNames
  <2>2. QED
    BY <1>2, <1>3, <1>4, <1>6, <2>1 DEF ProcessStandardRequest, Dispatch
<1>7. QED
  BY <1>5, <1>6

LEMMA TaskPlace ==
  ASSUME Typed, HidTask \/ DeviceTask \/ Final
  PROVE  /\ HidTask => Place = "hid" /\ Place' = "task"
         /\ DeviceTask => Place = "task" /\ Place' \in {"hid", "event"}
                          /\ (Place' = "event" <=> devState # "Unattached" /\ rxstp)
         /\ Final => Place = "final" /\ Place' = "hid"
BY TypedHandler DEF HandlerOK, HidTask, DeviceTask, Final, Place

(* No other step leaves a place.                                           *)
LEMMA OtherPlace ==
  ASSUME Typed, UsbGen \/ Host \/ UNCHANGED vars
  PROVE  Place' = Place /\ request' = request
BY SamePlace DEF UsbGen, Host, vars

(* The loop over the higher endpoints has one to five rounds left.         *)
LEMMA RoundStep ==
  ASSUME Typed, Next \/ UNCHANGED vars
  PROVE  (Now("rewriteHigher") => left \in 1 .. 5)'
<1>1. /\ Now("rewriteHigher") => left \in 1 .. 5
      /\ Now("rewriteHigher")' => Place' = "rewriteHigher"
  BY DEF Typed, TypeOK, MainOK, Now, Place
<1>2. CASE ControlStep
  BY <1>1, <1>2, ControlPlace DEF ControlPlaces, Follows, Escape, End
<1>3. CASE StoreStep
  <2>1. \A p \in StepNames : Now(p) <=> Place = p
    BY <1>3, StepPlace DEF StoringStep
  <2>2. Place \notin Configuring
    BY <1>3, <2>1 DEF StepNames, StoreStep, Commit, StoreHid, StoreWakeup,
       SetDeviceAddress, EnableDeviceAddress, SetNumber, ChooseState, StoreState,
       SelectIN, LoadEnables, StoreEnables, SelectEndpoint, Halt, ReadStall,
       Configuring
  <2>3. QED
    BY <1>1, <1>3, <2>2, StorePlace
    DEF StoringStep, StorePlaces, ControlPlaces, StepNames, Follows, End,
        Configuring
<1>4. CASE ConfigureIN
  BY <1>4 DEF ConfigureIN
<1>5. CASE ConfigureStep /\ RewriteHigher
  <2>1. CASE left = 1
    <3>1. Place = "rewriteHigher" /\ Continue(Tail(todo))
      BY <1>5, <2>1, ConfigurePlace DEF RewriteHigher
    <3>2. Place' = "loadEnables"
      BY <1>5, <3>1, StepPlace DEF StoringStep, Follows
    <3>3. QED
      BY <1>1, <3>2
  <2>2. CASE left # 1
    BY <1>1, <1>5, <2>2 DEF RewriteHigher
  <2>3. QED
    BY <2>1, <2>2
<1>6. CASE ProcessClassRequest \/ ProcessStandardRequest
  BY <1>1, <1>6, DispatchPlace DEF Begins
<1>7. CASE HidTask \/ DeviceTask \/ Final
  BY <1>1, <1>7, TaskPlace
<1>8. CASE UsbGen \/ Host \/ UNCHANGED vars
  BY <1>1, <1>8 DEF UsbGen, Host, vars, localVars, Now
<1>9. QED
  BY <1>2, <1>3, <1>4, <1>5, <1>6, <1>7, <1>8 DEF Next, Main, ConfigureStep

LEMMA TypeStep ==
  ASSUME Typed, Next \/ UNCHANGED vars
  PROVE  TypeOK'
<1>1. HandlerOK' /\ LocalsOK' => MainOK'
  BY RoundStep DEF HandlerOK, LocalsOK, MainOK
<1>2. LocalsOK /\ DeviceOK /\ ControllerOK /\ HostOK
  BY DEF Typed, TypeOK, MainOK, LocalsOK
<1>3. Main => HostOK'
  BY <1>2 DEF Main, HostOK, hostVars
<1>4. UNCHANGED vars => LocalsOK' /\ DeviceOK' /\ ControllerOK' /\ HostOK'
  BY <1>2 DEF LocalsOK, DeviceOK, ControllerOK, HostOK, vars, localVars,
     deviceVars, epVars, packetVars, addrVars, intVars, hostVars
<1>5. QED
  BY <1>1, <1>3, <1>4, HandlerStep, StepTypes, InterruptTypes, HostTypes
     DEF Next, TypeOK
=============================================================================

----------------------------- MODULE HidSample ------------------------------
(***************************************************************************)
(* Main of the sample program HIDSample, a program that uses HidLib: it    *)
(* looks for the LED strip in the list of devices, sends it one report,    *)
(* and disposes of what it has opened by `using`.  An exception anywhere   *)
(* ends the program.                                                       *)
(***************************************************************************)
EXTENDS HidLib

CONSTANTS
  Strip      \* The devices whose path has the vendor and product searched.

ASSUME StripAssumption == Strip \subseteq Paths

VARIABLES
  at,        \* Where Main is; "elsewhere" in any other program.
  (* History: the devices that have got the report of Main, and whether    *)
  (* its loop ended before the list did.                                   *)
  told, failed

sampleVars == <<vars, at, told, failed>>

Goto(from, to) == at = from /\ at' = to

GetSet ==
  /\ Goto("getSet", "foreach")
  /\ \E s \in Sets : GetByClass(s)
  /\ UNCHANGED <<told, failed>>

Foreach ==
  /\ Goto("foreach", "loop")
  /\ \E s \in Sets : GetEnumerator(s)
  /\ UNCHANGED <<told, failed>>

NextDevice ==
  /\ at = "loop"
  /\ MoveNext
  /\ at' = IF info' \in Strip THEN "getDevice" ELSE "loop"
  /\ UNCHANGED <<told, failed>>

(* The enumeration fails: at the end of the list, but also anywhere else,  *)
(* and at once if Windows has made no list.                                *)
EndOfList ==
  /\ Goto("loop", "disposeSet")
  /\ ForgetEnumerator
  /\ failed' = (MoreDevices \/ ~ HasList)
  /\ UNCHANGED told

OpenDevice ==
  /\ Goto("getDevice", "write")
  /\ \E d \in Devs : GetDevice(d) /\ device'[d].life = "held"
  /\ UNCHANGED <<told, failed>>

(* Four bytes, which may be less than a report of the device.              *)
WriteColor ==
  /\ Goto("write", "disposeDevice")
  /\ \E d \in Devs :
       \/ WriteThrough(d) /\ told' = told \cup {device[d].path}
       \/ WriteBuffered(d) /\ UNCHANGED told
  /\ UNCHANGED failed

(* Mutation: only one of the two objects is in a `using`.                  *)
AfterDevicePrompt == "prompt"

AfterDevice == "disposeSet"

(* The end of the inner `using`, and the break.                            *)
EndDevice ==
  /\ Goto("disposeDevice", AfterDevice)
  /\ \E d \in Devs :
       /\ DisposeDevice(d)
       /\ told' = IF Flushes(d) THEN told \cup {device[d].path} ELSE told
  /\ UNCHANGED failed

EndSet ==
  /\ Goto("disposeSet", "prompt")
  /\ \E s \in Sets : DisposeSet(s)
  /\ UNCHANGED <<told, failed>>

Main ==
  \/ GetSet \/ Foreach \/ NextDevice \/ EndOfList
  \/ OpenDevice \/ WriteColor \/ EndDevice \/ EndSet

(* A key is pressed at the prompt, or something threw: the next program    *)
(* may be any.                                                             *)
EndOfProgram ==
  Exit /\ at' \in {"elsewhere", "getSet"} /\ told' = {} /\ failed' = FALSE

OtherProgram == at = "elsewhere" /\ Program /\ UNCHANGED <<at, told, failed>>

SampleInit ==
  Init /\ at \in {"elsewhere", "getSet"} /\ told = {} /\ failed = FALSE

SampleNext ==
  \/ Main \/ EndOfProgram \/ OtherProgram
  \/ World /\ UNCHANGED <<at, told, failed>>

SampleSpec == SampleInit /\ [][SampleNext]_sampleVars

-----------------------------------------------------------------------------
(* Properties.                                                             *)

ListsStrip(paths) == \E i \in DOMAIN paths : paths[i] \in Strip

(* Main has a list, and there is no strip in it.                           *)
NoStripListed ==
  \E l \in Lists : list[l] # Closed /\ ~ ListsStrip(list[l])

(* Main, when it has left its loop, has sent its report to a strip, or its *)
(* loop ended early, or Windows made a list for it with no strip in it;    *)
(* and it sends nothing to any other device.                               *)
StripTold ==
  /\ told \subseteq Strip
  /\ at = "disposeSet" /\ told = {} /\ ~ failed => NoStripListed

(* Main holds nothing at its prompt, where it may wait for ever: no list   *)
(* and no device stays open for the finalizers, whichever way it came.     *)
CleanAtPrompt ==
  at = "prompt" =>
    /\ \A l \in Lists : list[l] = Closed
    /\ \A f \in Files : file[f] = Closed
    /\ owed = {}

(* The inductive invariant about Main: what it holds at each place.        *)
MainHolds ==
  /\ \A s \in Sets : infoSet[s].life \in {"absent", "held"}
  /\ \A d \in Devs : device[d].life \in {"absent", "held"}
  /\ \A s, t \in Sets : infoSet[s].life = "held" /\ infoSet[t].life = "held" => s = t
  /\ \A d, e \in Devs : device[d].life = "held" /\ device[e].life = "held" => d = e
  /\ at = "getSet" => \A s \in Sets : infoSet[s].life = "absent"
  /\ at \in {"getSet", "foreach", "loop", "getDevice"} =>
       \A d \in Devs : device[d].life = "absent"
  /\ at \in {"disposeSet", "prompt"} => \A d \in Devs : device[d].disposed
  /\ at = "prompt" => \A s \in Sets : infoSet[s].disposed

SampleInv == at # "elsewhere" => MainHolds

(* What Main has done at each place: the devices it has passed by in its   *)
(* list are no strips; the one Device it has is a strip, and if that has   *)
(* not got the report when it is disposed of, the report is in a buffer    *)
(* that the disposal writes.                                               *)
Searched ==
  /\ told \subseteq Strip
  /\ at \in {"getSet", "foreach", "loop", "getDevice", "write"} => told = {}
  /\ at = "loop" =>
       /\ enum.set \in Sets /\ infoSet[enum.set].life = "held"
       /\ infoSet[enum.set].handle \in Lists =>
            \A i \in 1 .. enum.next : list[infoSet[enum.set].handle][i] \notin Strip
  /\ at = "getDevice" => info \in Strip
  /\ at \in {"write", "disposeDevice"} =>
       \A d \in Devs : device[d].life = "held" =>
         device[d].path \in Strip /\ ~ device[d].disposed
  /\ at = "disposeDevice" /\ told = {} =>
       \A d \in Devs : device[d].life = "held" => Flushes(d)
  /\ at = "disposeSet" /\ told = {} /\ ~ failed => NoStripListed

MainInv == SampleInv /\ Searched
=============================================================================

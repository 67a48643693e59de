------------------------------- MODULE HidLib -------------------------------
(***************************************************************************)
(* The Windows library HIDLib and a program that uses it: DeviceInfoSet    *)
(* holds a raw handle of a list of devices, Device one file handle that it *)
(* shares with the two streams it offers.  Windows gives a value of a      *)
(* handle out again once it is closed, opens a device to one file at a     *)
(* time (share mode 0), and may fail to list, open, read or write; devices *)
(* are unplugged and plugged in; the .NET runtime (external) finalizes in  *)
(* its own time what the program no longer reaches.                        *)
(*                                                                         *)
(* The program has one thread, one enumerator at a time, and leaves the    *)
(* closing of the streams to the Device.                                   *)
(***************************************************************************)
EXTENDS Integers, Sequences, FiniteSets

CONSTANTS
  Sets,      \* Objects of class DeviceInfoSet.
  Devs,      \* Objects of class Device.
  Lists,     \* Values of the handle of a list of devices.
  Files,     \* Values of the handle of a file.
  Paths,     \* Names of the devices of the HID class.
  Kinds,     \* The kinds of reports devices have: sets of "in", "out".
  Null,      \* IntPtr.Zero.
  Invalid,   \* INVALID_HANDLE_VALUE.
  NoPath,    \* No device.
  Closed,    \* What a handle stands for that is not open,
  Unplugged  \* and one whose device was unplugged.

ASSUME HandleAssumption == {Null, Invalid} \cap (Lists \cup Files) = {}
ASSUME KindAssumption == Kinds \subseteq SUBSET {"in", "out"}
ASSUME PathAssumption ==
  /\ IsFiniteSet(Paths)
  /\ {NoPath, Closed, Unplugged} \cap Paths = {}
  /\ Closed # Unplugged

VARIABLES
  (* The objects, the enumerator of the program, and the DeviceInfo it got *)
  (* last (its path).                                                      *)
  infoSet, device, enum, info,
  (* Windows: the lists and files open under each handle, and the devices  *)
  (* plugged in.                                                           *)
  list, file, plugged,
  (* History: the Devices that hold bytes which the program has written    *)
  (* and which have neither reached the device nor ended in an exception.  *)
  owed

objectVars  == <<infoSet, device, enum, info>>
windowsVars == <<list, file, plugged>>
vars        == <<objectVars, windowsVars, owed>>

(* "absent": not allocated; "held": the program refers to it; "stream": to *)
(* its output stream alone; "dropped": to nothing of it.                   *)
NoSet    == [life |-> "absent", handle |-> Null, disposed |-> TRUE]
NoDevice == [life |-> "absent", file |-> Invalid, path |-> NoPath,
             streams |-> {}, buffered |-> FALSE, disposed |-> TRUE]
NoEnum   == [set |-> Null, next |-> 0]

(* The devices of a list, in the order Windows has found them.             *)
Listings(S) ==
  {q \in [1 .. Cardinality(S) -> S] :
     \A i, j \in 1 .. Cardinality(S) : q[i] = q[j] => i = j}

ASSUME ClosedAssumption == \A S \in SUBSET Paths : Closed \notin Listings(S)

Init ==
  /\ infoSet = [s \in Sets |-> NoSet]
  /\ device = [d \in Devs |-> NoDevice]
  /\ enum = NoEnum /\ info = NoPath
  /\ list = [l \in Lists |-> Closed]
  /\ file = [f \in Files |-> Closed]
  /\ plugged \in SUBSET Paths
  /\ owed = {}

-----------------------------------------------------------------------------
(* DeviceInfoSet and its enumerator.                                       *)

(* Only IntPtr.Zero is taken for a failure: of what Windows answers, the   *)
(* value that stands for a failure passes.                                 *)
GetByClass(s) ==
  /\ infoSet[s].life = "absent"
  /\ \E handle \in Lists \cup {Invalid} :
       /\ infoSet' = [infoSet EXCEPT ![s] =
                        [life |-> "held", handle |-> handle, disposed |-> FALSE]]
       /\ \/ handle = Invalid /\ UNCHANGED list
          \/ /\ handle \in Lists
             /\ list[handle] = Closed
             /\ \E q \in Listings(plugged) : list' = [list EXCEPT ![handle] = q]
  /\ UNCHANGED <<device, enum, info, file, plugged, owed>>

(* Mutation: the enumeration begins with the second device.                *)
FirstIndexOne == 1

FirstIndex == 0

GetEnumerator(s) ==
  /\ infoSet[s].life = "held"
  /\ enum' = [set |-> s, next |-> FirstIndex]
  /\ UNCHANGED <<infoSet, device, info, windowsVars, owed>>

Reset ==
  /\ enum # NoEnum
  /\ enum' = [enum EXCEPT !.next = 0]
  /\ UNCHANGED <<infoSet, device, info, windowsVars, owed>>

(* There is a list under the handle of the enumerator's set.               *)
HasList ==
  /\ enum # NoEnum
  /\ infoSet[enum.set].handle \in Lists
  /\ list[infoSet[enum.set].handle] # Closed

(* The list has a device at this index.                                    *)
MoreDevices ==
  /\ HasList
  /\ enum.next < Len(list[infoSet[enum.set].handle])

(* MoveNext when SetupDiEnumDeviceInterfaces succeeds and the path can be  *)
(* read.  When the path cannot be read it throws, when the enumeration     *)
(* fails, which is taken for the end of the list wherever it happens, it   *)
(* returns false: both leave the enumerator at the same device.            *)
MoveNext ==
  /\ MoreDevices
  /\ info' = list[infoSet[enum.set].handle][enum.next + 1]
  /\ enum' = [enum EXCEPT !.next = @ + 1]
  /\ UNCHANGED <<infoSet, device, windowsVars, owed>>

ForgetEnumerator ==
  /\ enum # NoEnum
  /\ enum' = NoEnum
  /\ UNCHANGED <<infoSet, device, info, windowsVars, owed>>

(* Mutation: the handle of a disposed set is kept, and disposed of again.  *)
AfterDisposeSame(set) == set

AfterDispose(set) == [set EXCEPT !.handle = Null, !.disposed = TRUE]

(* SetupDiDestroyDeviceInfoList frees whatever list has the handle.        *)
DestroyList(handle) ==
  list' = IF handle \in Lists THEN [list EXCEPT ![handle] = Closed] ELSE list

DisposeSet(s) ==
  /\ infoSet[s].life = "held"
  /\ IF infoSet[s].disposed
     THEN UNCHANGED <<infoSet, list>>
     ELSE /\ DestroyList(infoSet[s].handle)
          /\ infoSet' = [infoSet EXCEPT ![s] = AfterDispose(@)]
  /\ UNCHANGED <<device, enum, info, file, plugged, owed>>

DropSet(s) ==
  /\ infoSet[s].life = "held"
  /\ infoSet' = [infoSet EXCEPT ![s].life = "dropped"]
  /\ UNCHANGED <<device, enum, info, windowsVars, owed>>

(* An enumerator reaches its set.                                          *)
FinalizeSet(s) ==
  /\ infoSet[s].life = "dropped"
  /\ enum.set # s
  /\ IF infoSet[s].disposed THEN UNCHANGED list
                            ELSE DestroyList(infoSet[s].handle)
  /\ infoSet' = [infoSet EXCEPT ![s] = NoSet]
  /\ UNCHANGED <<device, enum, info, file, plugged, owed>>

-----------------------------------------------------------------------------
(* Device and its streams.                                                 *)

(* A Device whose file is closed: its streams only throw.                  *)
Shut(life, disposed) ==
  [NoDevice EXCEPT !.life = life, !.disposed = disposed]

(* The constructor.  Of an object whose constructor throws the program has *)
(* nothing, but it is finalized.                                           *)
OpenFails(d) ==
  /\ device' = [device EXCEPT ![d] = Shut("dropped", FALSE)]
  /\ UNCHANGED file

(* CreateFile has opened the device.                                       *)
Opened(d, f, life, streams) ==
  /\ info \in plugged
  /\ file[f] = Closed
  /\ \A g \in Files : file[g] # info
  /\ file' = [file EXCEPT ![f] = info]
  /\ device' = [device EXCEPT ![d] =
                  [life |-> life, file |-> f, path |-> info,
                   streams |-> streams, buffered |-> FALSE, disposed |-> FALSE]]

NotReadable(d) ==
  \E f \in Files : Opened(d, f, "dropped", {})

(* The constructor of a stream throws.  The output stream comes second.    *)
StreamFails(d) ==
  \E f \in Files : \E streams \in Kinds : \E kind \in streams :
    Opened(d, f, "dropped", IF kind = "in" THEN {} ELSE streams \ {"out"})

(* A device without reports of a kind, or whose capabilities cannot be     *)
(* read, has no stream for them.                                           *)
Constructed(d) ==
  \E f \in Files : \E streams \in Kinds : Opened(d, f, "held", streams)

GetDevice(d) ==
  /\ info # NoPath
  /\ device[d].life = "absent"
  /\ OpenFails(d) \/ NotReadable(d) \/ StreamFails(d) \/ Constructed(d)
  /\ UNCHANGED <<infoSet, enum, info, list, plugged, owed>>

HasOutput(d) == device[d].life \in {"held", "stream"} /\ "out" \in device[d].streams

IsOpen(d) == device[d].file \in Files

(* Whether Windows can take a report for the device.                       *)
Connected(d) == IsOpen(d) /\ file[device[d].file] # Unplugged

(* FileStream.Write of at least a buffer: written at once, after what is   *)
(* in the buffer.  When it throws the buffer is as before.  When a part of *)
(* the bytes fills the buffer, which is written, and the rest stays in it, *)
(* the Device still has buffered bytes: WriteBuffered.                     *)
WriteThrough(d) ==
  /\ HasOutput(d)
  /\ Connected(d)
  /\ device' = [device EXCEPT ![d].buffered = FALSE]
  /\ owed' = owed \ {d}
  /\ UNCHANGED <<infoSet, enum, info, list, file, plugged>>

(* Of less than a buffer: kept.                                            *)
WriteBuffered(d) ==
  /\ HasOutput(d)
  /\ IsOpen(d)
  /\ device' = [device EXCEPT ![d].buffered = TRUE]
  /\ owed' = owed \cup {d}
  /\ UNCHANGED <<infoSet, enum, info, windowsVars>>

(* Mutation: the streams are disposed of in the order they were opened.    *)
DisposeOrderOpened == <<"in", "out", "handle">>

DisposeOrder == <<"out", "in", "handle">>

(* The three share the file handle, and the first one closes it.  If that  *)
(* is the output stream it writes what it has in its buffer first.         *)
Closer(d) ==
  LET has == {i \in 1 .. 3 : DisposeOrder[i] \in device[d].streams \cup {"handle"}}
  IN  DisposeOrder[CHOOSE i \in has : \A j \in has : i <= j]

Flushes(d) == device[d].buffered /\ IsOpen(d) /\ Closer(d) = "out"

(* Mutation: the streams alone are disposed of.                            *)
CloseFileOfStreams(d) ==
  file' = IF IsOpen(d) /\ device[d].streams # {}
          THEN [file EXCEPT ![device[d].file] = Closed] ELSE file

CloseFile(d) ==
  file' = IF IsOpen(d) THEN [file EXCEPT ![device[d].file] = Closed] ELSE file

(* Dispose(bool) when nothing throws.                                      *)
Close(d) ==
  /\ Flushes(d) => Connected(d)
  /\ CloseFile(d)
  /\ IF Flushes(d)
     THEN owed' = owed \ {d}
     ELSE UNCHANGED owed

DisposeDevice(d) ==
  /\ device[d].life = "held"
  /\ IF device[d].disposed
     THEN UNCHANGED <<device, file, owed>>
     ELSE /\ Close(d)
          /\ device' = [device EXCEPT ![d] = Shut("held", TRUE)]
  /\ UNCHANGED <<infoSet, enum, info, list, plugged>>

(* The flush throws: the stream has closed the file all the same, the rest *)
(* of Dispose is not run.                                                  *)
DisposeThrows(d) ==
  /\ device[d].life = "held"
  /\ Flushes(d)
  /\ CloseFile(d)
  /\ device' = [device EXCEPT ![d] = Shut("held", FALSE)]
  /\ owed' = owed \ {d}
  /\ UNCHANGED <<infoSet, enum, info, list, plugged>>

DropDevice(d, life) ==
  /\ device[d].life # life
  /\ device[d].life \in {"held", "stream"}
  /\ life = "stream" => HasOutput(d)
  /\ device' = [device EXCEPT ![d].life = life]
  /\ UNCHANGED <<infoSet, enum, info, windowsVars, owed>>

(* The Device or one of its streams is finalized first; what is in the     *)
(* buffer may or may not be written.  The program keeps a closed stream.   *)
FinalizeDevice(d) ==
  /\ device[d].life = "dropped" \/ (device[d].life = "stream" /\ ~ device[d].disposed)
  /\ CloseFile(d)
  /\ device' = [device EXCEPT ![d] =
                  IF @.life = "dropped" THEN NoDevice ELSE Shut("stream", TRUE)]
  /\ owed' = owed \ {d}
  /\ UNCHANGED <<infoSet, enum, info, list, plugged>>

-----------------------------------------------------------------------------
(* The rest of the world.                                                  *)

Plug(p) ==
  /\ p \notin plugged
  /\ plugged' = plugged \cup {p}
  /\ UNCHANGED <<objectVars, list, file, owed>>

Unplug(p) ==
  /\ p \in plugged
  /\ plugged' = plugged \ {p}
  /\ file' = [f \in Files |-> IF file[f] = p THEN Unplugged ELSE file[f]]
  /\ UNCHANGED <<objectVars, list, owed>>

(* The program ends, perhaps by an exception nothing catches; Windows      *)
(* takes back what it had.  Another one begins.                            *)
Exit ==
  /\ infoSet' = [s \in Sets |-> NoSet]
  /\ device' = [d \in Devs |-> NoDevice]
  /\ enum' = NoEnum /\ info' = NoPath
  /\ list' = [l \in Lists |-> Closed]
  /\ file' = [f \in Files |-> Closed]
  /\ owed' = {}
  /\ UNCHANGED plugged

(* What happens to a program, and what it may do.                          *)
World ==
  \/ \E s \in Sets : FinalizeSet(s)
  \/ \E d \in Devs : FinalizeDevice(d)
  \/ \E p \in Paths : Plug(p) \/ Unplug(p)

Program ==
  \/ \E s \in Sets :
       GetByClass(s) \/ GetEnumerator(s) \/ DisposeSet(s) \/ DropSet(s)
  \/ Reset \/ MoveNext \/ ForgetEnumerator
  \/ \E d \in Devs :
       \/ GetDevice(d)
       \/ WriteThrough(d) \/ WriteBuffered(d)
       \/ DisposeDevice(d) \/ DisposeThrows(d)
       \/ DropDevice(d, "stream") \/ DropDevice(d, "dropped")
  \/ Exit

Next == World \/ Program

Spec == Init /\ [][Next]_vars

-----------------------------------------------------------------------------
(* Properties.                                                             *)

SetRecords == [life : {"absent", "held", "dropped"},
               handle : Lists \cup {Null, Invalid}, disposed : BOOLEAN]

DeviceRecords == [life : {"absent", "held", "stream", "dropped"},
                  file : Files \cup {Invalid}, path : Paths \cup {NoPath},
                  streams : SUBSET {"in", "out"},
                  buffered : BOOLEAN, disposed : BOOLEAN]

SetsOK ==
  /\ infoSet \in [Sets -> SetRecords]
  /\ enum \in [set : Sets \cup {Null}, next : 0 .. Cardinality(Paths)]
  /\ list \in [Lists -> {Closed} \cup UNION {Listings(S) : S \in SUBSET Paths}]

DevicesOK ==
  /\ device \in [Devs -> DeviceRecords]
  /\ file \in [Files -> Paths \cup {Closed, Unplugged}]
  /\ owed \subseteq Devs

(* Every variable stays in its type; a DeviceInfo names a device that was  *)
(* listed, and no enumerator outruns the devices there are.                *)
TypeOK ==
  /\ SetsOK
  /\ DevicesOK
  /\ info \in Paths \cup {NoPath}
  /\ plugged \subseteq Paths

(* A list that is open belongs to exactly one DeviceInfoSet, which will    *)
(* destroy it, and the handle of a set is never that of a list it does not *)
(* own: nothing leaks, nothing is destroyed twice or under another set     *)
(* that has got the same value of the handle.                              *)
ListsOwned ==
  /\ \A l \in Lists : list[l] # Closed =>
       \E s \in Sets : infoSet[s].handle = l /\ ~ infoSet[s].disposed
  /\ \A s \in Sets : infoSet[s].handle \in Lists => list[infoSet[s].handle] # Closed
  /\ \A s, t \in Sets :
       s # t /\ infoSet[s].handle \in Lists => infoSet[s].handle # infoSet[t].handle

(* A file that is open belongs to exactly one Device that is not disposed  *)
(* of: so when Dispose has returned, by an exception too, and when a       *)
(* Device whose constructor threw is finalized, the device can be opened   *)
(* again.                                                                  *)
FilesOwned ==
  /\ \A f \in Files : file[f] # Closed =>
       \E d \in Devs : device[d].file = f /\ ~ device[d].disposed
  /\ \A d \in Devs : IsOpen(d) => file[device[d].file] \in {device[d].path, Unplugged}
  /\ \A d, e \in Devs : d # e /\ IsOpen(d) => device[d].file # device[e].file
  /\ \A f, g \in Files : f # g /\ file[f] \in Paths => file[f] # file[g]

(* What a program has written to a Device it disposes of reaches the       *)
(* device, or the program is told by an exception: until then it is in the *)
(* buffer of an open stream.                                               *)
NothingLost ==
  \A d \in owed : device[d].buffered /\ IsOpen(d) /\ ~ device[d].disposed

(* What an object that owns a handle looks like.                           *)
SetShape ==
  /\ enum # NoEnum => enum.set \in Sets
  /\ \A s \in Sets :
       /\ infoSet[s].life = "absent" => infoSet[s] = NoSet
       /\ infoSet[s].handle \in Lists => ~ infoSet[s].disposed

DeviceShape ==
  \A d \in Devs :
    /\ device[d].life = "absent" => device[d] = NoDevice
    /\ IsOpen(d) => ~ device[d].disposed /\ device[d].path \in Paths
    /\ device[d].buffered => "out" \in device[d].streams

(* The inductive invariant of the proofs.                                  *)
IInv ==
  /\ TypeOK
  /\ SetShape /\ ListsOwned
  /\ DeviceShape /\ FilesOwned /\ NothingLost
=============================================================================

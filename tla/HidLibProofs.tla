---------------------------- MODULE HidLibProofs ----------------------------
(***************************************************************************)
(* Proofs about HidLib and the sample program, for any number of objects,  *)
(* handles and devices: who owns a handle, and what becomes of what a      *)
(* program has written.                                                    *)
(***************************************************************************)
EXTENDS HidSample, FiniteSetTheorems, SequenceTheorems, TLAPS

SetsInv    == SetsOK /\ SetShape /\ ListsOwned
DevicesInv == DevicesOK /\ DeviceShape /\ FilesOwned /\ NothingLost
RestOK     == info \in Paths \cup {NoPath} /\ plugged \subseteq Paths

setVars == <<infoSet, enum, list>>
devVars == <<device, file, owed>>

-----------------------------------------------------------------------------
(* Lists and listings.                                                     *)

LEMMA ListingSize ==
  ASSUME NEW S \in SUBSET Paths, NEW q \in Listings(S)
  PROVE  /\ q \in Seq(Paths)
         /\ Len(q) \in 0 .. Cardinality(Paths)
         /\ q # Closed
<1>1. Cardinality(S) \in Nat /\ Cardinality(Paths) \in Nat
  <2>1. IsFiniteSet(Paths) /\ IsFiniteSet(S)
    BY FS_Subset, PathAssumption
  <2> QED  BY <2>1, FS_CardinalityType
<1>2. Cardinality(S) <= Cardinality(Paths)
  BY FS_Subset, PathAssumption
<1>3. q \in [1 .. Cardinality(S) -> Paths]
  BY DEF Listings
<1>4. q \in Seq(Paths) /\ Len(q) = Cardinality(S)
  BY <1>1, <1>3
<1>5. q # Closed
  BY ClosedAssumption
<1> QED  BY <1>1, <1>2, <1>4, <1>5

-----------------------------------------------------------------------------
(* The objects of class DeviceInfoSet.                                     *)

LEMMA SetsKept ==
  ASSUME SetsInv, UNCHANGED setVars
  PROVE  SetsInv'
BY DEF SetsInv, SetsOK, SetShape, ListsOwned, setVars, NoEnum, NoSet

LEMMA EnumeratorMoves ==
  ASSUME SetsInv, UNCHANGED <<infoSet, list>>,
         enum' \in [set : Sets \cup {Null}, next : 0 .. Cardinality(Paths)],
         enum' # NoEnum => enum'.set \in Sets
  PROVE  SetsInv'
BY DEF SetsInv, SetsOK, SetShape, ListsOwned, NoEnum, NoSet

LEMMA ZeroFits == 0 \in 0 .. Cardinality(Paths)
BY FS_CardinalityType, PathAssumption

LEMMA SetCreated ==
  ASSUME SetsInv, RestOK, NEW s \in Sets, GetByClass(s)
  PROVE  SetsInv'
<1>1. PICK handle \in Lists \cup {Invalid} :
        /\ infoSet' = [infoSet EXCEPT ![s] =
                         [life |-> "held", handle |-> handle, disposed |-> FALSE]]
        /\ \/ handle = Invalid /\ UNCHANGED list
           \/ /\ handle \in Lists
              /\ list[handle] = Closed
              /\ \E q \in Listings(plugged) : list' = [list EXCEPT ![handle] = q]
  BY DEF GetByClass
<1>2. /\ list' \in [Lists -> {Closed} \cup UNION {Listings(S) : S \in SUBSET Paths}]
      /\ handle \in Lists => list[handle] = Closed /\ list'[handle] # Closed
      /\ \A l \in Lists : l # handle => list'[l] = list[l]
  <2>1. CASE handle = Invalid
    BY <1>1, <2>1, HandleAssumption DEF SetsInv, SetsOK
  <2>2. CASE handle \in Lists
    <3>1. PICK q \in Listings(plugged) : list' = [list EXCEPT ![handle] = q]
      BY <1>1, <2>2, HandleAssumption
    <3>2. q # Closed
      BY <3>1, ListingSize DEF RestOK
    <3>3. list[handle] = Closed
      BY <1>1, <2>2, HandleAssumption
    <3> QED  BY <2>2, <3>1, <3>2, <3>3 DEF SetsInv, SetsOK, RestOK
  <2> QED  BY <2>1, <2>2
<1>3. infoSet' \in [Sets -> SetRecords] /\ UNCHANGED enum
  BY <1>1 DEF GetByClass, SetsInv, SetsOK, SetRecords
<1>4. SetsOK'
  BY <1>2, <1>3 DEF SetsInv, SetsOK
<1>5. \A t \in Sets : t # s => infoSet'[t] = infoSet[t]
  BY <1>1 DEF SetsInv, SetsOK
<1>6. infoSet'[s] = [life |-> "held", handle |-> handle, disposed |-> FALSE]
  BY <1>1 DEF SetsInv, SetsOK
<1>7. SetShape'
  BY <1>3, <1>5, <1>6 DEF SetsInv, SetShape, NoEnum, NoSet
<1>8. \A t \in Sets : infoSet[t].handle # handle \/ handle \notin Lists
  BY <1>2 DEF SetsInv, ListsOwned
<1>9. infoSet[s].handle \notin Lists
  BY HandleAssumption DEF SetsInv, SetShape, NoSet, GetByClass
<1>10. ListsOwned'
  <2>1. \A l \in Lists : list'[l] # Closed =>
          \E t \in Sets : infoSet'[t].handle = l /\ ~ infoSet'[t].disposed
    BY <1>2, <1>5, <1>6, <1>9 DEF SetsInv, ListsOwned
  <2>2. \A t \in Sets : infoSet'[t].handle \in Lists => list'[infoSet'[t].handle] # Closed
    BY <1>2, <1>5, <1>6, <1>8 DEF SetsInv, ListsOwned
  <2>3. \A t, u \in Sets :
          t # u /\ infoSet'[t].handle \in Lists => infoSet'[t].handle # infoSet'[u].handle
    BY <1>5, <1>6, <1>8 DEF SetsInv, ListsOwned
  <2> QED  BY <2>1, <2>2, <2>3 DEF ListsOwned
<1> QED  BY <1>4, <1>7, <1>10 DEF SetsInv

(* A set that gives its handle up destroys its list, and no other.         *)
LEMMA SetReleased ==
  ASSUME SetsInv, UNCHANGED enum, NEW s \in Sets, NEW set \in SetRecords,
         infoSet' = [infoSet EXCEPT ![s] = set],
         set.handle = Null, set.life = "absent" => set = NoSet,
         infoSet[s].disposed => UNCHANGED list,
         ~ infoSet[s].disposed => DestroyList(infoSet[s].handle)
  PROVE  SetsInv'
<1>1. infoSet[s].handle \in Lists => ~ infoSet[s].disposed
  BY DEF SetsInv, SetShape
<1>2. list' = IF infoSet[s].handle \in Lists
              THEN [list EXCEPT ![infoSet[s].handle] = Closed] ELSE list
  BY <1>1 DEF DestroyList
<1>3. list' \in [Lists -> {Closed} \cup UNION {Listings(S) : S \in SUBSET Paths}]
  BY <1>2 DEF SetsInv, SetsOK
<1>4. infoSet' \in [Sets -> SetRecords] /\ infoSet'[s] = set
  BY DEF SetsInv, SetsOK
<1>5. \A t \in Sets : t # s => infoSet'[t] = infoSet[t]
  BY DEF SetsInv, SetsOK
<1>6. \A l \in Lists : list'[l] = IF l = infoSet[s].handle THEN Closed ELSE list[l]
  BY <1>2 DEF SetsInv, SetsOK
<1>7. Null \notin Lists
  BY HandleAssumption
<1>8. ListsOwned'
  BY <1>4, <1>5, <1>6, <1>7 DEF SetsInv, ListsOwned
<1>9. SetShape'
  BY <1>4, <1>5, <1>7 DEF SetsInv, SetShape, NoEnum, NoSet
<1> QED  BY <1>3, <1>4, <1>8, <1>9 DEF SetsInv, SetsOK

LEMMA SetDropped ==
  ASSUME SetsInv, NEW s \in Sets, DropSet(s)
  PROVE  SetsInv'
<1>1. infoSet' = [infoSet EXCEPT ![s] = [@ EXCEPT !.life = "dropped"]]
        /\ UNCHANGED <<enum, list>>
  BY DEF DropSet, windowsVars, SetsInv, SetsOK
<1>2. infoSet'[s] = [infoSet[s] EXCEPT !.life = "dropped"]
        /\ \A t \in Sets : t # s => infoSet'[t] = infoSet[t]
  BY <1>1 DEF SetsInv, SetsOK
<1>3. /\ infoSet'[s] \in SetRecords
      /\ infoSet'[s].handle = infoSet[s].handle
      /\ infoSet'[s].disposed = infoSet[s].disposed
      /\ infoSet'[s].life = "dropped"
  BY <1>2 DEF SetsInv, SetsOK, SetRecords
<1>4. infoSet' \in [Sets -> SetRecords]
  BY <1>1, <1>2, <1>3 DEF SetsInv, SetsOK
<1>5. \A t \in Sets : /\ infoSet'[t].handle = infoSet[t].handle
                      /\ infoSet'[t].disposed = infoSet[t].disposed
  BY <1>2, <1>3
<1>6. ListsOwned'
  <2>1. ListsOwned /\ UNCHANGED list
    BY <1>1 DEF SetsInv
  <2> QED  BY <2>1, <1>5 DEF ListsOwned
<1>7. SetShape'
  <2>1. \A t \in Sets : infoSet'[t].life = "absent" => infoSet'[t] = NoSet
    BY <1>2, <1>3 DEF SetsInv, SetShape
  <2>2. enum' # NoEnum => enum'.set \in Sets
    BY <1>1 DEF SetsInv, SetShape, NoEnum
  <2>3. \A t \in Sets : infoSet'[t].handle \in Lists => ~ infoSet'[t].disposed
    BY <1>5 DEF SetsInv, SetShape
  <2> QED  BY <2>1, <2>2, <2>3 DEF SetShape
<1> QED  BY <1>1, <1>4, <1>6, <1>7 DEF SetsInv, SetsOK

(* What the program and its finalizers do to the sets.                     *)
LEMMA SetsStep ==
  ASSUME SetsInv, RestOK, Next
  PROVE  SetsInv'
<1>1. ASSUME NEW s \in Sets, FinalizeSet(s) PROVE SetsInv'
  <2>1. NoSet \in SetRecords /\ NoSet.handle = Null
    BY DEF NoSet, SetRecords
  <2> QED  BY <1>1, <2>1, SetReleased DEF FinalizeSet
<1>2. ASSUME NEW d \in Devs, FinalizeDevice(d) PROVE SetsInv'
  BY <1>2, SetsKept DEF FinalizeDevice, setVars
<1>3. ASSUME NEW p \in Paths, Plug(p) \/ Unplug(p) PROVE SetsInv'
  BY <1>3, SetsKept DEF Plug, Unplug, setVars, objectVars
<1>4. ASSUME NEW s \in Sets, GetByClass(s) PROVE SetsInv'
  BY <1>4, SetCreated
<1>5. ASSUME NEW s \in Sets, GetEnumerator(s) PROVE SetsInv'
  <2>1. enum' \in [set : Sets \cup {Null}, next : 0 .. Cardinality(Paths)]
    BY <1>5, ZeroFits DEF GetEnumerator, FirstIndex
  <2>2. enum'.set \in Sets
    BY <1>5 DEF GetEnumerator
  <2> QED  BY <1>5, <2>1, <2>2, EnumeratorMoves DEF GetEnumerator, windowsVars
<1>6. ASSUME NEW s \in Sets, DisposeSet(s) PROVE SetsInv'
  <2>1. CASE infoSet[s].disposed
    BY <1>6, <2>1, SetsKept DEF DisposeSet, setVars
  <2>2. CASE ~ infoSet[s].disposed
    <3> DEFINE set == AfterDispose(infoSet[s])
    <3>1. infoSet' = [infoSet EXCEPT ![s] = set] /\ UNCHANGED enum
      BY <1>6, <2>2 DEF DisposeSet, SetsInv, SetsOK
    <3>2. infoSet[s] \in SetRecords
      BY DEF SetsInv, SetsOK
    <3>3. set \in SetRecords /\ set.handle = Null /\ set.life = infoSet[s].life
      BY <3>2 DEF AfterDispose, SetRecords
    <3>4. set.life # "absent"
      BY <1>6, <3>3 DEF DisposeSet
    <3>5. DestroyList(infoSet[s].handle)
      BY <1>6, <2>2 DEF DisposeSet
    <3> HIDE DEF set
    <3> QED  BY <2>2, <3>1, <3>3, <3>4, <3>5, SetReleased
  <2> QED  BY <2>1, <2>2
<1>7. ASSUME NEW s \in Sets, DropSet(s) PROVE SetsInv'
  BY <1>7, SetDropped
<1>8. CASE Reset
  <2>1. enum' = [enum EXCEPT !.next = 0] /\ enum # NoEnum
    BY <1>8 DEF Reset
  <2>2. enum' \in [set : Sets \cup {Null}, next : 0 .. Cardinality(Paths)]
          /\ enum'.set = enum.set
    BY <2>1, ZeroFits DEF SetsInv, SetsOK
  <2>3. enum'.set \in Sets
    BY <2>1, <2>2 DEF SetsInv, SetShape
  <2> QED  BY <1>8, <2>2, <2>3, EnumeratorMoves DEF Reset, windowsVars
<1>9. CASE MoveNext
  <2>1. enum.set \in Sets /\ enum' = [enum EXCEPT !.next = enum.next + 1]
    BY <1>9 DEF MoveNext, MoreDevices, HasList, SetsInv, SetShape
  <2> DEFINE q == list[infoSet[enum.set].handle]
  <2>2. PICK S \in SUBSET Paths : q \in Listings(S)
    BY <1>9, <2>1 DEF MoveNext, MoreDevices, HasList, SetsInv, SetsOK
  <2>3. Len(q) \in 0 .. Cardinality(Paths)
    BY <2>2, ListingSize
  <2>4. enum.next < Len(q)
    BY <1>9 DEF MoveNext, MoreDevices, HasList
  <2>5. Cardinality(Paths) \in Nat
    BY FS_CardinalityType, PathAssumption
  <2>6. enum.next + 1 \in 0 .. Cardinality(Paths)
    <3>1. enum.next \in Nat
      BY <2>5 DEF SetsInv, SetsOK
    <3> QED  BY <2>3, <2>4, <2>5, <3>1
  <2>7. enum' \in [set : Sets \cup {Null}, next : 0 .. Cardinality(Paths)]
          /\ enum'.set \in Sets
    BY <2>1, <2>6 DEF SetsInv, SetsOK
  <2> QED  BY <1>9, <2>7, EnumeratorMoves DEF MoveNext, windowsVars
<1>10. CASE ForgetEnumerator
  <2>1. enum' = NoEnum /\ NoEnum \in [set : Sets \cup {Null}, next : 0 .. Cardinality(Paths)]
    BY <1>10, ZeroFits DEF ForgetEnumerator, NoEnum
  <2> QED  BY <1>10, <2>1, EnumeratorMoves DEF ForgetEnumerator, windowsVars
<1>11. ASSUME NEW d \in Devs,
              \/ GetDevice(d) \/ WriteThrough(d) \/ WriteBuffered(d)
              \/ DisposeDevice(d) \/ DisposeThrows(d)
              \/ DropDevice(d, "stream") \/ DropDevice(d, "dropped")
       PROVE  SetsInv'
  BY <1>11, SetsKept DEF GetDevice, WriteThrough, WriteBuffered, DisposeDevice,
     DisposeThrows, DropDevice, setVars, windowsVars
<1>12. CASE Exit
  <2>1. SetsOK'
    BY <1>12, ZeroFits DEF Exit, SetsOK, SetRecords, NoSet, NoEnum
  <2>2. SetShape' /\ ListsOwned'
    BY <1>12, HandleAssumption DEF Exit, SetShape, ListsOwned, NoSet
  <2> QED  BY <2>1, <2>2 DEF SetsInv
<1> QED
  BY <1>1, <1>2, <1>3, <1>4, <1>5, <1>6, <1>7, <1>8, <1>9, <1>10, <1>11, <1>12
  DEF Next, World, Program

-----------------------------------------------------------------------------
(* The objects of class Device.                                            *)

LEMMA DevicesKept ==
  ASSUME DevicesInv, UNCHANGED devVars
  PROVE  DevicesInv'
BY DEF DevicesInv, DevicesOK, DeviceShape, FilesOwned, NothingLost, devVars,
       NoDevice, IsOpen

(* A buffer is written out when its Device is disposed of.                 *)
LEMMA BufferFlushed ==
  ASSUME DevicesInv, NEW d \in owed
  PROVE  Flushes(d)
<1>1. device[d].buffered /\ IsOpen(d)
  BY DEF DevicesInv, NothingLost
<1>2. "out" \in device[d].streams
  BY <1>1 DEF DevicesInv, DeviceShape, DevicesOK
<1>3. Closer(d) = "out"
  <2> DEFINE has == {i \in 1 .. 3 :
                       DisposeOrder[i] \in device[d].streams \cup {"handle"}}
  <2>1. DisposeOrder[1] = "out"
    BY DEF DisposeOrder
  <2>2. 1 \in has
    BY <1>2, <2>1
  <2>3. \A i \in has : (\A j \in has : i <= j) <=> i = 1
    BY <2>2
  <2>4. (CHOOSE i \in has : \A j \in has : i <= j) = 1
    BY <2>2, <2>3
  <2> QED  BY <2>1, <2>4 DEF Closer
<1> QED  BY <1>1, <1>3 DEF Flushes

(* A Device that closes its file, and owes nothing any more.               *)
LEMMA DeviceShut ==
  ASSUME DevicesInv, NEW d \in Devs, CloseFile(d), NEW dev \in DeviceRecords,
         device' = [device EXCEPT ![d] = dev],
         dev.file = Invalid, ~ dev.buffered,
         dev.life = "absent" => dev = NoDevice,
         owed' = owed \ {d}
  PROVE  DevicesInv'
<1>1. /\ device'[d] = dev
      /\ \A e \in Devs : e # d => device'[e] = device[e]
      /\ device' \in [Devs -> DeviceRecords]
  BY DEF DevicesInv, DevicesOK
<1>2. Invalid \notin Files
  BY HandleAssumption
<1>3. \A f \in Files : file'[f] = IF f = device[d].file THEN Closed ELSE file[f]
  BY DEF CloseFile, IsOpen, DevicesInv, DevicesOK
<1>4. file' \in [Files -> Paths \cup {Closed, Unplugged}]
  BY DEF CloseFile, DevicesInv, DevicesOK
<1>5. DevicesOK'
  BY <1>1, <1>4 DEF DevicesInv, DevicesOK
<1>6. DeviceShape'
  BY <1>1, <1>2 DEF DevicesInv, DeviceShape, IsOpen, NoDevice
<1>7. FilesOwned'
  <2>1. \A f \in Files : file'[f] # Closed =>
          \E e \in Devs : device'[e].file = f /\ ~ device'[e].disposed
    BY <1>1, <1>3 DEF DevicesInv, FilesOwned
  <2>2. \A e \in Devs : IsOpen(e)' => e # d /\ IsOpen(e)
    BY <1>1, <1>2 DEF IsOpen
  <2>3. \A e \in Devs : IsOpen(e)' =>
          file'[device'[e].file] \in {device'[e].path, Unplugged}
    BY <1>1, <1>3, <2>2 DEF DevicesInv, FilesOwned, IsOpen
  <2>4. \A e, g \in Devs : e # g /\ IsOpen(e)' => device'[e].file # device'[g].file
    BY <1>1, <1>2, <2>2 DEF DevicesInv, FilesOwned, IsOpen
  <2>5. \A f, g \in Files : f # g /\ file'[f] \in Paths => file'[f] # file'[g]
    BY <1>3, PathAssumption DEF DevicesInv, FilesOwned
  <2> QED  BY <2>1, <2>3, <2>4, <2>5 DEF FilesOwned
<1>8. NothingLost'
  BY <1>1 DEF DevicesInv, DevicesOK, NothingLost, IsOpen
<1> QED  BY <1>5, <1>6, <1>7, <1>8 DEF DevicesInv

LEMMA ShutRecord ==
  ASSUME NEW life \in {"held", "stream", "dropped"}, NEW disposed \in BOOLEAN
  PROVE  /\ Shut(life, disposed) \in DeviceRecords
         /\ Shut(life, disposed).file = Invalid
         /\ ~ Shut(life, disposed).buffered
         /\ Shut(life, disposed).life # "absent"
BY DEF Shut, NoDevice, DeviceRecords

LEMMA DeviceOpened ==
  ASSUME DevicesInv, RestOK, NEW d \in Devs, NEW f \in Files,
         NEW life \in {"held", "dropped"}, NEW streams \in SUBSET {"in", "out"},
         Opened(d, f, life, streams), device[d].life = "absent", UNCHANGED owed
  PROVE  DevicesInv'
<1> DEFINE dev == [life |-> life, file |-> f, path |-> info, streams |-> streams,
                   buffered |-> FALSE, disposed |-> FALSE]
<1>1. info \in Paths /\ file[f] = Closed /\ \A g \in Files : file[g] # info
  BY DEF Opened, RestOK
<1>2. dev \in DeviceRecords
  BY <1>1 DEF DeviceRecords
<1>3. /\ device'[d] = dev
      /\ \A e \in Devs : e # d => device'[e] = device[e]
      /\ device' \in [Devs -> DeviceRecords]
  BY <1>2 DEF Opened, DevicesInv, DevicesOK
<1>4. /\ file'[f] = info
      /\ \A g \in Files : g # f => file'[g] = file[g]
      /\ file' \in [Files -> Paths \cup {Closed, Unplugged}]
  BY <1>1 DEF Opened, DevicesInv, DevicesOK
<1>5. info \notin {Closed, Unplugged}
  BY <1>1, PathAssumption
<1>6. \A e \in Devs : IsOpen(e) => device[e].file # f
  <2>1. \A e \in Devs : IsOpen(e) =>
          file[device[e].file] \in {device[e].path, Unplugged} /\ device[e].path \in Paths
    BY DEF DevicesInv, FilesOwned, DeviceShape
  <2>2. \A e \in Devs : IsOpen(e) => file[device[e].file] # Closed
    BY <2>1, PathAssumption
  <2> QED  BY <1>1, <2>2
<1>7. DevicesOK'
  BY <1>3, <1>4 DEF DevicesInv, DevicesOK
<1>8. DeviceShape'
  BY <1>1, <1>3 DEF DevicesInv, DeviceShape, IsOpen, NoDevice
<1>9. FilesOwned'
  <2>0. device[d].file \notin Files
    BY HandleAssumption DEF DevicesInv, DeviceShape, NoDevice
  <2>1. \A g \in Files : file'[g] # Closed =>
          \E e \in Devs : device'[e].file = g /\ ~ device'[e].disposed
    BY <1>3, <1>4, <2>0 DEF DevicesInv, FilesOwned
  <2>2. \A e \in Devs : IsOpen(e)' =>
          file'[device'[e].file] \in {device'[e].path, Unplugged}
    BY <1>3, <1>4, <1>6 DEF DevicesInv, FilesOwned, IsOpen
  <2>3. \A e, g \in Devs : e # g /\ IsOpen(e)' => device'[e].file # device'[g].file
    BY <1>3, <1>6 DEF DevicesInv, FilesOwned, IsOpen
  <2>4. \A g, h \in Files : g # h /\ file'[g] \in Paths => file'[g] # file'[h]
    BY <1>1, <1>4 DEF DevicesInv, FilesOwned
  <2> QED  BY <2>1, <2>2, <2>3, <2>4 DEF FilesOwned
<1>10. NothingLost'
  <2>1. d \notin owed
    BY DEF DevicesInv, NothingLost, DeviceShape, NoDevice
  <2> QED  BY <1>3, <2>1 DEF DevicesInv, DevicesOK, NothingLost, IsOpen
<1> QED  BY <1>7, <1>8, <1>9, <1>10 DEF DevicesInv

LEMMA DeviceConstructed ==
  ASSUME DevicesInv, RestOK, NEW d \in Devs, GetDevice(d)
  PROVE  DevicesInv'
<1>1. device[d] = NoDevice /\ UNCHANGED owed
  BY DEF GetDevice, DevicesInv, DeviceShape
<1>2. CASE OpenFails(d)
  <2>1. CloseFile(d)
    BY <1>1, <1>2, HandleAssumption DEF OpenFails, CloseFile, IsOpen, NoDevice
  <2>2. owed' = owed \ {d}
    BY <1>1 DEF DevicesInv, DevicesOK, NothingLost, NoDevice
  <2>3. device' = [device EXCEPT ![d] = Shut("dropped", FALSE)]
    BY <1>2 DEF OpenFails
  <2> QED  BY <2>1, <2>2, <2>3, ShutRecord, DeviceShut
<1>3. CASE NotReadable(d)
  BY <1>1, <1>3, DeviceOpened DEF NotReadable, GetDevice
<1>4. CASE Constructed(d)
  BY <1>1, <1>4, DeviceOpened, KindAssumption DEF Constructed, GetDevice
<1>5. CASE StreamFails(d)
  <2>1. PICK f \in Files, streams \in Kinds : \E kind \in streams :
          Opened(d, f, "dropped", IF kind = "in" THEN {} ELSE streams \ {"out"})
    BY <1>5 DEF StreamFails
  <2>p. PICK kind \in streams :
          Opened(d, f, "dropped", IF kind = "in" THEN {} ELSE streams \ {"out"})
    BY <2>1
  <2> DEFINE opened == IF kind = "in" THEN {} ELSE streams \ {"out"}
  <2>2. opened \in SUBSET {"in", "out"}
    BY KindAssumption
  <2>3. Opened(d, f, "dropped", opened)
    BY <2>p
  <2> HIDE DEF opened
  <2> QED  BY <1>1, <2>2, <2>3, DeviceOpened DEF GetDevice
<1> QED  BY <1>2, <1>3, <1>4, <1>5 DEF GetDevice

(* A Device whose buffer or reach changes.                                 *)
LEMMA DeviceChanged ==
  ASSUME DevicesInv, NEW d \in Devs, UNCHANGED file, NEW dev \in DeviceRecords,
         device' = [device EXCEPT ![d] = dev],
         dev.file = device[d].file, dev.path = device[d].path,
         dev.streams = device[d].streams, dev.disposed = device[d].disposed,
         dev.life # "absent",
         dev.buffered => "out" \in dev.streams,
         owed' \subseteq owed \cup {d},
         d \in owed' => dev.buffered /\ IsOpen(d)
  PROVE  DevicesInv'
<1>1. /\ device'[d] = dev
      /\ \A e \in Devs : e # d => device'[e] = device[e]
      /\ device' \in [Devs -> DeviceRecords]
  BY DEF DevicesInv, DevicesOK
<1>2. DevicesOK'
  BY <1>1 DEF DevicesInv, DevicesOK
<1>3. \A e \in Devs : /\ device'[e].file = device[e].file
                      /\ device'[e].path = device[e].path
                      /\ device'[e].disposed = device[e].disposed
  BY <1>1
<1>4. DeviceShape'
  <2>1. \A e \in Devs : device'[e].life = "absent" => device'[e] = NoDevice
    BY <1>1 DEF DevicesInv, DeviceShape
  <2>2. \A e \in Devs : IsOpen(e)' => ~ device'[e].disposed /\ device'[e].path \in Paths
    BY <1>3 DEF DevicesInv, DeviceShape, IsOpen
  <2>3. \A e \in Devs : device'[e].buffered => "out" \in device'[e].streams
    BY <1>1 DEF DevicesInv, DeviceShape
  <2> QED  BY <2>1, <2>2, <2>3 DEF DeviceShape, NoDevice
<1>5. FilesOwned'
  BY <1>3 DEF DevicesInv, FilesOwned, IsOpen
<1>6. NothingLost'
  BY <1>1, <1>3 DEF DevicesInv, DeviceShape, NothingLost, IsOpen
<1> QED  BY <1>2, <1>4, <1>5, <1>6 DEF DevicesInv

LEMMA DeviceUnplugged ==
  ASSUME DevicesInv, NEW p \in Paths, Unplug(p)
  PROVE  DevicesInv'
<1>1. file' = [f \in Files |-> IF file[f] = p THEN Unplugged ELSE file[f]]
        /\ UNCHANGED <<device, owed>>
  BY DEF Unplug, objectVars
<1>2. p \notin {Closed, Unplugged} /\ Unplugged \notin Paths /\ Closed # Unplugged
  BY PathAssumption
<1>3. DevicesOK' /\ DeviceShape'
  BY <1>1 DEF DevicesInv, DevicesOK, DeviceShape, IsOpen, NoDevice
<1>4. FilesOwned'
  BY <1>1, <1>2 DEF DevicesInv, FilesOwned, IsOpen
<1>5. NothingLost'
  BY <1>1 DEF DevicesInv, NothingLost, IsOpen
<1> QED  BY <1>3, <1>4, <1>5 DEF DevicesInv

LEMMA DeviceDisposed ==
  ASSUME DevicesInv, NEW d \in Devs, DisposeDevice(d) \/ DisposeThrows(d)
  PROVE  DevicesInv'
<1>1. CASE DisposeDevice(d) /\ device[d].disposed
  BY <1>1, DevicesKept DEF DisposeDevice, devVars
<1>2. CASE DisposeDevice(d) /\ ~ device[d].disposed
  <2>1. CloseFile(d) /\ device' = [device EXCEPT ![d] = Shut("held", TRUE)]
    BY <1>2 DEF DisposeDevice, Close
  <2>2. CASE Flushes(d)
    <3>1. owed' = owed \ {d}
      BY <1>2, <2>2 DEF DisposeDevice, Close
    <3> QED  BY <2>1, <3>1, ShutRecord, DeviceShut
  <2>3. CASE ~ Flushes(d)
    <3>1. owed' = owed /\ d \notin owed
      BY <1>2, <2>3, BufferFlushed DEF DisposeDevice, Close
    <3>2. owed' = owed \ {d}
      BY <3>1
    <3> QED  BY <2>1, <3>2, ShutRecord, DeviceShut
  <2> QED  BY <2>2, <2>3
<1>3. CASE DisposeThrows(d)
  BY <1>3, ShutRecord, DeviceShut DEF DisposeThrows
<1> QED  BY <1>1, <1>2, <1>3

LEMMA DeviceFinalized ==
  ASSUME DevicesInv, NEW d \in Devs, FinalizeDevice(d)
  PROVE  DevicesInv'
<1>1. CloseFile(d) /\ owed' = owed \ {d}
  BY DEF FinalizeDevice
<1>2. CASE device[d].life = "dropped"
  <2>1. device' = [device EXCEPT ![d] = NoDevice]
    BY <1>2 DEF FinalizeDevice, DevicesInv, DevicesOK
  <2>2. NoDevice \in DeviceRecords /\ NoDevice.file = Invalid /\ ~ NoDevice.buffered
    BY DEF NoDevice, DeviceRecords
  <2> QED  BY <1>1, <2>1, <2>2, DeviceShut
<1>3. CASE device[d].life # "dropped"
  <2>1. device' = [device EXCEPT ![d] = Shut("stream", TRUE)]
    BY <1>3 DEF FinalizeDevice, DevicesInv, DevicesOK
  <2> QED  BY <1>1, <2>1, ShutRecord, DeviceShut
<1> QED  BY <1>2, <1>3

LEMMA DeviceUsed ==
  ASSUME DevicesInv, NEW d \in Devs, UNCHANGED file,
         \/ WriteThrough(d) \/ WriteBuffered(d)
         \/ DropDevice(d, "stream") \/ DropDevice(d, "dropped")
  PROVE  DevicesInv'
<1>1. device[d] \in DeviceRecords
  BY DEF DevicesInv, DevicesOK
<1>2. CASE WriteThrough(d) \/ WriteBuffered(d)
  <2>1. PICK b \in BOOLEAN :
          /\ device' = [device EXCEPT ![d].buffered = b]
          /\ \/ ~ b /\ owed' = owed \ {d}
             \/ b /\ owed' = owed \cup {d} /\ IsOpen(d)
    BY <1>2 DEF WriteThrough, WriteBuffered
  <2> DEFINE dev == [device[d] EXCEPT !.buffered = b]
  <2>2. device' = [device EXCEPT ![d] = dev]
    BY <2>1 DEF DevicesInv, DevicesOK
  <2>3. /\ dev \in DeviceRecords /\ dev.file = device[d].file
        /\ dev.path = device[d].path /\ dev.streams = device[d].streams
        /\ dev.disposed = device[d].disposed /\ dev.life = device[d].life
        /\ dev.buffered = b
    BY <1>1 DEF DeviceRecords
  <2>4. dev.life # "absent" /\ "out" \in dev.streams
    BY <1>2, <2>3 DEF WriteThrough, WriteBuffered, HasOutput
  <2> HIDE DEF dev
  <2> QED  BY <2>1, <2>2, <2>3, <2>4, DeviceChanged
<1>3. ASSUME NEW life \in {"stream", "dropped"}, DropDevice(d, life)
      PROVE  DevicesInv'
  <2> DEFINE dev == [device[d] EXCEPT !.life = life]
  <2>1. device' = [device EXCEPT ![d] = dev] /\ UNCHANGED owed
    BY <1>3 DEF DropDevice, DevicesInv, DevicesOK
  <2>2. /\ dev \in DeviceRecords /\ dev.file = device[d].file
        /\ dev.path = device[d].path /\ dev.streams = device[d].streams
        /\ dev.disposed = device[d].disposed /\ dev.life = life
        /\ dev.buffered = device[d].buffered
    BY <1>1 DEF DeviceRecords
  <2>3. dev.buffered => "out" \in dev.streams
    BY <2>2 DEF DevicesInv, DeviceShape
  <2>4. d \in owed' => dev.buffered /\ IsOpen(d)
    BY <2>1, <2>2 DEF DevicesInv, NothingLost
  <2> HIDE DEF dev
  <2> QED  BY <1>3, <2>1, <2>2, <2>3, <2>4, DeviceChanged
<1> QED  BY <1>2, <1>3

(* What the program and its finalizers do to the devices.                  *)
LEMMA DevicesStep ==
  ASSUME DevicesInv, RestOK, Next
  PROVE  DevicesInv'
<1>1. ASSUME NEW s \in Sets,
             \/ FinalizeSet(s) \/ GetByClass(s) \/ GetEnumerator(s)
             \/ DisposeSet(s) \/ DropSet(s)
      PROVE  DevicesInv'
  BY <1>1, DevicesKept DEF FinalizeSet, GetByClass, GetEnumerator, DisposeSet,
     DropSet, devVars, windowsVars
<1>2. CASE Reset \/ MoveNext \/ ForgetEnumerator
  BY <1>2, DevicesKept DEF Reset, MoveNext, ForgetEnumerator, devVars, windowsVars
<1>3. ASSUME NEW p \in Paths, Plug(p) \/ Unplug(p) PROVE DevicesInv'
  BY <1>3, DevicesKept, DeviceUnplugged DEF Plug, devVars, objectVars
<1>4. ASSUME NEW d \in Devs, FinalizeDevice(d) PROVE DevicesInv'
  BY <1>4, DeviceFinalized
<1>5. ASSUME NEW d \in Devs, GetDevice(d) PROVE DevicesInv'
  BY <1>5, DeviceConstructed
<1>6. ASSUME NEW d \in Devs, DisposeDevice(d) \/ DisposeThrows(d)
      PROVE  DevicesInv'
  BY <1>6, DeviceDisposed
<1>7. ASSUME NEW d \in Devs,
             \/ WriteThrough(d) \/ WriteBuffered(d)
             \/ DropDevice(d, "stream") \/ DropDevice(d, "dropped")
      PROVE  DevicesInv'
  <2>1. UNCHANGED file
    BY <1>7 DEF WriteThrough, WriteBuffered, DropDevice, windowsVars
  <2> QED  BY <1>7, <2>1, DeviceUsed
<1>8. CASE Exit
  <2>1. DevicesOK'
    BY <1>8 DEF Exit, DevicesOK, DeviceRecords, NoDevice
  <2>2. DeviceShape' /\ FilesOwned' /\ NothingLost'
    BY <1>8, HandleAssumption, PathAssumption
    DEF Exit, DeviceShape, FilesOwned, NothingLost, IsOpen, NoDevice
  <2> QED  BY <2>1, <2>2 DEF DevicesInv
<1> QED
  BY <1>1, <1>2, <1>3, <1>4, <1>5, <1>6, <1>7, <1>8 DEF Next, World, Program

-----------------------------------------------------------------------------
(* The invariant and the theorems.                                         *)

LEMMA RestStep ==
  ASSUME SetsInv, RestOK, Next
  PROVE  RestOK'
<1>1. CASE MoveNext
  <2>1. enum.set \in Sets
    BY <1>1 DEF MoveNext, MoreDevices, HasList, SetsInv, SetShape
  <2> DEFINE q == list[infoSet[enum.set].handle]
  <2>2. PICK S \in SUBSET Paths : q \in Listings(S)
    BY <1>1, <2>1 DEF MoveNext, MoreDevices, HasList, SetsInv, SetsOK
  <2>3. q \in Seq(Paths) /\ Cardinality(Paths) \in Nat
    BY <2>2, ListingSize, FS_CardinalityType, PathAssumption
  <2>4. enum.next + 1 \in 1 .. Len(q)
    <3>1. enum.next \in Nat
      BY <2>3 DEF SetsInv, SetsOK
    <3>2. enum.next < Len(q) /\ Len(q) \in Nat
      BY <1>1, <2>3 DEF MoveNext, MoreDevices, HasList
    <3> QED  BY <3>1, <3>2
  <2>5. q[enum.next + 1] \in Paths
    BY <2>3, <2>4
  <2>6. info' \in Paths /\ UNCHANGED plugged
    BY <1>1, <2>5 DEF MoveNext, windowsVars
  <2> QED  BY <2>6 DEF RestOK
<1>2. CASE ~ MoveNext
  BY <1>2 DEF RestOK, Next, World, Program, FinalizeSet, FinalizeDevice, Plug,
     Unplug, GetByClass, GetEnumerator, DisposeSet, DropSet, Reset,
     ForgetEnumerator, GetDevice, OpenFails, NotReadable, StreamFails,
     Constructed, WriteThrough, WriteBuffered, DisposeDevice, DisposeThrows, DropDevice,
     Exit, windowsVars, objectVars
<1> QED  BY <1>1, <1>2

LEMMA IInvParts == IInv <=> SetsInv /\ DevicesInv /\ RestOK
BY DEF IInv, TypeOK, SetsInv, DevicesInv, RestOK

LEMMA InitInv == Init => IInv
<1> SUFFICES ASSUME Init PROVE SetsInv /\ DevicesInv /\ RestOK
  BY IInvParts
<1>1. SetsOK
  BY ZeroFits DEF Init, SetsOK, SetRecords, NoSet, NoEnum
<1>2. SetShape /\ ListsOwned
  BY HandleAssumption DEF Init, SetShape, ListsOwned, NoSet
<1>3. DevicesOK
  BY DEF Init, DevicesOK, DeviceRecords, NoDevice
<1>4. DeviceShape /\ FilesOwned /\ NothingLost
  BY HandleAssumption, PathAssumption
  DEF Init, DeviceShape, FilesOwned, NothingLost, IsOpen, NoDevice
<1>5. RestOK
  BY DEF Init, RestOK
<1> QED  BY <1>1, <1>2, <1>3, <1>4, <1>5 DEF SetsInv, DevicesInv

LEMMA StepInv == IInv /\ [Next]_vars => IInv'
<1> SUFFICES ASSUME IInv, [Next]_vars PROVE IInv'
  OBVIOUS
<1>0. SetsInv /\ DevicesInv /\ RestOK
  BY IInvParts
<1>1. CASE Next
  <2>1. SetsInv' /\ DevicesInv' /\ RestOK'
    BY <1>0, <1>1, SetsStep, DevicesStep, RestStep
  <2> QED  BY <2>1 DEF IInv, TypeOK, SetsInv, DevicesInv, RestOK
<1>2. CASE UNCHANGED vars
  <2>1. UNCHANGED setVars /\ UNCHANGED devVars
          /\ UNCHANGED <<info, plugged>>
    BY <1>2 DEF vars, objectVars, windowsVars, setVars, devVars
  <2>2. SetsInv' /\ DevicesInv' /\ RestOK'
    BY <1>0, <2>1, SetsKept, DevicesKept DEF RestOK
  <2> QED  BY <2>2 DEF IInv, TypeOK, SetsInv, DevicesInv, RestOK
<1> QED  BY <1>1, <1>2

(* The inductive invariant holds of every program that uses the library.   *)
THEOREM LibInvariant == Spec => []IInv
BY InitInv, StepInv, PTL DEF Spec

(* No list of devices leaks, none is destroyed twice or under a set that   *)
(* has got the same value of the handle after it.                          *)
THEOREM ListHandles == Spec => []ListsOwned
<1>1. IInv => ListsOwned  BY DEF IInv
<1> QED  BY <1>1, LibInvariant, PTL

(* An open file belongs to one Device, and one that was disposed of or     *)
(* finalized leaves its device free to be opened again.                    *)
THEOREM FileHandles == Spec => []FilesOwned
<1>1. IInv => FilesOwned  BY DEF IInv
<1> QED  BY <1>1, LibInvariant, PTL

(* What a program has written to a Device it disposes of reaches the       *)
(* device or ends in an exception.                                         *)
THEOREM Delivery == Spec => []NothingLost
<1>1. IInv => NothingLost  BY DEF IInv
<1> QED  BY <1>1, LibInvariant, PTL

(* The sample program is one of the programs that use the library: every   *)
(* step of it is a step of HidLib, so what holds of them holds of it.      *)
THEOREM SampleUsesLibrary == SampleSpec => Spec
<1>1. SampleInit => Init
  BY DEF SampleInit
<1>2. SampleNext => Next
  <2> SUFFICES ASSUME SampleNext PROVE Next
    OBVIOUS
  <2>1. CASE Main
    BY <2>1 DEF Main, GetSet, Foreach, NextDevice, EndOfList, OpenDevice,
       WriteColor, EndDevice, EndSet, Next, Program
  <2>2. CASE EndOfProgram
    BY <2>2 DEF EndOfProgram, Next, Program
  <2>3. CASE OtherProgram
    BY <2>3 DEF OtherProgram, Next
  <2>4. CASE World
    BY <2>4 DEF Next
  <2> QED  BY <2>1, <2>2, <2>3, <2>4 DEF SampleNext
<1>3. [SampleNext]_sampleVars => [Next]_vars
  BY <1>2 DEF sampleVars
<1> QED  BY <1>1, <1>3, PTL DEF SampleSpec, Spec

-----------------------------------------------------------------------------
(* The sample program.                                                     *)

LEMMA SampleStarts == SampleInit => SampleInv
BY DEF SampleInit, Init, SampleInv, MainHolds, NoSet, NoDevice

LEMMA SampleObjectsKept ==
  ASSUME SampleInv, UNCHANGED <<infoSet, device, at>>
  PROVE  SampleInv'
BY DEF SampleInv, MainHolds

LEMMA MainStep ==
  ASSUME IInv, SampleInv, Main
  PROVE  SampleInv'
<1>0. at # "elsewhere" /\ MainHolds
  BY DEF Main, GetSet, Foreach, NextDevice, EndOfList, OpenDevice, WriteColor,
     EndDevice, EndSet, Goto, SampleInv
<1>t. /\ infoSet \in [Sets -> SetRecords] /\ device \in [Devs -> DeviceRecords]
      /\ DeviceShape
  BY DEF IInv, TypeOK, SetsOK, DevicesOK
<1>1. CASE GetSet
  <2>1. PICK s \in Sets : GetByClass(s)
    BY <1>1 DEF GetSet
  <2>2. infoSet'[s].life = "held" /\ \A t \in Sets : t # s => infoSet'[t] = infoSet[t]
    BY <2>1, <1>t DEF GetByClass
  <2>3. at = "getSet" /\ at' = "foreach" /\ UNCHANGED device
    BY <1>1, <2>1 DEF GetSet, Goto, GetByClass
  <2> QED  BY <1>0, <2>2, <2>3 DEF SampleInv, MainHolds
<1>2. CASE Foreach
  <2>1. at = "foreach" /\ at' = "loop" /\ UNCHANGED <<infoSet, device>>
    BY <1>2 DEF Foreach, Goto, GetEnumerator
  <2> QED  BY <1>0, <2>1 DEF SampleInv, MainHolds
<1>3. CASE NextDevice \/ EndOfList
  <2>1. /\ at = "loop" /\ at' \in {"getDevice", "loop", "disposeSet"}
        /\ UNCHANGED <<infoSet, device>>
    BY <1>3 DEF NextDevice, MoveNext, EndOfList, Goto, ForgetEnumerator
  <2>2. \A d \in Devs : device[d].disposed
    BY <1>0, <1>t, <2>1 DEF MainHolds, DeviceShape, NoDevice
  <2> QED  BY <1>0, <2>1, <2>2 DEF SampleInv, MainHolds
<1>4. CASE OpenDevice
  <2>1. PICK d \in Devs : GetDevice(d) /\ device'[d].life = "held"
    BY <1>4 DEF OpenDevice
  <2>2. \A e \in Devs : e # d => device'[e] = device[e]
    BY <2>1, <1>t DEF GetDevice, OpenFails, NotReadable, StreamFails,
       Constructed, Opened
  <2>3. at = "getDevice" /\ at' = "write" /\ UNCHANGED infoSet
    BY <1>4, <2>1 DEF OpenDevice, Goto, GetDevice
  <2> QED  BY <1>0, <2>1, <2>2, <2>3 DEF SampleInv, MainHolds
<1>5. CASE WriteColor
  <2>1. PICK d \in Devs : WriteThrough(d) \/ WriteBuffered(d)
    BY <1>5 DEF WriteColor
  <2>2. \A e \in Devs : device'[e].life = device[e].life
    BY <2>1, <1>t DEF WriteThrough, WriteBuffered, DeviceRecords
  <2>3. at = "write" /\ at' = "disposeDevice" /\ UNCHANGED infoSet
    BY <1>5, <2>1 DEF WriteColor, Goto, WriteThrough, WriteBuffered
  <2> QED  BY <1>0, <2>2, <2>3 DEF SampleInv, MainHolds
<1>6. CASE EndDevice
  <2>1. PICK d \in Devs : DisposeDevice(d)
    BY <1>6 DEF EndDevice
  <2>2. device'[d].life = "held" /\ device'[d].disposed
    BY <2>1, <1>t DEF DisposeDevice, Shut, NoDevice
  <2>3. \A e \in Devs : e # d => device'[e] = device[e]
    BY <2>1, <1>t DEF DisposeDevice
  <2>4. at = "disposeDevice" /\ at' = "disposeSet" /\ UNCHANGED infoSet
    BY <1>6, <2>1 DEF EndDevice, Goto, DisposeDevice, AfterDevice
  <2>5. device[d].life = "held"
    BY <2>1 DEF DisposeDevice
  <2>6. \A e \in Devs : e # d => device[e].disposed
    BY <1>0, <1>t, <2>5 DEF MainHolds, DeviceShape, NoDevice
  <2> QED  BY <1>0, <2>2, <2>3, <2>4, <2>5, <2>6 DEF SampleInv, MainHolds
<1>7. CASE EndSet
  <2>1. PICK s \in Sets : DisposeSet(s)
    BY <1>7 DEF EndSet
  <2>2. infoSet'[s].life = "held" /\ infoSet'[s].disposed
    <3>1. CASE infoSet[s].disposed
      BY <2>1, <3>1 DEF DisposeSet
    <3>2. CASE ~ infoSet[s].disposed
      <4>1. infoSet' = [infoSet EXCEPT ![s] = AfterDispose(infoSet[s])]
        BY <2>1, <3>2 DEF DisposeSet
      <4>2. infoSet[s] \in SetRecords /\ infoSet[s].life = "held"
        BY <2>1, <1>t DEF DisposeSet
      <4>3. AfterDispose(infoSet[s]).life = "held" /\ AfterDispose(infoSet[s]).disposed
        BY <4>2 DEF AfterDispose, SetRecords
      <4>4. infoSet'[s] = AfterDispose(infoSet[s])
        BY <4>1, <1>t
      <4> QED  BY <4>3, <4>4
    <3> QED  BY <3>1, <3>2
  <2>3. \A t \in Sets : t # s => infoSet'[t] = infoSet[t]
    BY <2>1, <1>t DEF DisposeSet
  <2>4. at = "disposeSet" /\ at' = "prompt" /\ UNCHANGED device
    BY <1>7, <2>1 DEF EndSet, Goto, DisposeSet
  <2>5. infoSet[s].life = "held"
    BY <2>1 DEF DisposeSet
  <2>6. \A t \in Sets : t # s => infoSet[t].disposed
    BY <1>0, <2>5 DEF MainHolds, IInv, SetShape, NoSet
  <2> QED  BY <1>0, <2>2, <2>3, <2>4, <2>5, <2>6 DEF SampleInv, MainHolds
<1> QED  BY <1>1, <1>2, <1>3, <1>4, <1>5, <1>6, <1>7 DEF Main

LEMMA SampleStep ==
  ASSUME IInv, SampleInv, [SampleNext]_sampleVars
  PROVE  SampleInv'
<1>1. CASE Main
  BY <1>1, MainStep
<1>2. CASE EndOfProgram
  BY <1>2 DEF EndOfProgram, Exit, SampleInv, MainHolds, NoSet, NoDevice
<1>3. CASE OtherProgram
  BY <1>3 DEF OtherProgram, SampleInv
<1>4. CASE World /\ UNCHANGED <<at, told, failed>>
  <2>1. CASE at = "elsewhere"
    BY <1>4, <2>1 DEF SampleInv
  <2>2. CASE at # "elsewhere"
    <3>1. \A s \in Sets : infoSet[s].life \in {"absent", "held"}
      BY <2>2 DEF SampleInv, MainHolds
    <3>2. \A d \in Devs : device[d].life \in {"absent", "held"}
      BY <2>2 DEF SampleInv, MainHolds
    <3>3. \A s \in Sets : ~ FinalizeSet(s)
      BY <3>1 DEF FinalizeSet
    <3>4. \A d \in Devs : ~ FinalizeDevice(d)
      BY <3>2 DEF FinalizeDevice
    <3>5. PICK p \in Paths : Plug(p) \/ Unplug(p)
      BY <1>4, <3>3, <3>4 DEF World
    <3>6. UNCHANGED <<infoSet, device>>
      BY <3>5 DEF Plug, Unplug, objectVars
    <3> QED  BY <1>4, <3>6, SampleObjectsKept
  <2> QED  BY <2>1, <2>2
<1>5. CASE UNCHANGED sampleVars
  BY <1>5, SampleObjectsKept DEF sampleVars, vars, objectVars
<1> QED  BY <1>1, <1>2, <1>3, <1>4, <1>5 DEF SampleNext

(* Main holds no list and no device at its prompt.                         *)
THEOREM CleanPrompt == SampleSpec => []CleanAtPrompt
<1>1. SampleSpec => []IInv
  BY SampleUsesLibrary, LibInvariant, PTL
<1>2. SampleSpec => []SampleInv
  BY <1>1, SampleStarts, SampleStep, PTL DEF SampleSpec
<1>3. IInv /\ SampleInv => CleanAtPrompt
  BY DEF IInv, ListsOwned, FilesOwned, NothingLost, TypeOK, DevicesOK,
     SampleInv, MainHolds, CleanAtPrompt
<1> QED  BY <1>1, <1>2, <1>3, PTL

-----------------------------------------------------------------------------
(* What Main tells whom.                                                   *)

(* A set that has one more device has a list, and its index is a number.   *)
LEMMA NextPath ==
  ASSUME IInv, MoreDevices
  PROVE  /\ enum.set \in Sets /\ infoSet[enum.set].handle \in Lists
         /\ enum.next \in Nat
         /\ Len(list[infoSet[enum.set].handle]) \in Nat
<1>1. enum.set \in Sets /\ infoSet[enum.set].handle \in Lists
  BY DEF MoreDevices, HasList, IInv, SetShape
<1>2. PICK S \in SUBSET Paths : list[infoSet[enum.set].handle] \in Listings(S)
  BY <1>1 DEF MoreDevices, HasList, IInv, TypeOK, SetsOK
<1>3. list[infoSet[enum.set].handle] \in Seq(Paths)
  BY <1>2, ListingSize
<1> QED
  BY <1>1, <1>3, FS_CardinalityType, PathAssumption DEF IInv, TypeOK, SetsOK

LEMMA ListDomain ==
  ASSUME IInv, NEW l \in Lists, list[l] # Closed
  PROVE  DOMAIN list[l] = 1 .. Len(list[l]) /\ Len(list[l]) \in Nat
<1>1. PICK S \in SUBSET Paths : list[l] \in Listings(S)
  BY DEF IInv, TypeOK, SetsOK
<1> QED  BY <1>1, ListingSize

(* When the list of its loop is at its end, Main has seen all of it.       *)
LEMMA ListSearched ==
  ASSUME IInv, Searched, at = "loop", HasList, ~ MoreDevices
  PROVE  NoStripListed
<1> DEFINE l == infoSet[enum.set].handle
<1>1. l \in Lists /\ list[l] # Closed
  BY DEF HasList
<1>4. \A i \in 1 .. enum.next : list[l][i] \notin Strip
  BY <1>1 DEF Searched
<1>5. ~ (enum.next < Len(list[l]))
  BY DEF MoreDevices
<1>6. DOMAIN list[l] = 1 .. Len(list[l]) /\ Len(list[l]) \in Nat
  BY <1>1, ListDomain
<1>7. enum.next \in Nat
  BY FS_CardinalityType, PathAssumption DEF IInv, TypeOK, SetsOK
<1>8. ~ ListsStrip(list[l])
  BY <1>4, <1>5, <1>6, <1>7 DEF ListsStrip
<1> QED  BY <1>1, <1>8 DEF NoStripListed

(* If there is an output stream, it is the one that closes the file, after *)
(* the step as before it.                                                  *)
LEMMA OutClosesNext ==
  ASSUME NEW d \in Devs, "out" \in device'[d].streams
  PROVE  Closer(d)' = "out"
<1>1. DisposeOrder[1] = "out"
  BY DEF DisposeOrder
<1> DEFINE has == {i \in 1 .. 3 : DisposeOrder[i] \in device'[d].streams \cup {"handle"}}
<1>2. 1 \in has /\ \A i \in has : 1 <= i
  BY <1>1
<1>3. \A i \in has : (\A j \in has : i <= j) => i = 1
  BY <1>2
<1>4. (CHOOSE i \in has : \A j \in has : i <= j) = 1
  BY <1>2, <1>3
<1> QED  BY <1>1, <1>4 DEF Closer

LEMMA SearchStep ==
  ASSUME IInv, MainInv, Main
  PROVE  Searched'
<1>0. MainHolds /\ Searched
  BY DEF Main, GetSet, Foreach, NextDevice, EndOfList, OpenDevice, WriteColor,
     EndDevice, EndSet, Goto, MainInv, SampleInv
<1>t. infoSet \in [Sets -> SetRecords] /\ device \in [Devs -> DeviceRecords]
  BY DEF IInv, TypeOK, SetsOK, DevicesOK
<1>1. CASE GetSet
  BY <1>0, <1>1 DEF GetSet, Goto, Searched
<1>2. CASE Foreach
  <2>1. PICK s \in Sets : GetEnumerator(s)
    BY <1>2 DEF Foreach
  <2>2. /\ enum'.set = s /\ infoSet'[s].life = "held" /\ enum'.next = 0
    BY <2>1 DEF GetEnumerator, FirstIndex
  <2>3. at' = "loop" /\ told' = {}
    BY <1>0, <1>2 DEF Foreach, Goto, Searched
  <2> QED  BY <2>2, <2>3 DEF Searched
<1>3. CASE NextDevice
  <2> DEFINE q == list[infoSet[enum.set].handle]
  <2>1. /\ info' = q[enum.next + 1]
        /\ enum' = [enum EXCEPT !.next = @ + 1]
        /\ UNCHANGED <<infoSet, device, list, told>>
        /\ at = "loop" /\ at' = IF info' \in Strip THEN "getDevice" ELSE "loop"
        /\ MoreDevices
    BY <1>3 DEF NextDevice, MoveNext, windowsVars
  <2>2. enum'.set = enum.set /\ enum'.next = enum.next + 1 /\ enum.next \in Nat
    BY <1>3, <2>1, NextPath DEF IInv, TypeOK, SetsOK
  <2>3. \A i \in 1 .. enum.next : q[i] \notin Strip
    BY <1>0, <1>3, <2>1, NextPath DEF Searched
  <2>4. at' = "loop" => \A i \in 1 .. enum'.next : q[i] \notin Strip
    BY <2>1, <2>2, <2>3
  <2>5. told = {} /\ enum.set \in Sets /\ infoSet[enum.set].life = "held"
    BY <1>0, <2>1 DEF Searched
  <2> QED  BY <2>1, <2>2, <2>4, <2>5 DEF Searched
<1>4. CASE EndOfList
  <2>1. /\ at = "loop" /\ at' = "disposeSet"
        /\ UNCHANGED <<list, told>>
        /\ failed' = (MoreDevices \/ ~ HasList)
    BY <1>4 DEF EndOfList, Goto, ForgetEnumerator, windowsVars
  <2>2. ~ failed' => NoStripListed
    BY <1>0, <2>1, ListSearched
  <2>3. NoStripListed => NoStripListed'
    BY <2>1 DEF NoStripListed, ListsStrip
  <2> QED  BY <1>0, <2>1, <2>2, <2>3 DEF Searched
<1>5. CASE OpenDevice
  <2>1. PICK d \in Devs : GetDevice(d) /\ device'[d].life = "held"
    BY <1>5 DEF OpenDevice
  <2>2. at = "getDevice" /\ at' = "write" /\ UNCHANGED told
    BY <1>5 DEF OpenDevice, Goto
  <2>3. ~ OpenFails(d) /\ ~ NotReadable(d) /\ ~ StreamFails(d)
    <3>1. OpenFails(d) => device'[d].life = "dropped"
      BY <1>t DEF OpenFails, Shut, NoDevice
    <3>2. NotReadable(d) => device'[d].life = "dropped"
      BY <1>t DEF NotReadable, Opened
    <3>3. StreamFails(d) => device'[d].life = "dropped"
      BY <1>t DEF StreamFails, Opened
    <3> QED  BY <2>1, <3>1, <3>2, <3>3
  <2>4. device'[d].path = info /\ ~ device'[d].disposed
    BY <2>1, <2>3, <1>t DEF GetDevice, Constructed, Opened
  <2>5. \A e \in Devs : e # d => device'[e] = device[e]
    BY <2>1, <1>t DEF GetDevice, OpenFails, NotReadable, StreamFails,
       Constructed, Opened
  <2>6. \A e \in Devs : e # d => device'[e].life = "absent"
    BY <1>0, <2>2, <2>5 DEF MainHolds
  <2>7. told = {} /\ info \in Strip
    BY <1>0, <2>2 DEF Searched
  <2>8. \A e \in Devs : device'[e].life = "held" =>
          device'[e].path \in Strip /\ ~ device'[e].disposed
    BY <2>4, <2>6, <2>7
  <2> QED  BY <2>2, <2>7, <2>8 DEF Searched
<1>6. CASE WriteColor
  <2>1. at = "write" /\ at' = "disposeDevice" /\ told = {}
    BY <1>0, <1>6 DEF WriteColor, Goto, Searched
  <2>2. PICK d \in Devs :
          \/ WriteThrough(d) /\ told' = told \cup {device[d].path}
          \/ WriteBuffered(d) /\ UNCHANGED told
    BY <1>6 DEF WriteColor
  <2>3. HasOutput(d) /\ IsOpen(d)
    BY <2>2 DEF WriteThrough, WriteBuffered, Connected
  <2>4. /\ device[d].life = "held" /\ "out" \in device[d].streams
        /\ device[d].path \in Strip
    BY <1>0, <2>1, <2>3 DEF HasOutput, MainHolds, Searched
  <2>5. \A e \in Devs : /\ device'[e].life = device[e].life
                        /\ device'[e].path = device[e].path
                        /\ device'[e].disposed = device[e].disposed
                        /\ device'[e].file = device[e].file
                        /\ device'[e].streams = device[e].streams
    BY <2>2, <1>t DEF WriteThrough, WriteBuffered, DeviceRecords
  <2>6. told' \subseteq Strip
    BY <2>1, <2>2, <2>4
  <2>7. \A e \in Devs : device'[e].life = "held" =>
          device'[e].path \in Strip /\ ~ device'[e].disposed
    BY <1>0, <2>1, <2>5 DEF Searched
  <2>8. told' = {} => \A e \in Devs : device'[e].life = "held" => Flushes(e)'
    <3> SUFFICES ASSUME told' = {}, NEW e \in Devs, device'[e].life = "held"
                 PROVE  Flushes(e)'
      OBVIOUS
    <3>1. WriteBuffered(d)
      BY <2>2
    <3>2. e = d
      BY <1>0, <2>4, <2>5 DEF MainHolds
    <3>3. device'[d].buffered /\ IsOpen(d)'
      BY <3>1, <2>3, <2>5, <1>t DEF WriteBuffered, IsOpen
    <3>4. Closer(d)' = "out"
      BY <2>4, <2>5, OutClosesNext
    <3> QED  BY <3>2, <3>3, <3>4 DEF Flushes
  <2> QED  BY <2>1, <2>6, <2>7, <2>8 DEF Searched
<1>7. CASE EndDevice
  <2>1. at = "disposeDevice" /\ at' = "disposeSet"
    BY <1>7 DEF EndDevice, Goto, AfterDevice
  <2>2. PICK d \in Devs :
          /\ DisposeDevice(d)
          /\ told' = IF Flushes(d) THEN told \cup {device[d].path} ELSE told
    BY <1>7 DEF EndDevice
  <2>3. device[d].life = "held" /\ device[d].path \in Strip
    BY <1>0, <2>1, <2>2 DEF DisposeDevice, Searched
  <2>4. told = {} => Flushes(d)
    BY <1>0, <2>1, <2>3 DEF Searched
  <2>5. told' \subseteq Strip /\ told' # {}
    BY <1>0, <2>2, <2>3, <2>4 DEF Searched
  <2> QED  BY <2>1, <2>5 DEF Searched
<1>8. CASE EndSet
  BY <1>0, <1>8 DEF EndSet, Goto, Searched
<1> QED
  BY <1>1, <1>2, <1>3, <1>4, <1>5, <1>6, <1>7, <1>8 DEF Main

LEMMA SearchKept ==
  ASSUME Searched,
         UNCHANGED <<infoSet, device, enum, info, list, at, told, failed>>
  PROVE  Searched'
BY DEF Searched, Flushes, IsOpen, Closer, NoStripListed, ListsStrip

(* What the world does while Main runs, and the end of a program.          *)
LEMMA MainInvStep ==
  ASSUME IInv, MainInv, [SampleNext]_sampleVars
  PROVE  MainInv'
<1>0. SampleInv'
  BY SampleStep DEF MainInv
<1>1. CASE Main
  BY <1>0, <1>1, SearchStep DEF MainInv
<1>2. CASE EndOfProgram
  BY <1>0, <1>2 DEF EndOfProgram, MainInv, Searched
<1>3. CASE at = "elsewhere" /\ UNCHANGED <<at, told, failed>>
  BY <1>0, <1>3 DEF MainInv, Searched
<1>4. CASE World /\ UNCHANGED <<at, told, failed>> /\ at # "elsewhere"
  <2>1. /\ \A s \in Sets : ~ FinalizeSet(s)
        /\ \A d \in Devs : ~ FinalizeDevice(d)
    BY <1>4 DEF MainInv, SampleInv, MainHolds, FinalizeSet, FinalizeDevice
  <2>2. PICK p \in Paths : Plug(p) \/ Unplug(p)
    BY <1>4, <2>1 DEF World
  <2>3. UNCHANGED <<infoSet, device, enum, info, list>>
    BY <2>2 DEF Plug, Unplug, objectVars
  <2> QED  BY <1>0, <1>4, <2>3, SearchKept DEF MainInv
<1>5. CASE UNCHANGED sampleVars
  BY <1>0, <1>5, SearchKept DEF MainInv, sampleVars, vars, objectVars, windowsVars
<1> QED
  BY <1>1, <1>2, <1>3, <1>4, <1>5 DEF SampleNext, OtherProgram

(* At each place of the sample, what Main holds and what it has told.      *)
THEOREM MainInvariant == SampleSpec => []MainInv
<1>1. SampleSpec => []IInv
  BY SampleUsesLibrary, LibInvariant, PTL
<1>2. SampleInit => MainInv
  BY SampleStarts DEF MainInv, SampleInit, Searched
<1> QED  BY <1>1, <1>2, MainInvStep, PTL DEF SampleSpec

(* Main (Program.cs) sends its report to a strip and to nothing else, and  *)
(* leaves its loop without doing so only if the enumeration failed before  *)
(* the end of the list or no strip is in the list, for every list, every   *)
(* order of it, and whether the stream buffers the four bytes or writes    *)
(* them.                                                                   *)
THEOREM StripIsTold == SampleSpec => []StripTold
<1>1. MainInv => StripTold
  BY DEF MainInv, Searched, StripTold
<1> QED  BY <1>1, MainInvariant, PTL
=============================================================================

# Verification of buildmonitor-arduino

TLA+ models, model-checking runs and machine-checked proofs for the firmware
and host software of the build monitor: an LED strip of 32 colour LEDs that an
AVR with a USB controller refreshes 120 times a second, and whose colour a
Windows program sets by a HID report.

In this file P is `src/LedStripControllerAvrStudio/LedStripControllerAvrStudio`
U is `P/LUFA/Drivers/USB`, and H is `src/BuildMonitorCommunicator/HIDLib`.

## 1. The system

| Component | State it keeps | Operations | Hard behaviours |
|---|---|---|---|
| Frame path (`P/main.cpp` 13-45, 106-164) | `buffer`, `bufferIndex`, `colors`, `refreshFrame`, `millis`, `extraMicros` | main loop: render, hand over; interrupt routines: SPI byte done, timer 3 tick | shared buffer without a lock, four-byte clock read with interrupts on, late interrupts, wrap-arounds |
| USB controller and endpoint driver (LUFA, `U/Core/USBTask.c`, `U/Core/AVR8/`) | device state, selected endpoint, interrupt enables, endpoint registers | device task, interrupt routine (VBUS, suspend, wake-up, reset), control streams, status stage, endpoint configuration | the routine changes state and selection under the main loop; busy waits inside handlers; host timeouts |
| Standard requests (`U/Core/DeviceStandardReq.c`) | configuration number, remote wake-up flag, `USB_ControlRequest` | one handler a request | a new request before the last is done; values written after a wait |
| HID class driver and callbacks (`U/Class/Device/HIDClassDevice.c`, `P/hidInfo.c`, `P/main.cpp` 47-104) | protocol, idle count, report buffer on the stack | six class requests, endpoint configuration, report callbacks | stream results ignored |
| Descriptors (`P/descriptors.c`) | constants | lookup | lengths at packet boundaries |
| Windows library (`H/Device.cs`, `H/DeviceInfo.cs`, `H/DeviceInfoSet.cs`) | the raw handle of a device list, `nextIndex`, the file handle two streams share, `disposed` | list, enumerate, open, write, dispose, finalize | failures half-way, finalizers, handle values given out again, buffered reports, devices unplugged |
| Sample program (`HIDSample/Program.cs`) | where `Main` is | finds the strip, sends one colour | exceptions inside two `using` blocks; what it waits with at its prompt |
| Rest of LUFA | - | - | not reached: the firmware is built as a device only |

How they interact: `main` loops over *render if the strip wants a frame*,
`HID_Device_USBTask` and `USB_USBTask`. The two SPI/timer routines take the
buffer from `main` through the flag `refreshFrame`. `USB_USBTask` handles at
most one control request, **blocking** in it; requests reach the HID driver
through the event `EVENT_USB_Device_ControlRequest` and the report callback
writes `colors`, on the main loop's thread. The USB interrupt routine runs
between any two instructions of the main loop and shares the device state, the
configuration number, the interrupt enables and the selected endpoint with it.
The host library only sends `SetReport`.

What makes each part correct:

* frame path: main never touches a buffer that is being sent; every frame shown
  is whole and one rendering; the clock loses no microsecond; the exchange goes on;
* USB device: an answer belongs to its request; a request is stalled only if
  nobody handles it (or it came too early); every transfer ends; the main loop
  comes back; the address is enabled after the status stage; a configuration is
  kept; a sleeping device can be woken; the endpoint written is the one meant;
* HID: the colours are those of the last report the host saw complete, and
  never bytes nobody sent;
* host library: whatever is acquired is released once, by its owner, on every
  path; a report written reaches the device or an exception says it did not;
* sample: the strip and nothing else gets the report; nothing stays open at the
  prompt.

The hazards, line by line, are in `PROJECT.json`.

## 2. The modules

| Module | Contents |
|---|---|
| `FrameExchange` | abstract specification: one buffer passed between main and strip |
| `LedFrame` | the frame path: main loop, both routines, SPI shifter, timer 3, strip |
| `LedFrameMC`, `LedFrame*.cfg` | instances for TLC |
| `LedFrameProofs` | type correctness, safety and refinement, for all constants |
| `UsbDevice` | main-loop side and interrupt side of USB, the control endpoint, the host and the bus |
| `UsbDeviceMC`, `UsbDevice*.cfg` | instances for TLC |
| `UsbDeviceInv` | the inductive invariant of the USB side, in named parts |
| `UsbDeviceProofs` | endpoint selection and wake-up, for all constants |
| `UsbHandlerProofs` | where a handler can be: its places, types, what a step leaves alone |
| `UsbTransferProofs` | the bus, the bank, the request and the outcome of a transfer |
| `UsbInvariantProofs` | reports, address, configuration; the theorems of the USB side |
| `ControlPipe` | abstract specification: one control request at a time, served or refused |
| `Firmware` | the main loop with both its halves: `FrameExchange` and `UsbDevice` composed |
| `FirmwareMC`, `Firmware.cfg` | instance for TLC |
| `FirmwareProofs` | both halves keep, together, what is proved of each alone |
| `HidLib` | the Windows library, any program that uses it, Windows and the .NET runtime |
| `HidSample` | `Main` of the sample, a program that uses `HidLib` |
| `HidLibMC`, `HidSample.cfg` | instances for TLC |
| `HidLibProofs` | ownership of handles, delivery, the sample at its prompt, for all constants |

### LedFrame

An interrupt routine is one action (AVR masks interrupts inside it). The main
loop is cut at each access to what it shares: `Poll` (144), `CopyByte` (148, one
action a byte of the four-byte load, in any order), `Fill` (one buffer byte,
150-155), `Release` (158), `UsbTask` (160-161, perhaps one report, filtered as
in `ProcessHIDReport`, 97). `SpiStc` is 21-29, `Timer3Compa` 31-45 with
`AdvanceClock` 33-38. `Elapse` (hardware) lets one SPI byte time (8 us) pass: it
counts timer 3, sets its flag, completes a byte. Interrupts may be served late,
by `MaxLate` byte times in all per period; a write to SPDR under way is ignored,
as the data sheet says. The brightness formula is uninterpreted: a byte *is*
(channel, colour, time).

`late`, `elapsed` and `seen` are bookkeeping that no code reads.

### UsbDevice

A handler is a sequence of named steps (`Handler`), in the order of the code;
`todo` is what is left of it. Each access to a flag or to state the interrupt
routine or the host also uses is a step, and so is every busy wait (a step that
is not enabled until the wait ends). `|=` on `UDIEN` is a load and a store, and
so is the assignment of a conditional expression to `USB_DeviceState`.
The loop of `Endpoint_Read_Control_Stream_LE` takes one packet a step (`Receive`),
that of the write stream one round a step (`Send`).
`UsbGen` is one of the four causes of the interrupt routine, in the order of its
`if`s; a pending interrupt preempts the main loop. The PLL waits and the
start-of-frame event are left out (the latter counts idle milliseconds for
reports that are never sent).

Data: a request is its name, one argument (a length, number of 8-byte packets,
endpoint or value), whether its last packet is full, whether it is a report of
type Out, and a colour. The status of the device (`GetStatus`) and that of an
endpoint (`GetEndpointStatus`) are two requests, as are the halt of an endpoint
and its other features (`OtherFeature`, which the code acknowledges without doing
anything, `DeviceStandardReq.c` 342 and 372-376). An answer in the bank is the
request it answers, which is all `AnswersMatch` needs; so the bit `ReadStall`
reads is not kept, only the selection it is read under and restores (305-311).

`Endpoints` are the seven of this controller (`Endpoint_AVR8.h:132`); a host
names only endpoints the controller has (`RequestAssumption`), since the code
selects the endpoint a request names before it looks at anything else.
`Endpoint_ConfigureEndpoint_Prv` (`Endpoint_AVR8.c` 74-110) goes over the endpoint
it is called for (`ConfigureIN`) and then over every higher one, one step each
(`RewriteHigher`): those that have memory are disabled and configured again as
they were, and a reset between two steps changes the endpoint that is hit. The
interrupt routine runs the same loop from endpoint 0, in one action, since
nothing interrupts it (`BusWasReset`). An endpoint a bus reset has disabled either
keeps its memory (`"disabled"`) or does not (`"off"`); the data sheet does not say.

Host and bus (external, modelled from what the code relies on): a SETUP packet
is always accepted, drops an IN packet not yet sent, ends a stall, and holds
back tokens until it is cleared; the reset of the bus forgets the address and
disables the other endpoints. A host that completed a transfer may send the next
request at once, even before the device has returned from the handler. One that
gave a transfer up, or saw the bus disturbed, waits much longer than the main
loop runs between two waits (`Settled`). Bus events wait for the interrupt
routine (milliseconds against microseconds). The host assigns the address before
anything else but descriptors (`Sensible`).

### ControlPipe

What a host sees of the device: a request is pending, then served by its own
handler, or refused; a request the firmware knows (`Supported`, the cases of
`DeviceStandardReq.c` 66-115 and of the HID driver) is refused only if it was
sent before the handler of the last one had returned (the check at 118). The
host may give it up, or lose it to the bus. `UsbDevice` implements it by the
mapping `Pipe`: `state` (`PipeState`) and `answer` (`PipeAnswer`) are read off
the host's transfer, so the specification says nothing of flags, banks and waits.

### Firmware

`LedFrame` implements `FrameExchange`, so `Firmware` takes the frame path as that
exchange and the USB side as `UsbDevice`, step by step. They share the thread of
the main loop (`tested`: rendering, 144-159, comes before each USB task, 160-161;
while a handler waits nothing is rendered) and `colors`, which a report writes in
the middle of a handler and rendering reads. A frame is the colour it was
rendered from: the brightness, and the time a rendering takes, are in `LedFrame`.
No step of USB runs inside a rendering, which is on the same thread.

### HidLib and HidSample

One action for each operation of the library: `GetByClass` (`DeviceInfoSet.cs`
54), `GetEnumerator` (28), `MoveNext` (80-127), `Reset` (97), `DisposeSet` (22),
`GetDevice` (`DeviceInfo.cs` 18) with the four ways out of the constructor of
`Device` (`OpenFails` 23, `NotReadable` 29, `StreamFails` 45-51, `Constructed`), `DisposeDevice`
(`Device.cs` 56), `DisposeThrows` (the same when the flush at 74 throws), and the
finalizers `FinalizeSet` and `FinalizeDevice`. `Program` is any program that
calls these in any order, drops its references or ends; `HidSample` restricts it
to `Main`, and since `SampleNext` also has any other program before and after
it, the run of the sample checks the library on its own, too.

`MoveNext` takes every failure of `SetupDiEnumDeviceInterfaces` for the end of the
list (85-94). `EndOfList` of the sample may therefore happen anywhere in its loop;
the history `failed` tells whether it came before the end of the list, or under a
handle that has no list.

External, modelled from what the code relies on: Windows gives the value of a
closed handle out again, opens a device to one file at a time (share mode 0),
lists the devices plugged in in any order, answers a failure to list with
INVALID_HANDLE_VALUE; `FileStream` keeps less than a buffer until it is
disposed of, writes it then if its file is still open, and closes the file even
if that write throws. An object is finalized only when the program cannot reach
it; an enumerator reaches its set; the streams of a `Device` do not reach the
`Device`, so one may be finalized while the program writes to the other
(`life = "stream"`).

`DisposeOrder` is the order of 72-80: all three share one file, so the first of
them closes it (`Closer`), and only the output stream writes its buffer.
A failed constructor leaves an object the program has no reference to
(`"dropped"`). `GetByClass` of a zero handle and calls that throw before they
change anything are no steps. `owed`, `told` and `failed` are
histories. A write of which a part fills the buffer and a rest stays in it leaves
what `WriteBuffered` leaves.

## 3. The runs

| Run | Instance | Shows |
|---|---|---|
| `led_frame_safety` | 2 LEDs, 2 colours, millisecond of 3 us, tick of 2 ms + 1 us, clock of 4 ms, period 8, lateness 1 | types and the inductive invariant; exclusive buffer; a tick never meets a frame; whole frames; exact clock |
| `led_frame_exchange` | 1 LED, 3 colours, fair | the frame path implements `FrameExchange`, liveness included; the strip settles on the last colour |
| `led_frame_torn_time` | clock of two bytes | **finding**: the copy of `millis` at 148 can be a time the clock never showed |
| `usb_safety` | address, configuration, two-packet descriptor, report; bus may be unplugged, reset, suspended, transfers given up | nine safety properties of the USB side (below), `ControlPipe` among them; the inductive invariant, which has the types |
| `usb_requests` | every request of `MCAllRequests`, quiet bus | only the unknown is stalled, only three-byte Out reports count, the selection is restored after halts and after the status of an endpoint; types and the inductive invariant |
| `firmware` | one request for each way a handler waits, two report colours, quiet bus, fair | `ControlPipe` with its liveness: every request is served or refused; the frames go on whatever the handlers wait for; the colour of a report seen complete is in the end shown; uninitialised bytes are not shown |
| `hid_sample` | two sets, two Devices, one list handle, two file handles, two devices | ownership of handles, delivery of reports, what the sample tells whom and what it holds at its prompt; the inductive invariants of the library and of `Main` |
| `usb_serviced` | host gives transfers up, fair | **finding**: the main loop may hang in a status stage |
| `usb_configured` | suspend | **finding**: a device with only an address wakes up as Configured |
| `usb_reports` | host gives transfers up | **finding**: an uninitialised buffer becomes the colour of the LEDs |
| `usb_control` | reset | **finding**: the control endpoint is configured as an interrupt endpoint |
| `usb_addressed` | reset | **finding**: a reset ends the wait of SetAddress, and the device enables an address that is gone |

The properties of `usb_safety`: `StalledOnlyIfRaced` (a request with a handler
is stalled only if it came while the last one was handled), `AnswersMatch`,
`GarbageOnlyIfBroken` (uninitialised colours need a broken-off report),
`ReportTaken` (the colours are those of the last complete report),
`WakeupArmed`, `ControlSelected`, `ConfigurationKept`, `AddressAfterStatus`, and
`ServesPipe`: what the host sees of its transfers, on any bus, is a behaviour of
`ControlPipe`.

Bounds, and why they suffice. Two LEDs make a frame of six bytes: the first,
inner and last byte differ, as do two LEDs in one rendering. The small clocks
carry, wrap and keep a remainder, as 332 us in 1000 and 2^32 ms do; the lateness
leaves room for a frame. All values, interrupts later than a whole period
included (rewound frames, lost ticks), are covered by the proofs; that the
buffer is exclusive does not depend on them (`Exclusion`). On the USB side a descriptor of two full packets has
a first, a last and the empty packet, and a report of nine bytes a full packet and
a last one; reports of none, two and three bytes and of another type are the rest
of what the code tells apart; the idle count set is the one a configuration sets
anyway (125 times 4), since no code reads it; that a handler selects its endpoints
safely is checked with resets for SetConfiguration (`usb_safety`), without for
GetStatus and halts (`usb_requests`), and proved with resets for all; one address, one configuration, one report
colour beside the power-up colour are what the firmware tells apart. Nothing
bounds the number of requests, resets or suspensions: the state spaces are
finite and TLC exhausts them.

On the host side two sets compete for one value of a list handle, so that it is
given out again after every disposal; two Devices compete for two files and two
devices, one with reports of both kinds and one without any (`MCKinds`; the
proofs have every set of kinds). Objects are reused once they are finalized, so
the number of calls is unbounded. Sets, Devices and handle values are symmetric:
nothing chooses among them.

Deadlock is checked in every run: the system never stops.

Fairness. `LedFrame`: weak fairness of the main loop, of both routines and of
time: the CPU runs one instruction of main between interrupts, and pending
interrupts are served. `UsbDevice`: weak fairness of the routine, of the main
loop, and of the host sending tokens and further requests; nothing makes the
host give up or the bus change, so liveness assumes neither. `Firmware`: weak
fairness of the main loop as a whole (a waiting handler is not enabled), of the
frame interrupts, of the USB routine and of the host's tokens and requests.
`HidLib` assumes none: nothing says when a finalizer runs or a user presses a key.

Each property of a passing run is known to fail under a mutation of a mapped
definition (`mutants` in `PROJECT.json`; the mutated operator stands before the
operator it would replace).

### Findings

1. `main.cpp:148`: torn read of `millis` (`util/atomic.h` is included, unused).
   The brightness of one frame is that of a time 0.25 s, 65 s or 4.7 h away.
2. `Template_Endpoint_Control_W.c:74`, `Endpoint_AVR8.c:133`: waits for the
   status stage ignore a new SETUP. After one transfer given up at its status
   stage the main loop, and with it rendering, hangs until the bus is suspended
   or unplugged (`USBTask.h:160`: the task must be serviced within 30 ms).
3. `HIDClassDevice.c:85`: the result of the stream is ignored; a report broken
   off sets the LEDs to stack contents.
4. `USBInterrupt_AVR8.c:153` and `DeviceStandardReq.c:203`: Configured without a
   configuration (`Device.h:91-98`).
5. `Endpoint_AVR8.c:80`: a reset between the selection of the IN endpoint and
   the write of its registers reconfigures the control endpoint.
6. `DeviceStandardReq.c:135-139`: a reset while SetAddress waits for its status
   packet to go empties the bank and so ends the wait; the address is enabled and
   the state set to Addressed for a host that has given none (`Device.h:91-94`).

## 4. The proofs

`LedFrameProofs` proves, for every number of LEDs whose frame fits an unsigned
char, every clock, period and lateness (assumptions `SizeAssumption`,
`ColorAssumption`, `ClockAssumption`, `TimingAssumption`):

* `TypeCorrect`, `Exclusion`: from `TypeOK /\ ControlInv`. Exclusion alone is not
  inductive: it needs that a frame is on its way exactly while the index is
  inside the buffer. No timing is assumed.
* `Deadline`: adds `TimingInv`, the time since the tick is the bytes sent plus
  the lateness so far; under `FrameFitsPeriod` the tick comes after the frame.
* `Wholeness`, `Inductive`: add `DataInv`, what has been filled, handed over and
  sent is a prefix of one rendering.
* `ClockExact`: `1000 * millis + extraMicros` plus the pending tick is the time
  elapsed, modulo the range of the clock.
* `Refinement`: the frame path implements the safety part of `FrameExchange`;
  the last byte of a frame is `Transmit`, `Release` is `Render`, all else stutters.

`UsbDeviceProofs` proves, for every set of requests and disturbances:

* `Selection` (`ControlSelected`). It rests on the order of steps in a handler
  (`Ordered`), which holds of every handler (`HandlerOrdered`) and of every tail:
  a step that selects another endpoint is followed by one that restores the
  selection (`halt`, `readStall`) before any that uses the control endpoint, and
  after `selectIN` no step uses it.
* `Wakeable` (`WakeupArmed`). The main loop may write back enables it read
  before a suspension and so undo the enabling of the wake-up interrupt. What
  saves it (`SleepInv`) is that exactly one of the two interrupts is enabled at
  any time, in the register and in the copy, and that the suspend flag is not
  cleared by its routine, which therefore runs again.

`UsbInvariantProofs` proves `UsbInvariant`, that `IInv` of `UsbDeviceInv` holds
for every set of requests, every colour, every length of a report or descriptor
and every disturbance, and from it `TypeOK` and seven of the nine properties of
`usb_safety` (the other two are above). None of them is inductive. Each says what a host may
see; the invariant says why, at every place of a handler (`Place`: the next step
of `todo`, or `pc` between handlers), for each stage of the host's transfer. A
pending request is `Unread` (its SETUP is in the bank), `Taken` (read, not yet
cleared) or `Own` (cleared by its own handler).

* Where a handler can be. `TypeOK` makes `todo` a tail of the handler of
  `request` (`HandlerOK`). Streams leave a handler by dropping one step more
  (`Escape`), and that is a tail again. `UsbHandlerProofs` turns this into what
  the rest of the proof uses: which places follow which (`Follows`).
* `StageInv`: a handler runs only for a request the firmware has a handler for,
  and a transfer is in a stage its request has.
* `BusInv`: while a transfer is pending the bus is active and the clock not
  frozen; a reset or a lost VBUS not yet served means the transfer is lost. Waits
  are broken off by the state of the device, so this is what excludes that a
  handler leaves a wait early while the host still waits.
* `BankInv`: a request is read only with an empty bank, so that no answer to an
  older one is left in it. It holds because a SETUP that arrives while a handler
  still writes is stalled by the check at 118. The handler of SetConfiguration is
  the exception, and needs its own clause: it ends with endpoint 1 selected, so
  the check looks there and the new SETUP stays in the bank, to be read by the
  next task. That is harmless because nothing after its status packet writes to the
  bank: its loop over the endpoints has five rounds left at most, none of which is
  round 0, so only a reset (which loses the transfer) has it hit the bank.
* `SetupInv`: what `setup`, `request` and `xfer.req` say of each other in
  `Unread`, `Taken` and `Own`: with `BankInv` this is `AnswersMatch` and
  `StalledOnlyIfRaced`, which are carried along in the induction.
* `ReportInv`: while no report is broken off, the packet of a report goes from
  the host to `report` and from there to `colors`, with no other request between;
  every OUT packet in the bank belongs to the step that is about to read it. A
  report of several packets is counted: what the host has still to give, what is
  in the bank and what the stream has still to read add up at every step
  (`PacketsType` bounds them).
  `GarbageOnlyIfBroken` and `ReportTaken` need all of it.
* `ConfigInv`: what is left of SetConfiguration after its status stage (`Kept`),
  step by step, as the host may count on the configuration from then on.
  `ConfigurationKept` also needs that a device with an unfrozen clock and no
  pending interrupt is awake (`SleepInv` of `UsbDeviceProofs`).
* `AddressInv`: at the last wait of SetAddress the status packet is not yet
  gone, at the next step it is.

The step needs one fact proved apart, `ControlSelected` (`Selection`): else a
handler would write to another endpoint's bank. `UsbTransferProofs` and
`UsbInvariantProofs` have one lemma for each part (`BusStep`, `BankStep`,
`SetupStep`, `OutcomeStep`, `ReportStep`, `AddressStep`, `ConfigStep`), and under
it one step for each kind of action: the main loop, the interrupt routine, the
host, the bus.

* `Refinement` (`ServesPipe`): `SendSetup` is `Begin`, the last packet of a
  transfer `Serve`, a stall `Refuse`, a lost transfer `Lose`, all else stutters.
  That `Serve` carries the right answer is `AnswersMatch`, that `Refuse` is
  allowed is `StalledOnlyIfRaced`, both in the state after the step.

Two things changed in the model for it: the mapping to `ControlPipe` was a CASE
with overlapping guards, whose value TLA+ leaves open (TLC takes the first), and
is an IF now; and the endpoint of a halt was any number, of which the controller
selects by some bits only.

`FirmwareProofs` proves that the composition takes nothing from its halves:

* `FirmwareServesUsb`: every step of the firmware is one of `UsbDevice` or leaves
  all of its variables alone, so every theorem above holds of the firmware, too
  (`FirmwarePipe` and `FirmwareReports` are two of them).
* `FirmwareExchanges`: whatever blocks the main loop, the frames are exchanged as
  `FrameExchange` says. That a frame is one of its frames is `TypeOK` of
  `UsbDevice`, through `colors`.
* `StripNeedsBreak` (`GarbageShownOnlyIfBroken`): the strip may still show a
  colour that is no longer in `colors`, so `GarbageOnlyIfBroken` is not enough by
  itself; with that a report once broken off stays so in the history
  (`BrokenStays`), it is.

`HidLibProofs` proves, for all sets of objects, handle values, devices and kinds
of reports (`HandleAssumption`: no handle is zero or INVALID_HANDLE_VALUE;
`PathAssumption`, `KindAssumption`, `ClosedAssumption`, `StripAssumption`: a
finite set of devices, and markers that are none of the things they mark):

* `LibInvariant` (`IInv`), from it `ListHandles`, `FileHandles`, `Delivery`. The
  ownership invariants alone are not inductive: a set or a Device that is not
  allocated must own nothing (else a new object would take over a handle), a set
  whose handle is one of a list must not be disposed of, and a Device with a full
  buffer must have an output stream (else disposing of it would close the file
  under the buffer); this is `SetShape` and `DeviceShape`. The step is proved in
  three parts: sets and lists, Devices and files, and the rest.
* `SampleUsesLibrary`: each step of the sample is one of a program of `HidLib`,
  so all of this holds of it.
* `CleanPrompt` (`CleanAtPrompt`): `MainHolds` says what `Main` holds at each
  place; at most one set and one Device, and never a dropped one, so that no
  finalizer runs.
* `StripIsTold` (`StripTold`), for lists of every length and order: `Searched`
  adds the loop invariant (no strip among the devices passed by), and that a
  Device with the report unsent has it in a buffer which `Dispose` will write,
  because the output stream comes first in `DisposeOrder`. A loop that ends
  having told nobody ends with a list in which no strip is, unless the enumeration
  failed (`failed`); a failed `SetupDiGetClassDevs` is such a failure, so the
  invalid handle is not counted as an empty list.

Only model-checked: liveness (`StripSettles`, the fair part of
`ExchangesFrames`, `ServesPipeFairly`, `FramesGoOn`, `ShowsReport`), which is
beyond the prover (it needs fairness and ENABLED). Every invariant, and every
action property, that a passing run checks is also the statement of a theorem.

## 5. Not modelled

* The arithmetic of the brightness formula (floating point) and of `RgbColor.h`,
  whose operators the program does not use; the compiler's freedom to move stores
  to the non-volatile `buffer`.
* Of USB: the PLL waits, data toggles, remote wake-up signalling, the start-of-frame
  event, descriptor contents, endpoint streams other than the control endpoint's
  (nothing calls them).
* Of the Windows side: the preparsed data of a Device (`Device.cs` 29 reserves them,
  nothing calls `HidD_FreePreparsedData`: they are lost on every path); programs that close a public stream themselves (closing
  `InputStream` closes the file under `OutputStream`), programs with several
  threads or several enumerators, `RegisterForUsbEvents` and
  `UnregisterForUsbEvents` (one call each, never called), a stream of a Device
  that is written to after its file is closed (it throws).
* LUFA code the firmware does not link: host mode, the other device classes, the
  XMEGA and UC3 ports, board drivers and templates. Of the vendored library's
  sixty thousand lines the program reaches the few files named in section 1; a
  model of the rest would be one of code that never runs here, so the map names
  only a small share of the lines in the repository.

## 6. Plan

Done: the frame path, the USB side, their composition, the Windows library and
the sample, with their abstract specifications, and the proofs of section 4.

Left for the proofs: that `LedFrame`'s rendering, with the colours changing under
it only between renderings, is `RenderTask` of `Firmware`; lemmas on the abstract
specifications themselves (that a `ControlPipe` serves a request once, that a
`FrameExchange` shows frames in order). Liveness stays with TLC.

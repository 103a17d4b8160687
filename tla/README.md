# A TLA+ model of the KFly flight controller

KFly_ChibiOS is the firmware of a quadrotor flight controller: C on ChibiOS/RT,
one STM32F4 core, threads of strict priority, interrupt handlers and virtual
timers. This directory holds TLA+ modules that model its concurrent and stateful
parts, TLC configurations that check them on small instances, and proofs, checked
by TLAPS, of what holds for every instance. Paths are relative to `src/`.

1. [Inventory](#1-inventory)
2. [What the models take from the platform](#2-what-the-models-take-from-the-platform)
3. [Modules](#3-modules)
4. [Runs, bounds and fairness](#4-runs-bounds-and-fairness)
5. [Findings](#5-findings)
6. [Proofs](#6-proofs)
7. [What is not modelled](#7-what-is-not-modelled)
8. [Plan](#8-plan)

## 1. Inventory

### The parts and how they interact

    RC receiver --SBUS thread, CPPM/RSSI interrupts--> rc_input --levels, switches--> arming --armed?--> control
    ground station --serial manager, SLIP, packet layer--> parsers --settings, overrides--> all modules
    sensors --interrupt, event--> sensor_read --event--> estimation --event--> control --values--> rc_output
    all modules --GenerateMessage--> circular buffer of the port --event--> data pump --> USB or UART
    modules with settings --save event--> flash_save --> external flash;  read back once, at boot

| Part | State | Operations | Hard behaviour | Correct when |
|---|---|---|---|---|
| **Circular buffer, SLIP encoder, generators** (`communication/src/circularbuffer.c`, `slip.c`, `kflypacket_generators.c`) | head, tail, data region, write lock of each port | `GenerateMessage`, `GenerateSLIP*`, `CircularBuffer_*` | a frame is written behind head byte by byte while the pump moves tail without the lock; unsigned 32-bit space arithmetic; messages that do not fit | frames enter whole or not at all, nothing unread is overwritten |
| **Serial manager, transmit side** (`serialmanager.c`, `usb_access.c`, `usbcfg.c`) | event of each data pump, USB mutex, USB state | `StartTransmission`, `USBTransmitCircularBuffer`, `SerialTransmitCircularBuffer` | wake-ups, a USB host that leaves in mid-transfer | committed bytes leave in order; no wake-up is lost |
| **SLIP decoder, packet layer, serial manager receive side** (`slip.c`, `slip2kflypacket.c`) | parser state, buffer, statistics, handler and ACK flag | `ParseSLIP`, `ParseKFlyPacketFromSLIP` | lost, inserted, changed bytes; packets too long or of wrong size | damage costs at most one intact frame; what runs is what was sent |
| **Packet parsers** (`kflypacket_parsers.c`) | none of their own | one handler for each command | handlers preempted between the copy and the use of settings | each handler belongs to the module whose state it changes; a setting changes by its own command only and comes back as it was |
| **Subscriptions** (`subscriptions.c`) | slots with timers, mailbox of slot addresses | `vParseManageSubscription`, timer callback, `SubscriptionsTask` | slots freed and reused while their address waits; a full mailbox | slots are a table of pairs, each with a running timer, each served again and again |
| **Save to flash, external flash** (`external_flash/src/flash_save.c`, `ext_flash.c`) | pages, mutex, save event of five threads | `FlashSave_Write`, `_Read`, `_EraseAll`, save threads, boot | loss of power between erase and write; sets, saves and erases during boot; settings read while they change | a write damages no other record; what is saved is found |
| **Arming, motor override** (`control/src/arming.c`) | armed flag, three counters, latch, override with timeout | arming thread, `vParseMotorOverride`, `vForceDisarm`, `ParseSetArmSettings` | counters of two branches that clear each other; a receiver that changes between two reads; a parser preempted between two statements | arms only after a full hold or a fresh press; stops when the pilot is gone |
| **Computer control link** (`control/src/computer_control.c`) | link flag, mode, timer | `vParseComputerControlPacket`, timeout | a packet against its own timeout | no timeout disarms while the computer flies |
| **Control loops** (`control/src/control.c`, `control_reference.c`, `attitude_loop.h`, `rate_loop.h`, `pid.h`) | one structure of references for all modes and drivers; integrals, last errors and filter states of the controllers | control thread, `vUpdateControlAction`, settings parsers | which source drives the motors in which mode; cases that fall through; what is kept from cycle to cycle | each cycle uses only references it wrote, for whoever may drive; integrals start from zero after a stop |
| **RC input** (`rc_input/src/rc_input.c`) | connection, mode, SBUS parser, CPPM and RSSI counters, lookup, timeout | SBUS thread, capture interrupts, timeout, settings command, initialisation | interrupts between flag, mode and timeout; reinitialisation preempted by reception; noise | a connection is always watched; a clean line connects; a role is read from its own channel; a level is where the stick is |
| **RC output** (`rc_output/src/rc_output.c`) | buffers of timer values, DMA, timers | `RCOutputSetChannelWidth`, `RCOutputSync`, `RCOutputInitialization`, settings command | a buffer refilled while its transfer waits or runs; timers stopped and reprogrammed under the control thread | each DShot frame is one whole packet, the outputs rest between frames, widths are fresh, a command never stops the outputs for good |
| **Sensor readout** (`sensors/src/sensor_read.c`, drivers of the two chips) | raw and calibrated data, calibration, sample time, mutexes | interrupt, readout thread, getters, calibration commands | a cycle counter that wraps, a latched interrupt pin, transfers that fail, data and calibration read and written in several steps | time is exact; data are of one reading under one calibration; every sample is read |
| **Estimation** (`estimation/src/estimation.c` and filters) | attitude states | estimation thread | the estimate has no lock; it is read by the control thread and by every message | the control thread, and whoever accepts a message, sees a whole estimate; every reading reaches the motors |
| **Motion capture** (`motion_capture.c`) | last frame and its number | packet parser, estimator | the estimator compares numbers, and then reads the frame | the estimate stays whole |
| **System information, start and stop** (`system_information.c`, `system/system_init.c`, `bootloader.c`, `main.c`) | strings, statistics | `vSystemInit`, `vSystemDeinit` | the order of initialisation: the serial manager runs before estimation and control are initialised | settings read at boot survive commands that come early |
| **CRC** (`crc/src/crc.c`) | none | `CRC8`, `CRC16` and their steps | the order of bits and bytes on the line is not that of the polynomial | tables equal their definition; a burst of damage is detected |
| **COBS** (`communication/src/cobs.c`, no caller) | the open block, the decoder | `EncodeCOBS*`, `ParseCOBS` | a block's code is changed back and forth as data come | what is decoded is what was encoded |
| **Mathematics** (`math/`, `lib/arm_math.h`) | none | pure functions | | |

## 2. What the models take from the platform

* One core, no time slicing (`CH_CFG_TIME_QUANTUM 0`, `chconf.h:84`): a thread is
  interrupted only by a thread of higher priority, by an interrupt, or when it
  waits. The SBUS thread is `HIGHPRIO`, the arming and sensor threads
  `HIGHPRIO-1`, control and estimation `HIGHPRIO-2`, all others `NORMALPRIO`. So the
  estimate, which has no lock, is kept whole for the control thread by the two
  having one priority and neither waiting in the middle of its work; and a
  tick of the arming thread is one action to the packet parsers, and a parser is
  cut at every statement after which an arming tick makes a difference.
* Between threads of one priority no switch happens except where one waits
  (mutex, event, I/O). `SerialTx` makes no use of this: `GenerateMessage` is called
  from threads of every priority, so its steps interleave at every byte.
* Mutexes are queues of waiters and are not recursive (`chconf.h:196`); their owner
  inherits the priority of those who wait. `Kernel` states priorities, inheritance
  and turns as operators, for the modules that rest on them (`ImuPipeline`).
* Sections under `osalSysLock`, and interrupt handlers, are single actions.
* The kernel, the drivers and CMSIS are not in the repository's own code; events,
  mailboxes, virtual timers and captures are modelled from how the code uses them.

## 3. Modules

| Module | Models | Of which |
|---|---|---|
| `CircularBuffer` | index arithmetic of the buffer | operators only |
| `SlipCodec` | byte stuffing | operators only |
| `SerialTx` | one port from `GenerateMessage` to the driver | composes the two above |
| `TxFifo` | *abstract*: a queue of whole frames | `SerialTx` implements it |
| `SlipParser` | one port from the line to the handler | uses `SlipCodec` |
| `Subscriptions` | slots, timers, mailbox, serving thread | |
| `SubscriptionTable` | *abstract*: a table of pairs with periods | `Subscriptions` implements it |
| `FlashSave` | flash, saving threads, boot, commands, power loss | |
| `SettingsStore` | *abstract*: one record for each UID | `FlashSave` implements it |
| `Arming` | arming thread, override, computer link, choice of the control thread | |
| `RCInput` | SBUS, CPPM, RSSI, timeout, lookup, settings command | |
| `Kernel` | priorities, inheritance, mutexes | operators and variables |
| `SensorRead` | interrupt, clock, readout thread, structures, locks | extends `Kernel` |
| `ImuPipeline` | readout, estimation, control, the threads of the ports | extends `SensorRead` |
| `RCOutput` | buffers, DMA transfers, timers, settings command | |
| `RCLevels` | an SBUS frame's bits to a level and a switch | part of `MCParts` |
| `ControlLoop` | the cycles of the control thread | part of `MCParts` |
| `ControlSettings` | the settings of the vehicle and its controllers: command tables, handlers, saving threads, boot | part of `MCParts` |
| `Crc`, `Cobs`, `Dshot` | the codecs, each between a sender and a receiver | parts of `MCParts` |
| `MC*` | the instances TLC checks | |
| `*_proofs` | theorems | section 6 |

**SerialTx.** A producer goes through `Request`, `Claim`, `CheckBestCase` (the
best-case and worst-case tests of `slip.c`), `WriteEND`, `BeginChunk`,
`WriteByte`, `StopByte`, `Commit`, `Release` and `Signal`, one action for each
access to what the pump shares. `count` is the variable of that name in `slip.c`
and may exceed the space, which is how the encoder's arithmetic (`U32`, modulo
`WordSize`) is kept. The pump goes through `PumpWake` to `PumpReread`; the driver
takes bytes one at a time, and on USB the host may come and go (`UsbChange`), with
the abort path that follows. A message is a payload cut in chunks, its bytes kept
as the classes the encoder tells apart.

**SlipParser.** `ParseSLIP` is one action for a byte, in the three states of the
code, and the end of a frame runs the whole of `ParseKFlyPacketFromSLIP`: CRC,
command, size, ACK and dispatch, with `parser` and `ack` left in the structure as
the code leaves them. The line drops and inserts bytes, both together change one,
and a USB host may leave in mid-frame. `CrcRunsAway` is the one-byte frame whose
CRC length wraps (section 5). CRC16 is assumed to detect every damage.

**Subscriptions.** A slot has a command, port, period and whether its timer runs;
the mailbox holds slot numbers, as the code's holds addresses; the thread's fetch
and its read of the slot are separate actions, since requests and the timer
interrupt come in between. Time is abstract: a running timer may expire at any
moment.

**FlashSave.** Modules are initialised one after another and each starts a saving
thread; the serial manager starts at its place among them (`SerialAt`) and with it
the commands that set, save and erase. `FlashSave_Write` is claim, seek, page
erase, page write, release; the settings are read when the transfer begins and
again when it ends, so a set in between is a record that is torn. A loss of power
may leave the page in hand erased, half written or with a header nobody asks for,
and boots again.

**Arming.** `Tick(later, cut)` is one turn of the thread, in which the receiver
changes to `later` from its read number `cut` on; `CheckArmingConditions` is a
chain of functions on the record of its static variables, in the order of its
branches. `OverrideCopy`, `OverrideRefuse`, `OverrideRestart` and
`OverrideActivate` are the parser of the override command cut where the thread can
preempt it. `Outputs` is what `vUpdateControlAction` sends to the motors. The
history variables `held`, `toggled` and `age` are read by properties only.

**RCInput.** `ParseSBUSInput` is cut at the statements between which an interrupt
can come (`StoreByte`, `FrameFull`, `Activate`, `SetMode`, `RestartTimeout`);
captures and the timeout are single actions; `RCInputInitialization`, run by the
settings command at low priority, is cut at every statement after which a byte or
an interrupt makes a difference. `switches` holds for each switch the channel it
was last read from, positions being data. A transmitter sends any bytes and pulses
(`line = "NOISE"`) until it is switched off or sends clean SBUS frames. `rssi_lost`
is history.

**SensorRead, ImuPipeline.** Five threads stand at places; `Runs(t)` says whom the
scheduler may let run. `Interrupt` is the data-ready interrupt with `GetIMUTime`, in
cycles modulo `Wrap` against the true count `now`; the pin stays up until a register is
read. The readout thread goes through `SensorWake`, `TransferDone` or `TransferFails`
(the code ignores the result, and so the bytes of the last reading are published again),
`Convert` and `Calibrate`, under the two locks; `StartReadout` is its start. A structure
in memory is cut in two parts, each carrying the number of the write that put it there,
so that "torn" is "the two differ". The estimator copies under the lock, compares the
number of the motion capture frame, and writes the estimate in two steps; the control
thread reads it in two. The first frame of all takes the branch of the startup conditions
(`motion_capture_estimator.c:65`), which sets the estimate from the frame and returns
without using the reading: `starting` takes the branch through the two steps, and
`unused`, a history, is the reading it passed over, the one `ReadingReachesControl`
excepts. A port runs a generator or a parser: the generators copy into
their static holder or read the estimate in place, and read what they send twice, for
the CRC and to encode; a message is accepted when the two agree, so the CRC is taken to
tell all data apart. A lock that the kernel hands to the first waiter is modelled as
freed and then taken by any that may run, which allows more. Estimation and control are
registered for their events from the start.

**RCOutput.** A width is a mode and an age: for which mode it was computed, and how many
control cycles ago. `SetChannelWidth` fills a column of a buffer, `Sync` starts the
transfers that are not under way. The compare registers are preloaded (`OCxPE`): `ccr` is
what was written to them and `out` what makes the pulses. `Burst` is one update of a timer,
which puts `ccr` into effect and moves the next row of the stream, if there is one, to
`ccr`; so a stream has finished when the last pulses but one end and its closing row
only waits, and `Sync` puts into effect what waits (`TIM_EGR_UG`). The settings command is cut at each timer it stops and starts
(`StopTimer`, `StartTimer`) with control cycles and rows in between, and a transfer that
was under way goes on. `frame`, a history, says of the frame under way what was sent of
it and whether a command cut it; the properties are about the others. A control cycle
does not begin while a frame faster than 50 Hz is under way, nor in a one-shot or DShot
mode before its last row is in effect (`InTime`): the periods of a one-shot frame with
the one its last row waits are 3 times 250 microseconds, those of a DShot packet 18 times
6.7 at the slowest, and a cycle is 5 ms. A settings command copies its mode bytes as they
come, so `"OTHER"` stands for a byte that is no mode: it leaves the buffer as it is,
sends `DshotRows` rows, and gives the timer a frequency and a period from behind the
tables. Of such a timer neither its pace nor that it comes round at all is assumed.

**RCLevels.** A transmitter puts sixteen values of eleven bits in 22 bytes; the bytes
are cut again (`Unpack`), calibrated and bounded, reversed and read as level and as
switch. Levels are exact fractions, where the code has floats.

**ControlLoop.** A value is modelled by where it comes from: `"PILOT"`, `"COMPUTER"`,
`"OVERRIDE"`, or `"STALE"`, written in an earlier cycle; what is computed from two
sources is stale as well. `pid` is what the controllers keep from cycle to cycle, all axes
together, by its age: integral, last error and the state of the filter behind the
derivative may hold errors since (`"NEW"`), errors from before a cycle in which the
controller did not run (`"PAST"`), or, an integral only, what should have been forgotten
(`"OLD"`). The back-calculation of a saturated output takes the derivative into the
integral, and with it a past error (`Integrate`). `Entitled`, a history, is the set of
drivers a cycle may have in force, each input as it was at some moment of the cycle
without an override: the computer only while linked and switched to in a mode it may
command, the pilot only without that, the default outputs only disarmed or for another
mode. `Cycle` takes the choice of the driver, writes the
references of its mode and runs the controllers in the order in which the cases fall
through. Of what a cycle reads, the arming thread, the receiver and the timers may
change a part from the middle on; packets are parsed between two cycles. The levels of
one cycle may be of two frames of the receiver.

**ControlSettings.** Seven structures with eight parts, each with a `Get` command and a
`Set` command. A packet goes through `parser_lookup` to its handler, which compares the
length (`StoredIn`, `Store`), or through `MessageOf` and `generator_lookup` to the answer
(`Generated`); a ground station files an answer under the command in its header and may
send it back later (`SendBack`), whole or in the fields the `Set` command takes. The two
differ for the texts: `GetSystemStrings` answers with 204 bytes, identity and version
behind the texts, and `SetDeviceStrings` takes 96 and refuses any other length. `Strncpy` and `ControlFiltersInit` are the two handlers
that do not only copy. The two saving threads write a record in a step
(`SaveRecord`, through `GetControlParameters` for the gains and the filters), and at boot
`SystemInformationInit`, `ControlInit` and `ReadControlRecord` go record by record, since
packets come in between. `asked`, `kept` and `touched` are histories. What is in here
whole, `SlipParser`, `SerialTx` and `FlashSave` take apart: packets, answers and records.

**Crc, Cobs, Dshot.** Each is a sender, a line and a receiver. `Crc` has the two tables
and the polynomials, words as the sets of their one bits and XOR as the symmetric
difference, and damages one burst of a packet. `Cobs` has the codes of `cobs.c`
with their ranges scaled down, every boundary between them kept, and noise before the
packet. `Dshot` has the throttle's value, its packet and its pulses, and a motor
controller that measures them. `MCParts` is six behaviours in one instance; no part
shares a variable with another.

## 4. Runs, bounds and fairness

| Run | Instance | What it shows |
|---|---|---|
| `serial_aux` | 2 producers, 8-byte buffer, frames of 3 and 5 bytes | no committed byte waits for ever, with two writers and the pump in every interleaving (`BytesLeave`); that their frames stay whole and unmixed is a theorem, `FifoImplemented` |
| `serial_usb` | 1 producer, reserved bytes, host comes and goes | a queue of whole frames (`ImplementsFifo`), with the stuffing and its give-up path, loses bytes at its head only and only without a host, and is emptied for one that stays (`UsbBytesLeave`, unless a host once left in mid-transfer, section 5) |
| `slip_noise` | 5-byte buffer, 3 packets of 8 kinds, 2 damaged bytes | what runs was sent and in order, an ACK for exactly the packets that ask, at most one intact packet lost after damage, none without |
| `subs_table` | 2 slots, 4 pairs, mailbox of 3 | the slots are a table, each used one has a running timer, a subscription that stays is served again and again |
| `flash_saves` | 2 modules, 3 records, 5 pages, 1 loss of power | records are replaced one at a time, the mutex is given back, pages stay packed, and settings saved again and again end up in the flash |
| `arming_pilot` | 2 ticks a second, counters modulo 8, 4 settings, 7 receiver states | arming needs a full hold or a fresh press, an override lasts, the computer is not timed out, the motors stop without a pilot, an idle vehicle is disarmed |
| `arming_disarm` | stick arming only | violated: finding 1 |
| `rc_link` | 2 channels, frames of 2 data bytes, 4 settings | a connection is watched, ends in silence, comes back on a clean line with the switches of the settings in force; a role is looked up to its channel |
| `imu_flow` | 2 ports, a counter modulo 3, up to two samples 2 or 3 cycles apart, 1 failed transfer, 1 calibration, 1 frame of the motion capture, the priorities of the code | time is exact over wraps and equal readings, data are of one reading under one calibration, the control thread reads whole estimates, a message that is accepted is whole, and every reading, or a later one, reaches the control thread, but for the one the first frame passes over |
| `imu_pin` | the same | violated: finding 2 |
| `rc_output` | 2 banks of 1 channel, settings that take each bank from a slow mode to a fast one and back, and one to a byte that is no mode, DShot packets of 3 rows | a frame no command cut is one whole packet, a transfer restarts the counter over outputs that are off, widths are fresh, and the outputs come back after every command |
| `parts` | see the bounds | six parts that share no state: COBS, CRC, DShot, the levels of the receiver, the cycles of the control thread, the settings |

**Bounds.** The 8-byte buffer holds one frame and a part of another, wraps within two,
and leaves too little for the worst case where the best case fits, which is the slow
path; the buffers of the program are larger powers of two, and the theorems hold for
every one. Five receive bytes fit every kind of packet but the one that is meant not to
fit. Two slots for four pairs make slots scarce and reused, and three places in the
mailbox are fewer than two timers can fill. Five pages are what three records, the
duplicate that one loss of power can cause and the last page, which the search never
uses, need: a further loss needs one more, or as many as there are UIDs when it cuts
a bulk erase short, and a flash that is full is not survived (section 6,
`AlwaysGivenBack`). In `Arming` the hold (2 ticks), the
override (2 at most) and the zero-throttle timeout (4) have different lengths and all
fit below the wrap at 8; each one, and the wrap itself, happens. Two data bytes in an
SBUS frame tell the first, the last and the end apart.

Two ports are what it takes for one to find another at the static holder of the same
generator, and three priorities are what the code has. The
counter starts at 1 or 2 and goes on by 2 or 3 modulo 3: of two samples none, one or both
wrap, a base that was advanced is advanced again, and a gap of 3 finds the counter where
it was, the case in which `<` and `<=` differ. One
failed transfer is enough to publish an old reading again. Two banks make a command
stop one while the other moves, and three rows have a first, a last and one between.

In `parts`, COBS packets have up to nine bytes, zeros and one other, so that every code
of the scaled table is reached, and bursts are at most 14 bits: 14 is sharp for this
packet layout, 15 bits across the body and the low byte of the CRC can go undetected
(section 5). The throttle goes from -1 to 2 in hundredths. A stick takes 8 positions,
ends, center and outside included, on each of the 16 channels, in 4 calibrations, both
directions and the 3 types, with all other channels at 0 or at 2047 so that no bit of a
neighbour can hide. `ControlLoop` takes every combination of its inputs and every place
at which they may change. `ControlSettings` has three events (`MaxEvents`) in any order,
each a packet, a save, an erase or a loss of power, at any place of the boot: enough for a
setting to be set, saved and lost, or asked for, overwritten and sent back, whole or not. A text has
bytes behind its end or not, a filter a cutoff and a mode within their limits or not, a
payload the right length or not.

Bounds on behaviour are `MaxFrames`, `MaxNoise`, `MaxLosses`, `LastCycle`, `MaxFaults`,
`MaxSets`, `MaxSize`, `MaxBody` and `MaxEvents`; all others are sizes, and counters of
other modules are finite in the code.

**Deadlock** is checked except in `slip_noise`, where the sender stops after
`MaxFrames`, and in `parts`, where a packet comes to its end. In `imu_flow` and
`imu_pin` the ports go on when the last sample has been used.

**Fairness.**
* `SerialTx`: every thread that can go on does so (WF), as every priority is
  served in the end on a processor that is mostly idle; `Claim` is strong (SF)
  because the mutex is handed to the thread that waited longest.
* `Subscriptions`: the thread (WF) and each timer's expiry (WF).
* `FlashSave`: saving threads, main thread and a bulk erase that has begun (WF),
  the claim of the mutex (SF, as above). No command and no loss of power is fair.
* `Arming`: `WF_vars(Tick(rc, 4))`, a tick in which the receiver does not change:
  ticks take microseconds, changes are milliseconds apart. A parser that has begun
  goes on. Nothing makes a command or a packet arrive.
* `RCInput`: the SBUS thread goes on with a byte it has, a running timer expires
  (WF), bytes of a clean line keep coming. On a clean line a timer that was just
  restarted (`"FED"`) does not expire, bytes being far closer together than its
  period; on noise it may at any moment.
* `ImuPipeline`: the threads, a transfer that has begun and the readout thread's start
  (WF). A preempted thread is not enabled, so this says only that the processor is
  never left idle and that the bus comes to an end. No sample and no command is fair.
* `RCOutput`: the control thread and each bank's rows (WF), but those of a bank whose timer
  has a period from behind the tables, and a settings command that
  has begun (SF, for the control thread comes in between). Estimates that keep coming are
  what `ReadingReachesControl` says while samples come.
* `SlipParser` and `parts` have no liveness property, and their specifications no
  fairness.

## 5. Findings

1. **A held disarm stick does not disarm** (`arming.c:195`, run `arming_disarm`).
   With the zero-throttle timeout in use, each tick counts `disarm_time` and then
   clears it in the throttle branch. (A full timeout does not help either: the
   disarm branch clears `timeout_time`.)
2. **A failed transfer stops the sensor for good** (`sensor_read.c:186`, run
   `imu_pin`). The thread ignores the result of the transfer; the chip's pin stays up
   because no register was read, and the interrupt is taken on a rising edge. An
   interrupt before the readout thread runs (`sensor_read.c:466`) does the same.

Behaviour that no property refuses. In the models:

* **A frame that does not fit may be committed** (`slip.c:115`, `slip.c:51`). Reserved
  bytes take two places. The slow path bounds its loop by the whole free space and not
  by what is left of it, and the test for the closing END subtracts in unsigned
  arithmetic: a payload of two reserved bytes passes with four bytes free, writes six
  and is committed over unread data. `serial_usb` sends payloads that the bound does
  stop; `FifoImplemented` is proved as long as no writer overruns, and `OneReservedFits`
  that none does with at most one byte to escape.
* **The USB mutex may be kept** (`serialmanager.c:350`): the path taken when the host
  leaves during a transfer does not release it, and the pump's next `USBClaim` waits
  for itself. `UsbBytesLeave` excepts these behaviours.
* **A full port without a host stays silent** (`kflypacket_generators.c:772`): each
  message fails and starts no transmission, so the port restarts only with a message
  that fits.
* **Records behind an erased page are lost from sight** (`flash_save.c:177`): a loss of
  power between erase and write leaves an erased page at which the search stops, until
  a save fills it (`SavedForGood`).
* **A role taken from a channel keeps it** (`rc_input.c:498`): the lookup is written
  only for roles that are assigned, so a switch, the arming switch among them, goes on
  being read from its former channel, whose role is now another.
* **A frame of one byte** makes `ParseKFlyPacketFromSLIP` take a CRC over 2^32 - 1
  bytes (`slip2kflypacket.c:108`, `CrcRunsAway`).
* A slot that is reused while its address waits in the mailbox is served once without
  an expiry of its own (`subscriptions.c:109`).
* Bytes of noise that look like frames keep a receiver's connection (`rc_input.c:278`).
* A reading is published again after a failed transfer, with a new number
  (`sensor_read.c:186`).
* After a change of mode a waiting DShot row may be sent as a pulse width, and a control
  cycle between the copy of the settings and the reset of the timers sends rows of the
  new mode at the old timing (`rc_output.c:611`); a refused command reinitialises the
  timers all the same. Each start of a transfer restarts the counter, in a PWM mode in
  the middle of a pulse (`rc_output.c:209`).
* A burst of 15 bits may go undetected, because the CRC is sent low byte first on a line
  that sends low bits first, so that it is longer in the polynomial than on the line
  (`crc.c:199`).
* Reversal negates the level, and the switch is reversed again: on a channel with a
  center it has no effect on a switch, and the two-state switch of a channel with
  levels above zero only never changes. The value 0, legal in SBUS, is taken for no
  value and has level 0.
* With a switch, `timeout_time` counts while the switch is released, armed or not, and
  wraps; with an `arm_stick_time` of 0 the system arms without clearing it
  (`arming.c:112`, `arming.c:126`), and the zero-throttle timeout may come too early.
* Override values are in force before they are checked (`arming.c:422`), for the control
  cycles that preempt the parser between the two.
* The references a mode does not write keep those of an earlier mode, which telemetry
  shows. `vZeroControlIntegrals` (`control.c:489`) leaves the last errors and the filters of
  the derivatives (`pid.h:87`): the first derivative after a stop, an idle or another mode is
  of an error from before it, and a saturated output takes it into the integral, where it
  stays after (`"PAST"` in `ControlLoop`). Integrals of the attitude survive other modes, and cycles under an override
  or in `DIRECT` zero none. `attitude_loop.h:86` calls the z reference unused, while line
  131 uses it; every driver that can reach the code writes it.

* The texts of the vehicle cannot be restored by sending their answer back as it came
  (`kflypacket_generators.c:352` against `kflypacket_parsers.c:353`): it is refused without
  a word, unless the station cuts it.
* A mode byte that is no mode is taken into the settings and indexes the tables of
  frequencies and periods (`rc_output.c:597`, `rc_output.c:416`).
* The reading the estimator holds when the first motion capture frame comes is not used
  (`motion_capture_estimator.c:65`).

Outside the models: a timer overflow of the CPPM capture counts 0xFFFF (`rc_input.c:717`); the
negation of a reading of -32768 wraps (`sensor_read.c:326`).

## 6. Proofs

All theorems are of the form `Spec => ...` for every value of the constants that
the modules' named `ASSUME`s admit.

* **`SerialTx_proofs`**: `TypeCorrect`, `MutualExclusion` and, on an AUX port,
  `NoLostWakeUp` hold without further assumption. The last is the part of `BytesLeave` that
  needs no fairness: while a committed byte waits, the event is pending, the pump will still
  look at the buffer before it waits, or a thread that has committed is about to signal.
  Over USB that is false, because a pump woken while the host is away takes the event and
  sends nothing; `OnlyAbsenceForgets` says that no other step forgets a byte that waits.
  `BusGivenBack`: unless the host is found absent in the middle of a transfer (`Abandoned`,
  `serialmanager.c:348`), the pump holds `USB_write_lock` exactly while it transfers, so that
  abort is the only way to the self-deadlock that `UsbBytesLeave` leaves out.
* **`SerialTx_proofs`, `FifoImplemented`**: under `[]NoOverrun` every step of the
  buffer, of any number of writers and of the pump is one of `TxFifo` or a stutter, for
  every size of the buffer and every payload, the messages that are given up half way
  included. `NoOverrun` says that no writer goes further behind head than the cell that is
  always empty, unless no byte waits, and that what it commits fits. The code overruns for some
  payloads (section 5), so some such hypothesis is needed. `ChunkStaysUnread`
  and `UnreadIsStable` need the same. The inductive invariant `PathInv` adds where each
  writer is (`Placement`): `count` is one ahead of the bytes that the payload up to `pos`
  takes when stuffed, until it gives up. The queue is a function of the buffer's cells
  (`QueueValue`); a commit appends a frame because what lies behind head is the frame so
  far (`WrittenStep`, from `WritesAdd`: writing one or two bytes behind what is there), and
  nobody but the lock's owner writes there.
* **`SerialTx_proofs`**, two conditions for `NoOverrun`. `OneReservedFits`: if no message
  has more than one byte to escape, no writer overruns, and `OneReservedFifo` is the queue
  without any hypothesis on the behaviour. That is sharp: with two bytes to escape
  and room for the data and two more, the encoder overruns. `WriterProgressCorrect`, for any payload: as long as
  no message passes the best-case test of `slip.c:174` that, stuffed, does not fit
  (`BestCaseIsTrue`), the loop's budget covers the rest of the chunk (`ProgressOK`) and no
  writer overruns; so every committed frame fits (`CommittedFrameFits`), and without
  reserved bytes no message fails once it passed (`PlainNeverFails`). What the test
  found free is still free at the commit, because only the lock's owner moves head and the
  pump only frees cells. Lemmas on the masked arithmetic (`MaskAdd`, `AdvanceHead`,
  `AdvanceTail`, `FreeCell`, `ReadSizeIsUnread`) carry all that is said of positions, and
  lemmas on the stuffing (`StuffedNext`: a byte more is encoded at the end; `StuffedGrows`:
  it takes one cell or two) all that is said of lengths.
* **`SlipParser_proofs`**: `TypeCorrect`, `ResyncsWithinOneFrame`, `UndamagedAccepted`,
  `AcksAsAsked`, `CleanLineRunsWhatWasSent`, for any payloads, any buffer and any noise.
  First the frame of a payload of any length: stuffing appends byte by byte
  (`FlattenAppend`, by a smallest counterexample), a stuffed byte is never an END
  (`BodyPlain`), and what is left of a frame after any byte is one of three things
  (`NextOfFrame`). Then the invariant: `LineOK` (the last byte of an intact packet is
  still an END), and `Caught` (once a packet was missed, and as long as nothing was
  damaged, the parser is `InStep`: it waits for a frame, or holds exactly the bytes whose
  frame has gone by). `ResyncWithinOneFrame` alone is not inductive: it says nothing of the
  parser inside a frame. `RunsWhatWasSent` is proved while nothing was damaged: with
  damage it rests on which packets the noise can forge, which is for the run's instance.
* **`Communication_proofs`**, on `Subscriptions`: `TypeCorrect`, `PairsAreUnique`, `TimersFollow`,
  under `RealCommands` (no request names `Cmd_None`, which is also the mark of a
  free slot). `Inv` is their conjunction; `FreeKeeps` and `SubscribeKeeps` are the
  two ways slots change.
* **`FlashSave_proofs`**: `TypeCorrect`, `MutualExclusion`, `StaysPacked`,
  `StoreImplemented`, `AlwaysGivenBack`. The
  strengthening says where a job may point, that a writer's target is where its
  search ended, and that nobody else is inside; then a write fills the first gap or
  replaces its own record. For the refinement of `SettingsStore`, `WriterOK` says that no
  page before a writer's target has its UID, so that the page it writes is the first copy,
  the one a read finds, and no other record is touched, also by the loss of power that cuts
  a write short.
* **`FlashSave_proofs`, `AlwaysGivenBack`**: `GivenBack` is false without enough pages,
  and `EnoughPages` is what it takes: more than `Cardinality(Uids) * (MaxLosses + 1)`.
  A loss of power may leave a page that no UID replaces, but one that comes in the middle
  of a bulk erase may leave as many as there are UIDs: with 4 UIDs, 6 pages and 1 loss
  a flash fills up and the mutex is kept. `Spare` says
  that outside a set of stale pages, at most as many per loss as there are UIDs, each page in
  use is the one the search finds for its UID; `NeverFull` is then a matter of counting.
* **`Control_proofs`**: `TypeCorrect`, `FullHoldArms`, `PressArmsOnce`,
  `OverrideKeepsItsTime`, `ComputerHoldsTimeout`, for every rate, every width of
  the counters and every settings. The invariant relates the code's counters to the
  histories: `arm_time` is at most `held`, a released latch means that the press
  has not been used, the override's timeout is at most its `age`. Each branch of
  `CheckArmingConditions` has its own lemma.
* **`Control_proofs`, `StopsWithoutPilot` and `DisarmsWhenIdle`**: what `PilotGone` and
  `IdleDisarms` owe to the code alone, as a bound in ticks of the arming thread. `TicksLeft`
  (an override's remaining time, then the tick that disarms) is at most half a second of ticks
  and three, no step of anybody raises it without a pilot, and each tick lowers it. `IdleLeft`
  does the same for a vehicle left idle, and needs `CounterReaches`: every timeout that may be
  set is reached before the 16-bit counter wraps, which holds of the controller (256 seconds
  at 20 ticks are 5120). A counter found at its last value may start once more with a released
  switch, so the rank counts that value as the farthest from the end (`ArmedFor`).
* **`Control_proofs`, `CyclesAreTheirOwn`**: the references of what a cycle sends are all of
  one driver who was entitled to drive within it, at every place its inputs may change:
  once the override was read as off it stays off, so all that is read after counts. The
  tables of sources are finite (`SentIsOfDriver`); `LoopInv` adds that no integral is out of
  date between two cycles (`Controllers`), which is what makes the next cycle's use of it
  right. Errors and filters of before do carry over, and the invariant says where.
* **`Control_proofs`, `SettingsAreKept`**: every setting is read where it is used, as it was
  set, through saves, erases, losses of power and the boot, for any number of events. An
  answer sent back in the fields its `Set` command takes restores them (`FirstFields`), and
  one sent back in more has another length and changes nothing (`LengthSentBack`).
  `SettingsInv` has a part for each place a setting can be: the memory (`MemoryOK`), the
  ground station (`StationOK`), the flash (`FlashOK`), the savers (`SaversOK`) and the boot
  (`ReadOK`: what was not read yet has its default). The rest is that the tables of
  handlers, savers and readers agree on every part (`SetTablesAgree` and its companions).
* **`RCInput_proofs`**: `TypeCorrect`, `ConnectionWatched`, `ModeWatched`,
  `RolesFound`, for every number of channels, length of frame, set of roles and
  settings. The strengthening `RoomForByte` says that while a frame is received
  there is room for its next byte, also across resets between two of its statements;
  `ValidIsUnique` and `LookupOfValid` are the facts about the settings.
* **`RCInput_proofs`, `StickAlwaysRead`**: an SBUS frame packs 16 channels of 11 bits
  across 22 bytes; each comes out as it went in (`UnpackedAsSent`), its level moves with the
  stick in the direction the settings ask for (`LevelFollows`), is clipped at both
  ends (`EndsOfWay`), and its switch changes at the threshold (`Switched`), for every position of
  every stick and every calibration the module admits; `LevelsOfFrame` ties the levels to
  the last frame.
* **`Communication_proofs`, `TableImplemented`**: every step of the slots is one of the
  table or leaves it alone. The table is an operator on the slots; that no pair has two
  slots makes the slot the code finds the one the table means, and `RoomInTable`, a
  counting lemma, turns "no free slot" into "no room".
* **`Communication_proofs`, `CobsRoundTrip`**: a packet of any bytes and length takes no more
  room than `COBSEncode` made sure of, holds no zero but its delimiter, and is parsed as it
  was given, if it fits the decoder's buffer and whatever came before; for any table of
  codes with the shape of `cobs.c` (`CodeAssumption`), the real one and the small one of the
  run alike. Neither encoder nor decoder is followed by recursion: the invariant says that
  there is a function `at` from the places of the codes to the number of bytes decoded before
  them (`Blocks`), and that each code stands for the bytes between two of them
  (`Stands`), the current one with the zero the packet has not had (`Encoded`). Each way the
  encoder changes a code is a lemma (`ZeroMore`, `ZeroLess`, `ByteMore`, `NextBlock`), and
  the decoder is always at a code, with the packet's first `at[i]` bytes in its buffer, or
  within the data of one (`DecodeInPacket`). Of the size, `Excess` says that only a full block
  takes a byte more than it stands for.
* **`Communication_proofs`, `BurstsDetected`**: a packet of any length that a burst of up to
  fourteen bits damaged on the line is never accepted, wherever the burst lies, and an
  undamaged one always is. The register is linear over the symmetric difference
  (`StepLinear`), so what the receiver holds beside the sender's register is the register of
  the damage alone; a step with a zero byte takes only the empty register to the empty one
  (`StepToNothing`), so a difference that is there stays (`CrcInv`, `DamageGoesOn`) and is
  seen in the CRC (`DamageIsSeen`). `OneByte` and `TwoBytes` are the bursts that start in
  a byte of the body.
* **`ImuPipeline_proofs`**: `TypeCorrect`, `TimeIsExact`, `LocksKeepWhole`,
  `ControlWhole`, `CopiesAreAccepted`, `AcceptedIsWhole`, for every set of ports below
  the priority of estimation and control, every modulus and every number of faults and
  calibrations. The parts of the invariant: `ClockInv` (the static variables are those
  of the last interrupt), `LockInv` (who is between the two parts of a structure owns its
  lock), `FrontInv` (estimation and control are in front of their priority
  while they are in the middle of the estimate, so never both), `SendInv` (only the port in
  front is engaged with a message, so the static holder is its own; what was read of the
  estimate only grows, so two readings that agree are of one write), and their
  conjunction `MessageInv`.
* **`ImuPipeline_proofs`, `NoReadingLost`**: readings are acted upon in their order
  (`InOrder`), and the last one published has been acted upon, is the one the first frame of
  the motion capture passed over, is announced to a thread
  that has not woken yet, or is being worked on (`OnItsWay`), for any number of ports and any
  interleaving of the readout, the estimation, the control thread and the ports. It is what
  `ReadingReachesControl` needs besides that the threads run.
* **`RCOutput_proofs`**: `TypeCorrect`, `FramesAreWhole`, `OutputsRest`,
  `BurstsAreFresh`, for every number of banks, channels and rows and all settings. They rest
  on the pace `InTime`. `OutputsRest` needs to know when the closing row is in effect
  (`AtRest`); `BurstsAreFresh` is that a row moved was computed in the last control cycle or in
  the one going on. Parts:
  `TimersStopped` (which timers a command has stopped so far), `SendingWhole` (an
  uncut frame is sent in its mode, from rows no other cycle has begun to fill),
  `FilledSoFar` (the channels the cycle in hand has filled), `FirstRowFresh`.
* **`RCOutput_proofs`, `SettingsTakeHold`**: the timers a command is done with run in the
  modes of the settings (`InForce`), what begins between commands is of that mode, and no step
  but that of a command cuts a frame (`OnlyCommandsCut`): `OutputsRecover` without its fairness.
* **`RCOutput_proofs`, `ThrottleIsHeard`**: an ESC that decodes the 16 pulses of a DShot
  packet finds its checksum right and the throttle in it (`HeardAsThrottle`), for every
  resolution `Steps` of the throttle. The nibbles heard are those of the packet (`NibblesHeard`), their
  XOR is the checksum (`ValueHeard`), and the value grows with the throttle (`ValueGrows`).

Theorems on properties that no run lists: the type invariants, `MutualExclusion`,
`NoLostWakeUp`, `OnlyAbsenceForgets`, `BusGivenBack`, `OneReservedFits`, `WriterProgressCorrect`, `ChunkStaysUnread`,
`CommittedFrameFits`, `PlainNeverFails`, `UnreadIsStable`, `PairsAreUnique`,
`ConnectionWatched`, `StopsWithoutPilot`, `DisarmsWhenIdle`, `NoReadingLost` and
`SettingsTakeHold`.

Each safety property and each refinement that the passing runs check is stated by a
theorem. Model-checked only: all liveness (`BytesLeave`, `UsbBytesLeave`, `PeriodicallySent`,
`SavedForGood`, `PilotGone`, `IdleDisarms`, `SilenceDisconnects`, `CleanLineConnects`,
`ReadingReachesControl`, `OutputsRecover`), because TLAPS does not reason about fairness. The part of it that is safety is
proved for `BytesLeave` and `UsbBytesLeave` (no wake-up lost, the bus given back),
`ReadingReachesControl`, `OutputsRecover`, `PilotGone`, `IdleDisarms` and `SilenceDisconnects`
(`ConnectionWatched`). Model-checked only are also
the refinement of `TxFifo` by messages of two and more bytes to escape that are given up in
time, as `serial_usb` sends them (`NoOverrun` is the theorem's hypothesis there, and the run
checks the refinement itself);
`RunsWhatWasSent` under damage and `GivenBack` below `EnoughPages` (the run has
3 UIDs, 5 pages and 1 loss, which is enough there).

## 7. What is not modelled

* **Floating-point data**: the conversion of sensor values, the estimators' filters, the
  gains, limits and filters of the control loops and the mixer. Which value reaches which
  is in `ImuPipeline` and `ControlLoop`; what they decide (a level beyond a threshold,
  sane or not) is in `Arming` as the outcome. `arm_math.h` and `linear_algebra.h` are
  functions of this kind.
* **Values that are only read**: the handlers and generators of status, references,
  control signals and receiver values. `ParseResetEstimation` and the handlers of the
  velocity and position controllers do nothing.
* **Drivers**: SPI, I2C, DMA set-up, pins and clocks (`board.h`, `chconf.h`); the start-up
  sequences of the sensor chips. The magnetometer takes the path of the accelerometer
  under the same lock and is left out.
* **Unreached code**: the Kalman and Madgwick filters, sector erase,
  `CircularBuffer_WriteChunk`, the shutdown sequence (`main.c:45`) and the entry
  into the bootloader (`main.c:68`) have no caller. `cobs.c` has none either, but is
  complete, and `Cobs` models it.
* **Memory layout**: what lies behind an array that is overrun (`rc_input.c:500`,
  `rc_output.c:416`).
* **Single register writes of `RCOutputTimerInit`**: a timer is started in one step. Between
  the writes that enable its requests and its counter (`rc_output.c:480`, `rc_output.c:484`)
  a control cycle may restart it with `URS` still clear, which asks for one row too early in
  a frame the command has cut anyway, and the prescaler is preloaded, so the first
  period after a start may be of another length.

## 8. Plan

Done, in this order, the transmit path and the modules that decide whether motors
turn first: `SerialTx`, `SlipParser`, `Subscriptions`, `FlashSave`, `Arming`,
`RCInput`, `ImuPipeline`, `RCOutput`, the codecs, `RCLevels`, `ControlLoop`,
`ControlSettings`. What could
come next:

1. `ControlSettings` composed with `FlashSave`, records written and read in steps, and
   with the control thread reading gains between two copies.
2. `RCInput` composed with `Arming`, so that the receiver the arming thread reads is the
   one modelled here.
3. `SystemInit`: what else than settings runs before its data exist.
4. Proofs: the sizes of the buffer for which messages of more bytes to escape never
   overrun.

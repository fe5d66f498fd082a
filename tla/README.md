# Verification of the garden watering system

This directory is a TLA+ development of the garden watering project: the
firmware of the measuring and watering station (`src/stacja_pomiarowa/firmware`,
C on an ESP32 with FreeRTOS), the part of the server (`src/serwer`, Java) that
answers it, and the message schemas and the state diagram that describe both
(`src/dokumentacja`). File names below are relative to `src/`, firmware
components to `stacja_pomiarowa/firmware/components/`.

Every module is translated from the code. Documents are used for one thing
only: to state properties they promise and the code does not keep.

## 1. The system

| component | state | operations | interacts with |
|---|---|---|---|
| watering task (`watering/watering.c:56-131`) | `valves`, `configuration_mutex`, local levels of a round | start-up, minute round, two port writes | timer (notification), receiver (mutex, `valves`), MCP23017 (I2C) |
| valve configuration (`watering.c:133-360`) | static `buffer`, `buffer_size`, heap blocks of the valves | apply a message item by item, validate, realloc, copy | watering task (mutex), configuration receiver (call) |
| weekday and schedule arithmetic (`watering.c:155-215`) | none | `time_matches_schedule`, `get_valve_state`, `get_day_of_week` | watering task |
| measuring round (`station/station.c:551-672`) | readings of the lines, notification slots | select a line, wake workers, collect, send | timer, three workers (task notifications), MQTT client |
| workers (`measurements/*.c`, `ic_driver/*.c`) | one result each, lent to the master by pointer; `num_symbols` of the DHT11 interrupt; block of 1-Wire readings | read ADC, DHT11, DS18B20 | master, multiplexer, interrupt, 1-Wire bus |
| what the drivers compute (`ic_driver/*.c`) | levels of the multiplexer, configuration of the ADS1115 | select a line, address a channel, decode a conversion, a frame, a scratchpad | workers |
| 1-Wire ROM search (`one_wire_bus/onewire_device.c`) | iterator | `onewire_device_iter_get_next` | 1-Wire worker, bus |
| 1-Wire bus driver (`one_wire_bus/onewire_bus_impl_rmt.c`) | bus object, its mutex, receive buffer, queue of one event | create and destroy, reset, write and read of bytes and bits, receive interrupt | ROM search and DS18B20 driver (calls), RMT channels (external) |
| configuration reception (`station.c:479-549, 674-699`) | static message buffer, notification with a tree's address, period, minute counter | assemble chunks, parse, apply, free, count minutes | MQTT client, watering, timer |
| start-up (`main/main.c`, `station.c:77-314, 439-526`) | event bits, retry counter, NVS | `station_create`, `station_start`, event handlers, console `set` and `restart` | Wi-Fi driver, MQTT client, server |
| registration on the server (`mosquitto/listener/register`) | repository of stations | save an unknown station, send it a configuration | broker, database |
| settings on the server (`webFront/service`, `webFront/updater`) | rows of the station, its valves and their schedules | `getStationSettings`, `saveStationSettings` | clients (REST), database (one transaction per call) |
| queries, import, accounts on the server (`webFront`, `mosquitto/listener/data`) | database | REST calls, import of measurements | database, publisher |
| database schema (`baza_danych/db.sql`) | – | – | server |

What is hard in it:

* **Concurrency.** Watering task and receiver share the valves under one mutex
  with a timeout; the measuring master and its workers share result structures
  with no lock at all and rely on the order of notifications; the periodic timer
  uses the notification slot that also carries the analog worker's pointer; the
  MQTT task hands a heap tree over by its address. On the server, calls for the
  same station load its rows in several statements and write them back at the end,
  with neither a lock nor a version.
* **Memory over a long time.** Three blocks grow by `realloc` against a count
  that is not their capacity.
* **Late events.** The receive interrupt of the 1-Wire bus sends a count of symbols
  into a queue of one, while the symbols stay in a shared buffer; after a call that
  timed out or was refused an event may be taken by the wrong call.
* **Failure.** I2C writes, ADC reads, 1-Wire transactions and DHT11 answers fail
  and nobody looks at the results; connections are lost; the server may crash
  between saving a station and answering it.
* **Boundaries.** Weekday formula over leap years and centuries, entry windows,
  an eight-bit period, bit index 0 of the ROM search, signed registers and
  temperatures.

What makes the parts correct: a valve's outputs always follow one complete
configuration at one minute; a schedule waters exactly the minutes it says; each
value of a measurement message was measured where and when it says; every period
leads to a message; each configuration is applied once and in order and the last
one prevails; a station starts or fails for a reason; each probe is found once; a call on
the 1-Wire bus returns what the devices sent for it;
saved settings are what the client sent, and nobody is refused what he was
given to edit.
The hazards behind these, at their lines, are listed in `PROJECT.json`.

## 2. Plan

Built, in this order: `Schedule`, `Calendar`, `Watering`, `Irrigation` with
`WateringRefinement`, `WateringWeek`, the proofs of the two first components,
`Measurements`, `Configuration`, `Station`, `OneWireSearch`, `StationSettings`;
then `OneWireBus`, `Sensors`, and the proofs of the other components:
`OneWireBusProofs`, `StationProofs`, `ConfigurationProofs`, `MeasurementsProofs`
(with the lemmas about `Sensors`), `OneWireSearchProofs`; last the refinement of
`Irrigation` as a theorem, the week of a valve in `CalendarProofs`, and
`StationSettingsProofs`.

What is left, in order of weight:

1. *Settings and station together*: `StationSettings` with `Station` and
   `Configuration`, once the server sends what it saves (today it sends a station
   its first configuration only, `MosquittoRegisterProcessorImpl.java:40`).
2. *Length of a measurement message* (`station.c:701-747`) against
   `JSON_BUFFER_LEN`, and the console dumps. Counted by hand, a message of all
   lines and the most probes stays below the 2000 bytes.
3. *Import and queries of measurements*, once the code is there: the import stores
   nothing (`MosquittoDataProcessorImpl.java` is commented out but for a lookup), and
   nothing else writes the table the queries read.

## 3. Modules

| module | models | how |
|---|---|---|
| `Schedule` | `watering.h:6-44`, `watering.c:155-215` | the C types as sets, the three pure functions as operators, a reference window `InWindow` in minutes of the day |
| `Calendar` | `localtime_r` (external) | date and a counted weekday, one day per step |
| `WateringWeek` | `watering.c:96-124` for one valve | composes `Calendar` and `Schedule`: a clock that ticks each minute, and the minutes the valve was open |
| `Watering` | `watering.c:25-153, 217-360`, `mcp23017.c:15-26` | two tasks with program counters `wpc` and `rpc`, mutex, heap blocks as sequences of cells, expander |
| `Irrigation` | – | the abstract specification: messages and rounds are atomic |
| `WateringRefinement` | – | the refinement mapping from `Watering` |
| `Measurements` | `station.c:551-747`, `measurements/`, `ic_driver/` | master, three workers, interrupt, timer and the notification slots of the master |
| `Configuration` | `station.c:479-549, 674-699` | chunks on the wire, static buffer, slot of the receiver, trees on the heap, period |
| `Station` | `main.c`, `station.c:77-314, 439-526, 766-839`, register listener of the server | boot, console, creation and start of the station step by step; event bits, radio, client, broker, server, NVS |
| `StationSettings` | `StationServiceImpl.java:75-104, 140-179`, `StationInvokerUpdater.java:29-117`, the entities | clients as processes; per call what it has loaded (`context`); the three tables |
| `Sensors` | `mux.c`, `ads1115.c`, `dht11.c:82-126`, `ds18b20.c:111-129`, `analog_measurements.c:15-46` | pure: what goes to the multiplexer and the ADC, and what comes from a register, a frame, a scratchpad |
| `OneWireBus` | `onewire_bus_impl_rmt.c:112-495`, `onewire_bus_api.c` | the caller with its place `pc`, transmitter, receiver, interrupt, queue and buffer |
| `OneWireSearch` | `onewire_device.c:24-124`, `one_wire_measurements.c:46-61`, `ds18b20.c:36-54` | one action per bit of an address, bus errors and misread bits |
| `CalendarProofs`, `WateringProofs`, `ConfigurationProofs`, `MeasurementsProofs`, `StationProofs`, `OneWireSearchProofs`, `OneWireBusProofs`, `StationSettingsProofs` | – | the theorems, each module about the one it is named after; `CalendarProofs` is about `WateringWeek` too, `MeasurementsProofs` about `Sensors`, `WateringProofs` about `WateringRefinement` |
| `MC...` | – | values of the constants for the model checker |

State and actions carry the names of the code where that is possible. Each
action stands for what happens between two points at which another task could
observe or change something: a step under the mutex is split wherever the code
makes more than one access (`StageSchedules`, `GrowBlock`, `SetCount`,
`CopySchedules` are the four of `configure_schedules`), a handler of an event
loop is one action. Program counters name the line the task is about to
execute. `PROJECT.json` has the lines of every definition.

Abstractions, by module:

* `Watering`. A parsed message is a sequence of items with numbers, missing
  properties and entries that may be no object; the JSON text is left to
  `Configuration`. A heap block is the sequence of its cells, a cell nobody wrote
  holds `Garbage`; what a list fills before a bad entry stops it remains in the
  static buffer. `realloc` succeeds after the start; `HeapSuffices = FALSE` lets
  the two allocations of the start fail.
* `WateringWeek`. The clock moves by whole minutes and local time has no change
  to or from summer time.
* `Measurements`. A value is where and when it was measured
  (`[line, round]`, `[address, round]`), so that a stale or foreign value can be
  told. The three `while (... == pdFALSE)` loops are waits. Formatting is reduced
  to which readings a message has. `failed` and `swallowed` are history: which
  sensor's transaction failed in this round and on which line the pointer was moved,
  and which expiries were cleared with a pointer. An expiry (`xTaskNotifyGive`) adds 1
  to the slot it shares with the analog worker. Before the pointer it leaves a small
  number there, and the load through it is an exception (`Panic`, which halts:
  `sdkconfig:786`). After the pointer it moves it on by a byte: the target
  (`sdkconfig:217`) loads unaligned words from its DRAM, so the master goes on with what
  lies there (`Through`; words made of bytes of two values are `Garbage`). One of
  `Bounds` is chosen at the start, as the product of all faults is too large.
* `Configuration`. A message is a number of units; a chunk is any next part of it.
  cJSON parses the value the block begins with and ignores the rest. A message that
  ends before its value does (`open`) goes on in whatever lies behind it in the buffer:
  `Parses` gives all results, no tree or one with any of `Periods`, which the text of
  the two may hold. The conversion of a `double` beyond eight bits is undefined in C; the build's
  conversion goes through 32 bits and keeps the low eight. A reboot is `Init`.
* `Station`. Broker, client and radio are external and do what the code relies
  on: the client reconnects by itself with a clean session and keeps a QoS 2
  message until it is confirmed. Calls of the chip's own drivers fail up to
  `MaxChipFailures` times, and an NVS without a free page is erased. The form
  of the station's MAC is one of `Macs`: `hyphens` is the only one the firmware sends
  (`station.c:97`), `digits` the one `Long.parseLong` accepts and the server's test
  uses. What the MQTT library does with the exception the other one raises is left out:
  it may close the server's connection, and the same station would be refused again.
* `StationSettings`. Operation mode and active level are one value (`Outputs`), name
  and measurement period another (`Names`), the five numbers of a schedule a third
  (`Times`); the code handles the members of each alike. Stations and valves are
  never deleted. Hibernate and PostgreSQL are external and do what the annotations
  ask for: READ COMMITTED; keys from sequences, so that nothing is written before
  the commit; eager schedules, one statement per valve; a changed row is written
  with all its columns; a commit fails if a row to be changed or deleted is gone. The
  order among rows with the same pin is any. The client is external too (no web site
  is in the repository): it sends a form it was given, with at most one change,
  as often as it likes. The loops over valves and items are written without a
  recursion: sorting by pin puts each element at its rank (`Place`), and an item that
  follows another of the same pin finds the entries this one has left
  (`OldSchedules`), which is all that one pass of `updateValves` tells the next.
* `OneWireSearch`. Addresses of `BITS` bits; the family code is abstracted to the
  set `Supported`. The CRC is taken to reject exactly the numbers no device has.
  Conversely `Measurements` takes the result of a search as a set of probes.
* `OneWireBus`. The RMT channels, the wire and its devices are external: a queued item is
  played from its start, a recording ends when the wire is quiet, and `rmt_receive` on
  a channel that is receiving is refused or takes its place, as the driver of the
  chip is not in the repository. Durations are numbers where the code compares them. What
  a recording holds that a short circuit began, ended or cut is any sequence of two
  symbols that decode differently (`Noise`). The mutex has one taker at a time, the
  worker; what matters of it is that every call gives it back. The bits of a write do
  not return to the caller and are left out, their number is not.
* `Sensors`. Integers in place of bytes, with the width kept by `%` and `\div`;
  temperatures are in sixteenths of a degree. The contents of a scratchpad and
  of a frame are external. The CRC of a scratchpad is taken to reject exactly what
  was misread.

## 4. Runs

Deadlock is checked in `settings`, `settings_rows` and `onewire_bus` only. In the other runs the
behaviours end when their bounds are used up, and the start of the station may
fail for good (`abort`, `goto end`). That nobody waits for ever while the bounds
still allow a step is the subject of the liveness properties.

**`watering_week`** (`MCWateringWeek`). One valve in automatic mode, every minute
of 8 days for 21 scenarios: 7 lists of entries (adjoining, overlapping, nested,
reversed, without length, touching both ends of a day, none) with both active
levels, and weeks over 28 February and 29 February, the ends of 1999, 2000 and
2024, a month, and February 2100, which has no leap day. `WeekdayCorrect`: the formula is
the counted weekday. `WateredAsPromised`: at the end of each day the valve was
open exactly the minutes its entries cover, overlaps once. `SwitchesAtBoundaries`:
levels change at the ends of entries only. The functions compare fields, so one
entry per boundary case is enough; `WeekdayTheorem` and `WindowTheorem` remove the
bounds.

**`watering`** (`MCWateringRefinement`). Two valves, one on each port, three
instants around an entry, up to two messages of four kinds: lengthening and
shortening the lists, a list with a bad entry in the middle, an item without
line, with a wrong line, level or mode, an empty list; one I2C write may fail, and
the allocations of the start may. Two messages are enough for the staged list to
go from three entries to one and from one to two, over the same and over
different valves, which is what the decisions to `realloc` depend on.
`MutualExclusion`, `MemorySafe` (all cells touched lie in their block),
`InstalledValid` (no entry of a refused list and no uninitialised cell is ever
installed), `SnapshotConsistent` (one configuration and one minute per round),
`SettledOutputs` (an always-on or always-off valve gets its level and keeps it),
`MessagesFinish`, and `ImplementsIrrigation`: the two tasks implement `Irrigation`.
A message takes effect when the receiver takes the mutex, a round is decided when
the watering task does. `Irrigation` does not go through a message item by item:
of each property of a valve, the last item with a good value for it prevails
(`AppliedFrom`).

**`measurements`** (`MCMeasurements`). Two lines, two channels, two probes, up to
three rounds; four surroundings: a broken and repeated search, so that rounds begin
late and the timer expires during one; one failing transaction with any sensor;
probes that come and go between three rounds; DHT11 lines that answer, hold no
sensor, or show no edge. Two lines suffice for a value of the previous or
next line, two probes for a foreign temperature, three rounds for a block that
shrinks and grows. `AnalogOwn`, `Dht11Own`, `TemperatureOwn`: each value of a
message belongs to its line or probe and to the round of the timestamp, unless
that sensor itself failed. `ReadingsInBlock`, `MuxStable` and `RoundsComplete`:
every expiry leads to a message. Both the late rounds and the fault of the shared
slot are in the model, and they are the exceptions of two properties: an expiry that
comes while the master waits for the analog worker halts the CPU if it is there before
the worker's pointer, and otherwise moves the pointer. That line's values are then
wrong in the message (`AnalogOwn` excludes the line and says that this takes a
search that was broken), the expiry is cleared with the pointer, and no message need
follow it (`RoundsComplete` excludes the expiry). The run reaches both cases.

The same run evaluates `DriversCompute`, the definitions of `Sensors` over all their
inputs: all addresses of the multiplexer, from 0 to the first two refused; every
configuration the driver can hold with every channel; all 65 536 values of a
conversion; all values of each byte of a frame; all temperatures of a DS18B20
from -55 to 125 degrees with all four resolutions. Together with the theorems
it justifies that `Measurements` has `mux' = line`, and one value per channel,
frame and probe.

**`configuration`** (`MCConfiguration`). Four deliveries of messages of one to
three units: JSON with the periods 0, 259 and none, a message cJSON fails on, and
one that ends too early, in a buffer of its own length or a longer one; any chunks, cut
anywhere. `NoDanglingTree` (no use after, or second, `cJSON_Delete`),
`AppliedInOrder`, `ParsesWhatArrived` (the tail of a longer message in the buffer
changes no complete configuration, and is parsed only as the end of one that stops
too early), `LastIsApplied`, `MeasuresForever` (no period, not 0 and not one
shortened below the minutes already counted, stops the measuring). Four
deliveries allow one configuration in work, one pending, one replacing it, and
one that is cut.

**`station`** (`Station`). Two reconnections (five in the code, `retry_counter`
only counts), four Wi-Fi failures, two broker failures, one failing call of the
chip, two restarts, one crash or failed answer of the server, any initial content
of the NVS. Four Wi-Fi failures reach the limit after a connection that reset the
counter; two restarts let a station register while known, and while its first
registration is still under way. `FailureExplained`: a start is given up for a
failed call, an incomplete NVS or a failed connection only, and the bit for the
radio says it is off for good. `StartedIsKnown`: whatever is lost, sent twice or
crashes, a station that has started is in the repository. `StartsUnlessFailed`,
over both forms of MAC: without a failure a start hands its registration over; with
`digits` the first one succeeds; with `hyphens`, which is what the firmware sends, the
station waits for good and never becomes known.

**`onewire`** (`MCOneWireSearch`). All buses of up to four devices with four-bit
addresses, one bus error and one misread bit anywhere. `FoundOnce`, `AllFound` for
devices that share the lowest bit, as those of one family do, and `SearchEnds`.
The algorithm treats all bits but the lowest alike, so four bits show every
pattern of three discrepancies.

**`onewire_bus`** (`OneWireBus`). Bytes of two bits, a read of one byte at most, two places
in the transmitter's queue, a bus with devices or without, shorted and released at
any time and as often as wanted, refused receptions, a full queue, timeouts; no
bound on the number of calls. The code distinguishes a bit from bytes
and otherwise only counts, so a byte of two bits is enough for a recording of a
byte to be taken for that of a bit and the other way round, and two places are
enough for items to pile up and to be refused. `TypeOK`: whatever happened
before, an event counts symbols the buffer holds, and no call gets more bits than
its caller has room for. `Truthful`: as long as the bus was never shorted and no
transmission refused, reset reports exactly whether there are devices, a read
returns the bits sent for it, and no call fails. `CallsReturn`: every call
returns and gives the mutex back, whatever happened.

**`settings`** (`MCStationSettings`). Two clients, two pins, two outputs, times and
names, two saves, a new station or one whose valves are stored, with at most one
schedule. Two pins are enough for a form that mixes stored and default valves and
for a schedule on the other valve; two saves are the least with which a save
meets the other's commit between any two of its statements, a form is stale, or is
sent again. `FormsComplete`: a form shows each pin once, in order. `SaveAccepted`: a
client that has the station to itself is never refused. `SavedAsRequested`: a save
nobody disturbs leaves exactly the form, also a stale or repeated one. All three
leave out stations with two rows for a pin, which `settings_rows` shows to exist.

The invariants of the proofs (`SettingsInv`, `WateringInv`, ...) are not among the
properties of the runs; each was checked on the same instances before it was proved.

### Disagreements the runs show

| run | property | what |
|---|---|---|
| `measurements_reads` | `TemperatureAsDocumented` | a DS18B20 that cannot be read is sent with the temperature of the probe before it |
| `onewire_not_found` | `NotFoundIsTheEnd` | where devices differ in the lowest bit, the search ends without visiting those with a 0, while `onewire_device.h:56` promises "No more device to get" |
| `station_reboot` | `RegistrationAnswered` | the server answers unknown stations only; a restarted station waits for ever |
| `settings_rows` | `OneValvePerPin` | two overlapping first saves insert every valve twice; `db.sql:38` says `UNIQUE(pin, station_id)`, the entity has no such constraint |

Further observations made while modelling, each a direct consequence of a few
lines and not kept as a run:

* `konfiguracja.json:47` numbers the days from Monday, the code from Sunday
  (`watering.h:8`): an entry written by the schema waters one day early.
* After a short circuit has ended, or a reset has timed out, the receiver is still
  armed (`onewire_bus_impl_rmt.c`, the call returns at `err`). Its event stays in
  the queue, and the next reset takes it for its own: it returns `ESP_ERR_NOT_FOUND`
  although there are devices, while `onewire_bus.h:72` promises it for "no device",
  and the queue may remain one event behind for the calls after it. `Truthful` is
  therefore stated for a bus that was never disturbed.
* A temperature below 0 degrees is sent 4096 degrees too high: `ds18b20.c:129` widens
  the upper byte without its sign (`ProbeTheorem`).
* The checksum of a DHT11 frame is not read (`dht11.c:82-126`): any frame of 43
  symbols is a reading (`ChecksumTheorem`).
* A query of measurements uses the start date for both ends of its range and
  exchanges them (`MeasurementsInvokerProvider.java:61-67`,
  `MeasurementsRepository.java:22-28`), and its service returns null.
* The result of `realloc` replaces the only pointer to the block and is then written
  through (`watering.c:281`).
* An empty `schedules` array changes nothing (`watering.c:274`): a valve's last entry
  cannot be removed.
* `valves_dump_configuration` (`watering.c:362-379`) reads without the mutex and may
  print entries that are being replaced.
* An expiry of the period while the master waits for the analog worker meets the
  worker's pointer (`station.c:545, 628`, index 0 is shared): before it, the station
  halts; after it, the line's analog values are read at a wrong address and sent, and
  the expiry is lost. It takes a 1-Wire search that is repeated for a minute.
* A line without any edge repeats the DHT11 reading of the last line that answered
  (`dht11_measurements.c:51`): `Dht11Own` excludes such lines.
* A configuration that ends too early is not always reported as "Malformed
  configuration message" (`station.c:684`): `station.c:506` parses the whole buffer,
  and what a longer message left there may complete it; it is then applied.
* A message without payload applies the previous configuration again
  (`station.c:506` parses the whole buffer): `ParsesWhatArrived` is stated for messages with a payload.
* After the last reconnection the radio stays off although the station is in
  operation; after a reconnection of the MQTT client the subscription is not
  made again (`station.c:457, 490`).
* `set` with an unknown name writes `mqtt_port` (`main.c:132` cannot be true).
* `read_configuration` returns success when it has no memory for the host name
  (`station.c:797`).
* The firmware sends measurements to the topic `measurements`, the server listens to `data`;
  server and firmware use different keys in the configuration (`measurementPeriod`,
  `pin`, `operationMode`, `enableHigh` against `period`, `line`, `mode`,
  `active_state`).
* The address of a probe is sent with 56 of the documented 64 bits (`station.c:738`).
* `Long.parseLong` throws on a MAC in the documented form
  (`MosquittoRegisterProcessorImpl.java:25`, `rejestracja.json:17`), the only one the
  firmware sends (`station.c:97`): such a registration is never answered, and firmware
  and server of this repository do not get beyond it together. `StartsUnlessFailed`
  states both outcomes; what lies behind the registration is checked with the decimal
  form of `MosquittoRegisterProcessorTest`, and `station_reboot` with that form only.
* The start is given up on a failed connection (`station.c:219`), while the diagram
  returns to connecting (`diagram_stanow.uxf:112-114, 138-140`).
* Saved settings are not sent to the station, and the answer to a save is empty
  (`StationServiceImpl.java:100-103`).
* The site offers pins 1 to 16 (`StationServiceImpl.java:142`), lines are 0 to 15
  (`db.sql:36`): the last pin has no line, and line 0 cannot be set.
* `@Value` on a static field is not injected (`DefaultValves.java:16`): a default valve has
  `enableHigh` false although `application.yaml` says 1.
* A form that is older than a schedule another client has added deletes that schedule
  unseen (`StationInvokerUpdater.java:51`). `SavedAsRequested` states what happens: the
  form prevails.

## 5. Fairness

* `Watering`. Weak fairness of both tasks and of the timer: they have the same
  priority on two cores, never spin, and the timer is auto-reloading
  (`station.c:144`). Strong fairness of the two attempts to take the mutex: each is
  repeated after a timeout, `xSemaphoreGive` readies the task that waits, and the
  next round is most of a minute away. Nothing says messages must come.
* `Measurements`. Weak fairness of master, workers and the interrupt of an armed
  receiver. Not of the timer; and `SearchError` happens finitely often only because
  of its bound: a bus that fails for ever blocks the round, by construction.
* `Configuration`. Weak fairness of the receiver and the timer; deliveries need
  neither begin nor end.
* `Station`. Weak fairness of the main task, the client with the broker, the
  server's listener, and of the radio while it tries to connect. Nobody must
  set, restart, fail or crash. The violations of `RegistrationAnswered` hold under
  this fairness: the system does not merely stop.
* `OneWireSearch`. The worker's loop waits for nothing.
* `OneWireBus`. Weak fairness of the call that has begun, of the transmitter and of the
  interrupt of a recording: hardware, and a task that waits at most a second. Nothing
  makes the bus be called, shorted or released.
* `StationSettings` states no liveness: a transaction may always be rolled back.

## 6. Proofs

`CalendarProofs`, for every `LastYear`:

* `WeekdayTheorem`: `Spec => []WeekdayCorrect`. The inductive invariant is
  `CalendarInv` = `TypeOK` and `WeekdayCorrect`; the induction step is the sum of the
  next day (`DayStep`), the first of the next month (`MonthStep`, by the twelve months)
  and the first of the next year (`YearStep`, over `LeapDay`: a leap year is what
  the quotients by 4, 100 and 400 count).
* `WindowTheorem`: `time_matches_schedule`, with its separate tests of hours and
  minutes, is the half-open interval from start to stop of one day.
  `NoOvernightTheorem`: no entry waters over midnight or in the last minute of a day.
* `WeekTypeTheorem`, `WeekWeekdayTheorem`, `WateredTheorem`, `SwitchesTheorem`: the
  properties of `WateringWeek`, for every list of entries and every day to start
  from, on the condition `StartsRight` that the scenario names the weekday of its first
  day as the calendar does. The invariant counts: `watered` is the number of
  promised minutes up to the present one, so that a full day has all of them.

`WateringProofs`, for every number of valves, clock, set of messages and bound,
from `WateringAssumption`: `TypeTheorem`, `ExclusionTheorem`, `MemoryTheorem`,
`InstalledTheorem` and `SnapshotTheorem`. None of these properties is inductive alone. The
invariant `WateringInv` adds

* `LockInv`: the mutex is held by exactly the task whose program counter is in its
  critical section, from which exclusion follows;
* `StartInv`: nobody touches `valves` before they exist, as the mutex is created after them;
* `StageInv`: between staging and copying, the first cells of the static buffer hold
  validated entries and, after `SetCount`, the count is that of the staged list;
* `InstalledInv`: `InstalledValid` also inside the receiver's critical section, with the
  one valve excepted whose block `memcpy` has not filled yet.

`RefinementTheorem`: `Spec => ImplementsIrrigation`, by `WateringInv` and `MessageInv`
(while the receiver handles the list of an item, the item's level and mode are in place,
and what is staged is that list). Each
action of `Watering` is mapped to one action of `Irrigation` or to a stutter
(`PromiseStep`); the receiver's steps within an item leave `PromisedConfig` as it is
because what they have installed is what the item prescribes, and an item done is the
first one of `AppliedFrom` less. Whether an array of entries is taken as a whole is
decided entry by entry, which needs the first bad one (`Least`).

There is a lemma for every action of `Next`, lemmas for what `realloc`, filling and
copying keep (`ResizedProps`, `GrownProps`, `FilledProps`, `CopiedProps`), and the
temporal step is `PTL` over `InitInv` and `NextInv`.

`ConfigurationProofs`, for every set of messages, their lengths and periods, and
every number of deliveries, on the condition `NoneEmpty` that messages have a payload
(section 4 says what an empty one does): `ConfigurationTyped`, `DanglingTheorem`,
`OrderTheorem`, `ParseTheorem`. `Assembled` says that the buffer begins with the chunks
of the current message that have arrived, so that a complete one is parsed as
itself whatever tail lies behind it, and any other is completed by that tail or given
up; `Ordered` that all known trees are older than
what is on the wire, and those that were applied older than the one in work and
that one older than the one pending.

`MeasurementsProofs`, for every set of lines, channels and probes and every member
of `Bounds`: `MeasurementsTyped`, `AnalogTheorem`, `Dht11Theorem`,
`TemperatureTheorem`, `BlockTheorem`, `MuxTheorem`. Results are lent without a lock,
so the invariant is about places: `Control` says which worker is idle at each place of
the master and what a pending slot tells of that, and four predicates follow each
value from the sensor to the message: in the worker's result (`Sampled`, `Received`,
`Measured`) and in the master's copies (`Copied`). The timer may
expire at any time in these proofs; `Timed` alone uses when it does, to show that
an expiry meets the pointer only after a search that was broken.

`StationProofs`, for every bound: `StationTyped`, `FailureTheorem`, `StartedTheorem`,
which need each other and three facts more. `Early`: before the radio is started
nothing of an earlier start is left. `Lost`: the bit for the broker outlives the
connection only together with the bit that says it failed. `Saved`: what the
server is about to answer it has saved.

`OneWireSearchProofs`, for every number of bits, every set of devices and any
number of failing calls on a bus without misread bits: `SearchTyped`, `FoundOnceTheorem`,
`AllFoundTheorem`. Addresses are compared from the lowest bit on: `Ascending` says that
they are returned in this order; `Turning` that `last_discrepancy` is the last bit at
which the latest one took a 0 where another device has a 1; `InWalk` the same of an
address that is partly read, with the devices that still take part; and
`NonePassed` that each device was returned, takes part, or lies above. A call that
fails has changed only bits that the next one sets again.

`OneWireBusProofs`, for every length of a byte, a buffer and the queue:
`BusTyped` and `BusTruthful`. `Aligned` says that between two calls nothing is left
of the one before, neither an item to play nor a reception nor an event, and that in
a call that receives, item, recording and event follow each other; `RxFits` that
what is recorded fits what the receiver was armed for, with or without noise.

Of `Sensors`, `MeasurementsProofs` has, for every register, frame and temperature:
`ConnectionTheorem` (the line
asked for is connected, whatever was before), `ChannelTheorem` (the word sent to the ADC
differs from the default in channel, range and start only), `MillivoltsTheorem`
(rounding loses less than a millivolt), `FrameTheorem`, `ChecksumTheorem`,
`ProbeTheorem`.

`StationSettingsProofs`, for every set of clients, outputs, times and names, every
number of pins and saves: `SettingsTyped`, `FormsTheorem`, `AcceptedTheorem` and
`SavedTheorem`. The invariant `SettingsInv` has for each client `RowsInv` (what a call
has loaded are rows of the station, each once), `FormInv` (the form shows every pin, in
order, and once unless the station has a pin twice; an item with a key is about a pin
that has a row) and `FreshInv` (without a newer save of another client, the keys of the
form are those of stored entries of the same pin, and what was loaded is what is
stored). They need each other: a commit keeps the form of its own client fresh only
because its items were about stored entries. `SavedTheorem` follows a save that nobody
disturbs (`Alone`) item by item: after the commit one valve has the item's pin and
output (`HoldsItem`), the kept row or an added one, and its schedules are the item's
entries (`EntriesSaved`), those with a key under that key and the new ones above
`lastKey`. That is a bijection, so they are as many (`SameEntries`). The other lemmas
say that a sort by rank is an ordered permutation (`SortedProps`), and what `SetToSeq`,
the list of the answer, one item of the request and the rows of the commit are.

Finite sets are counted without an induction over them: `CountTo` and `Fewer` go back to the
theorems of the library about bijections, and where an induction over the natural
numbers is needed, the least element of a set of numbers (`Least` in `WateringProofs`) takes its place.

Only model-checked:

* all liveness, as fairness and ENABLED are out of the prover's reach:
  `SettledOutputs`, `MessagesFinish`, `RoundsComplete`, `LastIsApplied`,
  `MeasuresForever`, `StartsUnlessFailed`, `SearchEnds`, `CallsReturn`;
* `DriversCompute`, which evaluates the operators of `Sensors` over all their inputs;
  the theorems about them state the same parts one by one.

## 7. Not modelled

* The RMT, I2C, GPIO, NVS, Wi-Fi and MQTT drivers of the chip, FreeRTOS, cJSON, and the
  libraries of the server. They are external, and appear as what the code relies on.
* The CRC table (`onewire_crc.c`): a number or scratchpad is rejected exactly if it was misread.
* Functions nobody calls: `ds18b20_set_resolution`, `ADS1115_ComparatorEnable`,
  `ADS1115_SetDataRate`.
* The status indicator, whose source is not in the repository.
* Heap exhaustion after the start: the firmware writes through the null pointer.
* Console commands that only print.
* The server beyond the registration and the settings. What the import would store is
  commented out, what is left looks the station up and logs. The queries only read,
  over a table that nothing writes. Accounts and authentication are a thin layer
  over the database without a protocol of their own. The database schema has no
  behaviour.

## 8. Running

    tlc -config MCWatering.cfg MCWateringRefinement
    tlapm WateringProofs.tla

`PROJECT.json` lists every run with its module, configuration and properties,
and for each property a mutated definition under which it fails.

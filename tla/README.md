# A TLA+ model of the Tuya BLE SDK on the Telink TLSR8253

The repository is the firmware of a Bluetooth device: the Tuya BLE SDK
(`tuya_ble_sdk/sdk/src`), its port to the Telink chip (`tuya_components`), and a
demo application (`tuya_ble_app`, `vendor/8258_module`), above the vendor's stack
and drivers. Paths below are relative to
`src/telink_kite_ble_sdk_v3.4.0_20190816/ble_sdk_multimode/`. The configuration
modelled is the one of the demo: no operating system (`TUYA_BLE_USE_OS` 0),
registration through BLE, unbinding on request (`TUYA_BLE_DEVICE_UNBIND_MODE` 1),
identity stored in flash, protocol 3.3.

## The system

Everything but the reception of the UART runs in one thread, the main loop of
`vendor/8258_module/app.c`. One turn serves the BLE stack (whose callbacks only post
events), the UART, the software timers and the clock, then runs one pass of the event
scheduler over the events there are, then the application. Components talk by posting
events into one bounded queue, by direct calls inside a handler, by buffers of one
small heap that travel with events and packets, and through shared variables (the
connection status, the stored settings). Only the chunks of the UART come in by DMA
and an interrupt. Where nothing is preempted most of what is hard is still ordering:
a message of the phone takes two passes to be executed, a refused packet is retried
by an event, link events wait behind others, a callback of a timer changes the table
that is being walked, and any post can find the queue full, any request the heap.

| Component | State | Operations | What makes it correct |
|---|---|---|---|
| Event scheduler, `tuya_ble_event.c` | ring of events, start and end index | put, one pass | FIFO, nothing lost once accepted, a pass ends |
| Circular queue, `tuya_ble_queue.c` | buffer, positions, count | enqueue, dequeue, flush | positions agree with the count |
| GATT send queue, `tuya_ble_gatt_send_queue.c` | queue of heap buffers, busy flag | enqueue, send and retry | order, each packet once, buffers owned, one retry at a time |
| Storage, `tuya_ble_storage.c` | two areas of two flash copies, their image in RAM | load, save, migrate, write identity | a save is durable, one power failure loses nothing |
| Session, `tuya_ble_event_handler.c`, `tuya_ble_data_handler.c`, `tuya_ble_api.c` | connection status, binding, serial numbers, pairing random, monitor timer | link events, messages, pairing, unbinding, reset | status, binding and link agree; a command acts in its connection; an unpaired connection ends |
| Reassembly, `tuya_ble_mutli_tsf_protocol.c`, `ble_data_unpack` | offset, buffer, last package number | one packet | a message comes out as sent or not at all; one that arrives whole comes out |
| Software timers, `vendor/common/blt_soft_timer.c`, `ty_broad.c` | sorted table of 13 | start, delete, walk with callbacks | every timer is called once, in time, and the answer of a callback is applied to its own timer |
| Time of the device, `ty_broad.c` | seconds, last reading of the clock | handler once a second | never ahead, behind by a bounded amount |
| Heap, `tuya_ble_heap.c` | free list, blocks | malloc, free | blocks are disjoint, free ones merged |
| Buffers on the heap | messages, lists, events, packets | every request, copy and release | each has one owner, is freed once and not written past |
| Key-length-value list, `tuya_ble_mutli_tsf_protocol.c` | nodes on the heap | make, free | all or nothing |
| Main task and advertising, `tuya_ble_main.c` | advertising data | dispatch, change | advertised binding follows the stored one |
| UART reception, `main.c`, `spp.c`, `common/utility.c` | four slots, two pointers | DMA, interrupt, read | chunks are read in order, whole, once |
| UART protocol, `tuya_uart_common_handler.c` | parser state, timer | one byte, one frame, timeout | resynchronises; a clean report is answered once |
| Ring buffers, `ringBuffer.c` | pool, indices with mirror bits | put, get, one byte, by force | first in, first out |
| Firmware update, `tuya_ota.c` | state, offset, packet number | start, file, offset, data, end | only a complete checked image is booted |
| Key-value records in flash, `nv.c` | sectors of records | write, sector switch | written, never read: not modelled |
| Demo, factory tests, libraries, drivers | | | not modelled, see "Not modelled" |

The hard behaviours and the lines where they bite are the `hazards` of
`PROJECT.json`, each with the properties that would catch it.

## Modules

| Module | What it is |
|---|---|
| `EventFifo` | what the scheduler promises: a bounded FIFO whose head stays while it is handled |
| `EventQueue` | the ring and `tuya_sched_execute`, step by step; `Fifo` is the refinement mapping |
| `Queue` | the circular queue as operators on records |
| `GattSendQueue`, `GattSendQueueProofs` | EXTENDS `Queue`: the send queue beside an event queue that has the semantics of `EventFifo`; and proofs |
| `Storage`, `StorageProofs` | the settings in flash, and proofs |
| `Session`, `SessionProofs` | the life of connections, pairing and binding, and proofs |
| `Reassembly`, `ReassemblyProofs` | packets put together to messages, and proofs |
| `Ota`, `OtaProofs` | the firmware update, with flash and power failures, and proofs |
| `TimerService` | what the software timers promise: countdown timers on ideal time |
| `SoftTimer` | the sorted table and its walk; `Service` is the refinement mapping |
| `Rtc` | the time of the device; in no run, but proved |
| `ByteFifo` | what a ring buffer promises: a bounded FIFO of bytes |
| `RingBuffer` | `ringBuffer.c`; `Bytes` is the refinement mapping |
| `UartRx` | the slots of the UART between DMA, interrupt and main loop |
| `Uart` | EXTENDS `UartRx`: the MCU, the parser and its timer |
| `WrappingProofs` | what wraps: proofs of `EventQueue`, `SoftTimer` and `RingBuffer` with the refinement of each, of `UartRx` and `Uart`, and of `Rtc` |
| `Heap` | the allocator as operators on a heap value |
| `Memory`, `MemoryProofs` | EXTENDS `Heap`: every holder of a buffer, from the phone's packet to the one sent; and proofs of both |
| `Numbers` | lemmas on division, for counters that wrap and places in sectors, and on induction, for recursive functions |
| `MC...` | instances for TLC |

Some definitions are preceded by a faulty form of themselves (`QueueNeverFull`
before `tuya_sched_queue_full`, for instance). No specification uses these; the
`mutants` of `PROJECT.json` put one in place of the sound form to see that the
property named there fails.

### EventQueue

`m_queue_start_index`, `m_queue_end_index` and `m_queue_event_data` are the
code's. `pc`, `end_ix` and `evt` are where `tuya_sched_execute` stands and its
locals. A put is one step, for the reason given in the module. The comment beside
the loop's condition shows the condition of a loop that runs until the queue is
empty; the one compiled stops at the end index read at the start, and
`PassEnds` is the reason it matters: with the other condition (the mutant) a
handler that posts keeps the pass going for ever.

The indices are bytes: `m_queue_size` is assumed to be at most 255.

### GattSendQueue

`heap` is the set of allocated buffers, `sent` and `dropped` the history. The
handler's loop is one step: n packets go out, then it stops because the queue is
empty, because the controller refuses one, or because the status says there is no
connection. The controller may refuse any packet. A post finds the event queue
full when `Len(events) = EventCapacity`; the event being handled still counts,
as in `EventQueue`. The refusal of `tuya_ble_malloc` and of a full send queue leave
everything as it was and are no steps of their own. A packet's identity is its
rank among those accepted; which message it belongs to is not modelled.

### Storage

A save is four flash operations in order; power fails between or during any of
them and leaves a copy erased, torn, complete, or (when it was being erased) as it
was. The CRC is taken to tell a torn copy from a whole one. `committed` and
`attempted` are history: the value of the last save that was completed, and of the
last one that was begun. `failed_saves` counts the failures that hit a save of the
area since its last complete save. `former` are the identities of before that a binding may
still be under: those given up since a new identity began to be written, until the binding is
cleared or found cleared; all, after power failed in two saves of an area in a row, until a
binding of the present identity, or none, is saved whole. `BoundUnderOwnIdentity` holds under
any power failures; a failure while nothing is saved, or in any other save, excuses nothing.

### Session

A turn of the main loop is explicit: between passes (`pass = 0`) the controller
reports, packets arrive, timers fire and the application posts; a pass then handles
the events there were. A message is one event (its last packet), decoded in one
pass and executed in the next. `pair_rand` is the connection the pairing random was
made for, 0 when `tuya_ble_pair_rand_valid` is 0. `known` and `lost` are history.
Two assumptions are about parts outside the repository's source: the phone counts
its messages from 1 in each connection and asks for the device's information, if at
all, first; the controller reports a new connection in a later turn than the end of
the one before. Left out: the send serial number, time requests and the firmware
update. Reports, queries, pass-through and network configuration have no effect on
the state of a session; their buffers are followed in `Memory`.

### Reassembly

`phone` is the message being sent and how far the encoder has come with it,
`trsmitr`, `air` and `offset` are `ty_trsmitr_proc`, `air_recv_packet` and the static
of `ble_data_unpack`. A packet's way through the event queue is left out: the queue
keeps the order, so a packet is decoded as it is sent, or is lost. A byte is a pair
of its message and its place, which is what lets a mixture of messages be told from
a message. The phone is taken to cut its messages as `trsmitr_send_pkg_encode` does.
`first_in` and `clean` are history.

The decoder answers a repeated packet as one to go on with, and `ble_data_unpack`
then copies the subpackage the decoder still holds a second time. The offset is from
then on ahead of the decoder's count, so the copy that would complete the message
does not fit and the message is dropped: a repetition costs the message but never
corrupts it. A repeated first packet starts the message anew. What the condition
`first_in` of `HandedIsTheMessage` excludes is real: packets carry no message number,
and when the end of one message and the first packet of the next are both lost, the
rest of the second is taken for that of the first and the mixture handed over.
Decryption and the CRC stand behind it.

### Ota

`tuya_ota_status`, `ota_settings`, `last_package`, `m_firmware_size_req` and
`ota_end_crc_cnt` are the code's; `md5` and `length` are the fields of that name,
`file` stands for version and CRC, `crc_last` and `offset_last` for
`firmware_image_crc_last` and `firmware_image_offset_last`. `flag[b]` is byte 8 of
bank b: "valid" is 0x4B, "invalid" 0, "unset" erased. A request handler is one step
for what it does in RAM; `todo` holds the flash operations it makes, which
`FlashStep` carries out one at a time, before anything else happens but a power
failure. Nothing else could see the order of the two: a failure clears the RAM, and
no handler reads back what it has just written but `tuya_OTASetBootFlag`, whose
decision only depends on whether the flag was erased. `timers` are the three timers
that matter, which may fire in any order.

The phone is honest: it sends START, the file, an offset (the one it was told, or
0), the packets and END, it asks once more or begins anew when an answer is lost, and
sends packets of full size up to the last. It does not send a file the device runs.
A CRC is the bytes it was computed from: the model knows no collisions. The flash
behaves as NOR flash does: a write over something else than erased bytes leaves
neither.

The start-up sets a transfer back to 0 when it was saved in the middle of a sector
(the request for the offset saves it there after a timeout) but keeps the CRC of
what had been received. The transfer that follows fails at its end although it is
whole, the settings are cleared, and the next one succeeds: `UpdateSucceeds` is what
shows that it is only a delay.

`ResumePointHolds` speaks of settings that name a file, with an offset that is not beyond its
length and a CRC over as many bytes as the offset says (`Fits`), and of a bank whose boot flag is
unset; for those in RAM, between two handlers, it says too that the rest of a sector
begun is erased. A record whose offset was set back by the start-up and one of a longer transfer
are not such settings. A longer transfer exists: the last packet of a file is short, and when it has the number 0, because the
transfer was resumed there, a repetition of it is stored once more (the number 0 is always
accepted, `tuya_ota.c:545`) and the offset runs past the end of the file, into a sector
that was not erased. What was saved then is not what the flash holds. It
does no harm: the check at the end compares the length too, and the settings go. The
instance of the run has no such file (the packets would have to be as long as a sector);
it was met when the invariant of the proof was checked on one that has.

### SoftTimer

`timer` is `blt_timer.timer`, `walk` the locals of `blt_soft_timer_process`. The clock
is read when a walk begins and when a timer starts, counts modulo `Wrap`, and advances
between any two steps. A walk is as many steps as it has entries, and a callback is one
of them: it may start another timer, which sorts the table, after which the answer of
the callback is applied to the index its entry had before, whichever stands there then.
With ideal countdown timers a callback's answer happens to its own timer
(`ServiceSafety`). The code does not always do that, and the run `timer_answer` shows it
(see the disagreements). `ServiceUnlessMoved` says that it is the only way in which the
table differs: a step is one of `TimerService`, or it is the return of a callback that
started another timer and whose entry does not keep its place (`KeepsItsPlace`) with
another's at the index (`AnswersForAnother`), and what follows such a step is that of
`TimerService` again. An entry keeps its place, being due, in front of what is started behind it.
The sort is the code's bubble sort, each of its loops a recursive function.

`TimerAssumption` relates the window of the comparison, the lateness and the intervals:
the build has Wrap 2^32, a window of 67 seconds, margins of 128 microseconds and of 4
seconds. A walk serves at least the first of the timers that are due, so none waits for
more walks than the table has places; that the later margin covers so many
(`MAX_TIMER_NUM < Pre + Late <= Post`) is what keeps a timer from being passed over as one
that is not due yet. With walks 500 microseconds apart 13 of them take 6.5 ms. `chip_reboot`
ends with an empty table. The wake-up from suspend is left out: the program disables suspend.

### Rtc

`elapsed` is the real time, which the code does not see; what it sees is the remainder
by `Wrap`. `Lateness` is how late the main loop may come round. The module is there to
be proved about: the property is about any number of wraps, which no finite instance
reaches, and it is in no run. Its assumption is a definition that the theorem names.

### ByteFifo and RingBuffer

One module per level. The two `memcpy` of a put are one function update (`Copied`).
`Forcing` says whether `ringbuffer_put_force` may be called without room, see below.
`ringbuffer_create` and `ringbuffer_destroy` are not compiled.

### UartRx and Uart

`slot`, `wptr` and `rptr` are `spp_rx_fifo`. DMA writes into the slot of the write pointer
when a chunk begins (`DmaStores`), the interrupt moves the pointer when it ends, and the
main loop takes a slot, reads it byte by byte and frees it: six kinds of steps that
interleave at will. The interrupt does not look whether the next slot is free; that
fewer chunks wait than there are slots is an assumption about the MCU, which is named
in `UartRx` and is the guard of `DmaStores`.

The parser is the `switch` of the code as an operator from state and byte to
state. `settled`, `owed` and `answered` are history: they are the reports sent since
the MCU was last silent for the timeout, and the answers since. What the MCU sends in one
go is noise, parts of frames, anything; or it is so many reports one behind the other, of any
length that fits (`IsReport`, `IsReports`), and then they are owed an answer each. Two more assumptions
are about time, which is not modelled: a clean report takes less than the timeout
(`Prompt`), and the MCU is silent until the timer has run out before `settled` begins
(`Silence`).

### Heap and Memory

`Heap` is the allocator, `Memory` the program on it. A handler of `Memory` is an operator
from the device before to the device after, a record with every variable; requests
that fail take the code's path for it (`Either`, `WithBuffer`). Sizes are the code's: a
message of the phone is put together in a block of its length, decrypted into another,
made into a list of two blocks per data point, and answered through two more and up to
fifty packets of 20 bytes, in a heap of 1536. `BuffersOwned` says that the allocated
blocks are exactly those of the message being put together, of the events and of the
packets that wait. `misuse` is history: a release of what is not allocated, or more
written than a block holds. A message is its first packet and its last; what is between
changes no buffer (`Reassembly` has the packets).

The circular queues are sequences here, as `EventQueue` and `GattSendQueue` show them to
be.

## Runs

| Run | Instance | What it shows |
|---|---|---|
| `rings` | event ring of 3, three events; pool of 6 bytes, of which 4 are used, 2 byte values | the two rings, each while the other is at its start, as they share nothing. The indices wrap at every offset, the event ring fills while a handler posts, passes overlap with posts; refinement of `EventFifo` with its fairness. Every block up to one more than fits at every offset; refinement of `ByteFifo` |
| `gatt_send_queue` | queue of 2, 4 packets, 3 events | the queue fills and wraps twice, the event queue is full when a retry is due, links come and go; every packet leaves |
| `storage` | 2 identities, 3 power failures | every placement of up to three failures over any sequence of saves, loads and migrations; a migration comes to its end |
| `session` | 2 connections, 2 messages each, 3 events | what one connection leaves behind meets the next, link events are lost; an unpaired connection ends |
| `session_filter` | 1 connection, 3 messages | a counterexample, see below |
| `reassembly` | packets of 10 bytes, messages of 5 to 31, 3 messages, frames of 30 | one to four packets, full and not, too long; every pattern of losses, repetitions and cuts over three messages |
| `ota` | packets of 2, sectors of 4, banks of 8, files of 7, 8 and 9, 3 troubles | any three power failures, lost answers, timeouts and restarts of the phone, over any sequence of updates; the update a phone stays with is installed |
| `ota_effect` | files of 7 and 8, 2 troubles, an impatient phone | a counterexample, see below |
| `soft_timer` | clock of 36, 4 timers (`ota_end`, `chip_reboot`, the timeout of the UART, `bleData_send`) in a table of 4, margins 1 and 5, 4 ticks late, 4 starts | the clock wraps several times, the table fills, callbacks end, repeat, start others and reset the chip in the middle of a walk; refinement of `TimerService` but for the answers to the wrong entry, which happen and are gone beyond; a timer called once comes to its end |
| `timer_answer` | the same with the timers the demo starts | a counterexample, see below |
| `uart` | 2 slots, pointers modulo 4, 5 chunks, frames of 12 | pointers wrap, slots fill, reports cut in header, length and data, noise, half frames, updates that begin in a frame |
| `memory` | the build's heap of 1528 bytes and queue of 20, 2 events, 1 connection, 2 messages, 1 report | long and short messages meet in the heap, so that each of the requests fails; the queues fill, the connection ends in between |

Bounds. The number of slots only matters through "empty", "full", "wrapped" and
"one left": a ring of three entries has all of them, and the proofs are for every size of the ring, of
the packet queue, of the byte pool and of the slots, and of the packets, sectors and banks of an
update.
Packets, messages, connections and failures are bounded to keep the state space
finite; each bound is a constant of that name. Three failures are one more than
the two that can lose a setting. Two connections are enough for what is left of one
to meet the next: nothing in the code looks further back than the connection before.
Three messages let what two of them left behind meet a third; the proofs are for any number.
The run of `Session` uses a queue of three events, the smallest in which a link
event, a message and a command meet and a fourth post is lost.
The clock of `SoftTimer` has a window of nine ticks, which is what the intervals with
their lateness and the later margin need; four timers are every kind of callback there
is. In `Uart` the smallest frame with data that can be cut three times fits. `Memory` is
the one with the sizes of the build, because whether a request fails depends on them:
data of 255 bytes and pass-through of 480 bytes take the heap to its end and beyond. Its
messages are one of each path that holds different buffers; `QRY_DEV_INFO`, `STATE_QUERY`
and `FLAG_REPORT_RESP` are in the module and not in the instance, as their paths are those
of `PAIR` and `UNBONDING` with other lengths.

Fairness. The main loop never stops running passes and handlers return: weak
fairness of the scheduler's steps. The stack and the timers are served in every turn,
which a pass only interrupts: strong fairness of their reports. A controller that
has a connection and is offered packets again and again takes one: strong fairness
of a sending retry. A connection the device asked to end does end. Power failures
are bounded, and with power on the start-up and a save proceed: weak fairness. No
fairness is assumed of the phone, the application or the loss of a link, except in
the update: there the phone carries on with its requests, and the flash operations,
the timers and the start-up proceed: weak fairness. Troubles are bounded, which
includes the ten seconds of the timeout: a phone that is too slow for ever gets
nowhere. The software timers assume that the main loop comes round, that a walk goes on
and that the clock advances: weak fairness of each. The UART assumes that a chunk that
began ends and that the main loop comes round; nothing of what the MCU sends, and
nothing of the timer.

### Disagreements between the code and its comments

`session_filter`: the comment at `tuya_ble_data_handler.c:371` says that before
binding other commands than those of the filter are not responded to. The filter
reads the status when a message is received; the command is executed in the next
pass. A data point write received while bound, with an unbinding, a factory reset
or a new identity handled before it, is executed and handed to the application with
`bound_flag` 0.

`ota_effect`: the comment at `tuya_ota.c:250` says that with the boot flag set the new
program takes effect. Between that and the restart two seconds later the status is
NONE and `tuya_ota_start_req` accepts a new transfer, as the check of the status at
`:162` is commented out. Its first packet erases the sector with the flag just set,
and the flag of the old image is cleared already, so a restart at that point finds
nothing to boot. A phone that waits for the restart (`Patient`, the instance of the
other runs) does not get there, and `AlwaysBootable` holds: it is proved.

`timer_answer`: the comment at `blt_soft_timer.c:44` says that the timers are sorted by their
time so that `blt_soft_timer_process` triggers them in turn, and the one at
`blt_soft_timer.h:50` that `TIME_COMPARE_BIG` is 1 if the first time is the later one. It
is 1 for equal times too, so the sort exchanges timers that are due at the same tick (of a
sixteenth of a microsecond). `blt_soft_timer.c:169` applies the answer of a callback to the
index its entry had before. In the counterexample `ota_end` (`tuya_ota.c:205`) and
the timeout of the UART are due at the same tick and the connection monitor runs:
`ota_end` starts the restart (`:269`), the sort has the two exchanged, and the -1 of `ota_end`
deletes the timeout, which is never called; `ota_end` stays, is called once more with its
settings cleared and tells the phone that the update failed. The same comes about without
equal times when an entry in front that was called in the same walk goes on: it
has its new time already, but is not sorted yet. In this port that is the timer of `bleData_send`
(`ty_broad.c:233`, a new interval as long as there are packets), which nothing in the demo
starts, as nothing calls `tlsr_bleData_send`; it is in the instance of `soft_timer`.

Three more were met that no run is about:

- `ty_broad.c:317` marks the time for saving when the seconds are a multiple of 1800. When
  the main loop was late and two seconds are added at once the multiple can be stepped
  over, and the time is saved half an hour later.
- `ringBuffer.c:90` says of `ringbuffer_put_force` that it discards the old data. When it
  overruns from equal mirrors and wraps (`:135`) it flips both mirrors and makes the indices
  equal, and the buffer is empty where it should be full of the new data. The constant
  `Forcing` is FALSE in the run and in `PoolImplementsFifo`; with TRUE, `BytesInOrder` is violated.
  Nothing in the repository puts by force.
- `tuya_ble_api.c:842` says that pass-through data is forwarded. Up to 995 bytes are accepted;
  from about 490 on the heap has no room for the two copies that sending takes, nothing is
  sent and the caller is not told.

## Proofs

Checked with TLAPS; every theorem holds for every value of the constants that
meets the `ASSUME`s of the module.

`GattSendQueueProofs`. Two invariants, one on the other. `IInv` says that exactly one retry
event is among the events while the flag is set and packets wait and none otherwise, and,
so that it is inductive, that the event of a handler that runs stays the head of the
events. `PInv` adds the accounting of packets: the numbers sent followed by those that
wait ascend, the allocated buffers are those that wait, and what was given up is the rest.
The positions of the circular queue enter through `ElementsEnqueued` and
`ElementsDecreased`, which say what the two operations do to the sequence the queue stands
for, for every size (`Numbers` has the arithmetic).

`StorageProofs`. The properties are not inductive: they speak of what is loaded, and
the invariant must say what the flash holds after each of the four operations. Until
the primary is written the backup holds what was committed; from then on the
primary holds what the save is writing (`DuringSave`); otherwise both copies agree,
or one failure left a loadable value (`AtRest`). An area that is not being saved is
untouched by a save of the other. `BindingIsOwn` rests on a second invariant, on top of the
first (`BindingInv`). The value of an area in use is the one in RAM once it is loaded, and what
would be loaded from flash before; the binding in use fits the identity in use or `former`.
While an area is being saved and its save before was completed, a power failure can bring back what
is committed, so that must fit the other area too (`SavingSysFits`, `SavingAuthFits`): this is
where the first invariant is needed, as `OneFailureLosesNothing` says that nothing else comes back.

`SessionProofs`. One invariant for the six properties, and what it says is how the events of
two connections can stand in one queue. `EndComesLast`: the end of a connection is behind
everything of it, and where its report was lost because the queue was full, a pass handles all
there was before the controller reports anything new. `MessagesBelong`: the messages in the
queue are of the connection announced last or behind its announcement, the commands of the one
that was handled and before it. `SerialsAscend`: serial numbers ascend from the last one received
through commands and messages to the last one sent. `RandForgotten`: the random is of the
connection handled last, and gone when its end has been handled. `EndIsReported`: a status that waits
for pairing without a link has the end of the connection in the queue. The second and third hold
as long as no announcement was lost, the fourth as long as no report was, the fifth as long as no end
was: the same conditions the properties have, since a lost report is
what a full queue costs. Every handler is a lemma; a pass leaves behind what it has not reached.

`OtaProofs`. Two theorems, for a phone that waits for the restart (`Patient`; without it the
first one is false, see `ota_effect`). `UpdateNeverBricks`: until the update is decided the bank
that runs holds a whole image, is the one to boot from, and no operation under way touches it
(`Undecided`); once it is, both banks hold an image, and of the flags one of four states holds,
in each of which a valid one is left wherever power fails (`Installing`, `Deciding`). The decision
is sound because what was read back in pieces is what the bank holds (`EndInv`), and nothing
else happens meanwhile. `ResumePointIsInFlash` is about settings that name a file, with
an offset not beyond its length and a CRC over as many bytes (`Fits`), and a bank without a boot flag:
settings claim a part of the target bank, those in
flash (`StoredHolds`) and those in RAM (`RamHolds`), and the handlers are in one of four
situations: resting, writing, erasing, or refusing a packet. Operations only touch places behind
the saved offset (`Behind`), settings are saved when the data they speak of are written, and a
packet goes to places that are erased, because packets are full up to the last and so none
crosses the end of the sector it begins in (`SectorEnd`, `Blank`; this is where `Sector` being a
multiple of `PacketLen` is used). The most work is the start-up, which sets a transfer back.

`ReassemblyProofs`. The invariant relates decoder, buffer and offset to the message
being sent from the arrival of its first packet on (`Follows`): the decoder has
counted no more than the buffer is filled to, and as long as the two are equal the
buffer holds the beginning of the message. The decoder's count may also be that
before the packet sent last, which was lost and may be repeated. `CleanSoFar` says
that nothing else happens to a message that arrives whole. `CopyIsSafe`,
`CopyOfRepeated` and `CopyOfNext` are the three facts about a copy; the step lemmas
combine them.

`WrappingProofs`. The event scheduler: the inductive invariant is `TypeOK` with `SnapshotInQueue` and
`HandledSlotIntact`, and the fact that the ring never holds more than
`m_queue_size` events. `SnapshotInQueue` is what makes it inductive: without it a
pass might take an event that is not there, and the mapping to `EventFifo` would
not hold. The lemmas about `Distance` say what advancing either end of the ring
does to the number of events between two indices. Refinement is proved step by
step: a put is `Post`, taking an event `Start`, the return of a handler `Finish`, and
the other steps stutter. The UART: in `ChunksReadInOrder` each pointer is the remainder of a count
(`handed`, and the chunks that ended), the chunks that wait are the numbers between, and `Apart`
says that numbers less than `num` apart have slots of their own. It follows that DMA does not
write where the main loop reads, from the assumption on the MCU alone. `FramesAreWatched` and
`FramesFit` need one invariant of the parser (`ParserOK`): in each state, how long the frame
is, what its length field said, and that the timer runs.

`ReportsAreAnswered` (`CleanFramesAnswered`) builds on both. All the MCU sent since it was silent is
one sequence `S` of reports. The frame in the parser, what is left of the chunk being read, the
chunks that wait and what is still to be sent are slices of `S` that follow each other (`Sliced`), and
the parser stands inside the report it began, with as many answered as lie before (`Framed`);
`CleanInv` says so while `settled` holds. `ReportGoesOn` is what the parser does with a byte of a
report that is not its last: a header inside of the data, or in the place of the length, does not
lead it astray, because in each state it only looks at its own place. `ReportEnds` is the last
one: the checksum agrees, the answer is counted, and the parser is back at the start. `check_sum` is
compared with itself, so what it computes does not matter. It rests on the assumptions
`Prompt` and `Silence`, and on `UartAssumption` for what a report is.

The software timers: the sort comes first. `SortIs` says that two nested loops of exchanges end with
the same entries in order, each of which is somewhere, for any table whose times are near the
clock (`Near`), which is where a comparison on a clock that wraps is that of the distances
(`Signed`). That nothing is lost and nothing doubled is that an exchange is a permutation; that one
pass takes the latest of the entries to its end is `Iterated` over the loop. `TimerInv` is inductive: one
entry for a callback; between walks the entries in order and `Timely`, which is why order alone is
not enough: an entry that is due has waited no longer than its place in the table allows, since each
turn of the main loop serves at least the first. Without it a timer could stay due for longer than
the later margin and pass for one that is not due yet. In a walk that has given no new times
the entries are in order (`Unchanged`); after it has, they are in none, but the turn has served one, so
each is in time for one turn more (`Changed`), and `WalkEnds` sorts. The type
invariant (`TimerTypes`) and `TimersInOrder` follow. `TableImplementsTimers` is the refinement of `TimerService`:
the view of a table is the set of what is left to each callback, which a sort does not change, a
start is `Start` and so on (`ServiceStart`, `ServiceDelete`, `ServiceCall`, `ServiceTick`,
`ServiceReboot`), and the bounds on how early and how late a call may come are those of
`blt_is_timer_expired` and of `Timely`. Where the callback started another timer, the sorted table
has the entry called in the same place if `KeepsItsPlace`; otherwise the step may be
`AnswersForAnother`. That is the exception in the theorem (`ServiceUnlessMoved`). The
invariant holds after such a step too: that an entry is single, in order and in time does not depend on
whose answer it was given (`CallBackInv`).

The ring: the invariant is
`MirrorsAgree` with the ranges of the indices, and `HeldIs` says how the length follows from the
mirrors. `PoolImplementsFifo` is the refinement of `ByteFifo`, for a ring that nothing forces
(`~Forcing`; with it, it is false, see the disagreements): the k-th byte to be read is k - 1 places
behind the read index (`Place`), so what a write leaves alone is what is held
(`PlacesWritten`, `WrittenAppends`), a read moves every place by what it takes (`ReadTakesOldest`),
and a byte forced on a full ring turns it by one (`FullTurnsRound`). The clock: `NoDrift` holds for
any number of wraps; the invariant says that the seconds counted end no more than a second before
the last call, that `tick_last` is what the clock showed then, and that less than a wrap has passed
since. It is assumed that the main loop comes round in time (`RtcAssumption`).

`MemoryProofs`. A handler is one step of the model, and in the code a chain of requests, copies,
posts and releases with a way out at each. The invariant is therefore stated of a device in
the middle of a handler: `OK(m, k, S)` says that the heap of `m` is sound, that nothing was misused,
and that the allocated blocks are divided, without overlap, among the events from the k-th on, the
send queue, the message being received, and the set `S` of what the running handler holds
(`Divided`, `Unshared`). Between two steps `S` is empty and k is 1; this is `InOrder`, from which the
three properties of the run follow. Every operator that takes or gives memory has a lemma
in these terms: a request leaves everything or adds one block to `S` (`MallocGot`), a release takes
it out (`FreeMaybe`), an event or the send queue takes it over (`PostedWithOK`, `QueueAppend`), and
a whole message sent leaves `S` as it was, whichever of its requests fails (`SendOK`). The lemma of
a handler follows its paths and ends with `S` empty; that is why none leaks. The list of
data points grows under an invariant of its own (`ListOK`): while it grows the handler holds it
besides `S`, once it was given up nothing of it is left. Below them is the heap: the blocks tile the
memory and the free ones are in order, no two touching (`Tiled`, `FreeList`). An insertion is three
parts, the blocks before, the block, the blocks behind (`Between`), and the merges take place at
the two seams (`WithNextFits`, `MergePrevious`, `WithBothFits`); `InsertFits` says that the place where
the loop stops is such a seam.
`MemoryAssumption` says what reports and messages are: a length that is not negative, one of the calls
of the application or of the commands of the phone; that the phone and the application may give
any of these at any time is what the theorems are about.

`Numbers` holds the lemmas on division that `GattSendQueueProofs`, `WrappingProofs`, `OtaProofs` and
`MemoryProofs` share, `RoomForOne` and `TwoRemainders` on multiples of one number, and induction. The
library's induction theorems take an operator as a parameter and cannot be used, but that the order
of the naturals is well founded, and that a well-founded order has least elements, it states for
sets: `LeastNat` and `Induction` are from these. `Iterated` says with them that a recursive function
over `0 .. n` exists and stays in the sets its step leads through, which is what the loops of `Memory`
need (releasing a list, queueing the packets of a message, building the list of data points), the
sum of the free blocks, `SizeOfIs`, and the two loops of the sort of `SoftTimer`.

Left to TLC, and why:

- Liveness and everything under fairness (`FifoFairness`, `PassEnds`, `PacketsLeave`,
  `MigrationCompletes`, `UnauthEnds`, `UpdateSucceeds`, `TimersEnd`, `ChunksArrive`): out of the
  prover's reach.

Every safety property of the runs that pass, state or step, is a theorem.

The type invariants of `GattSendQueue`, `Session`, `Reassembly`, `Ota`, `SoftTimer` and
`RingBuffer` are stated in their modules for the reader and are in no run. Those of
`EventQueue`, `Storage`, `Reassembly`, `Session` and `SoftTimer` are proved; those of the others are in
the invariants of the proofs in a stronger or a more convenient form.

## Not modelled

- The key-value records (`nv.c`, `tuya_flash.c`). They are reached, by the reset counter
  (`ty_broad.c:69`, `:81`) and the time (`:329`), but nothing loads them: no other state
  depends on what they hold. The item buffer of `tuya_flash.c` is not initialised (the call
  is commented out in `tuya_ble_app_demo.c:240`) and `app_fifo.c` is not used.
- Time: the answer to a time request, the conversion of `tuya_ble_unix_time.c`.
- The content of messages beyond what decides a path or a length: data points' types and
  values, advertising data, MD5, AES and CRC.
- The factory, radio and GPIO tests: fixtures of the production line, whose one effect on
  a session is a new identity.
- The vendor's stack, drivers, start-up and boot code and mbedtls: external; the models say
  what they assume of them. They are most of the repository's lines.
- Code that is not compiled or never called: the operating system's variants
  (`TUYA_BLE_USE_OS`), other products' registration modes, `klvlist_2_data`,
  `sysrun_ms_update_handler`, the wake-up of the timers.

## Plan

Done: `EventFifo`, `EventQueue`, `Queue`, `GattSendQueue`, `Storage`, `Session`, `Reassembly`,
`Ota`, `SoftTimer`, `Rtc`, `RingBuffer`, `UartRx`, `Uart`, `Heap`, `Memory`, and the proofs above.
What is left, in this order:

1. Packets that outlive their connection: `GattSendQueue` with the connection of a packet.
2. A variant of `EventQueue` with a preempting producer, for ports that post from
   interrupts.
3. An abstract channel that `Reassembly` implements, and `Session` over it; `Session` with an
   update in progress.
4. The key-value records, should anything come to read them.

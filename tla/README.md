# DxWiFi: models, checks and proofs

DxWiFi sends files over a one-way Wi-Fi link: `tx` cuts a file into blocks and injects
each as an 802.11 frame in monitor mode, `rx` captures the frames with libpcap and writes
their payloads to a file, a stream or a directory of files. There is no acknowledgement
and no retransmission on request, so everything the receiver learns it learns from the
frames: their order, the block number packed into `addr1`, and control frames (preamble,
EOT) whose payload repeats one byte.

This directory holds TLA+ modules of that program, the TLC configurations that check them
on small instances, and theorems about them that TLAPS checks for every value of the
constants. Line numbers refer to the files under `libdxwifi/` and `dxwifi/`.

## 1. Inventory

### Transmitter (`libdxwifi/transmitter.c`)

State: `__activated`; two tables of 8 frame handlers (pre- and postinjection); while
transmitting, the statistics (`frame_count`, bytes read and sent, `prev_bytes_read`,
`tx_state`).
Operations: `start_transmission` (preambles; a loop of poll, read, preinjection handlers,
inject, statistics, postinjection handlers; EOTs), `stop_transmission` (from a signal
handler), `attach_*`/`remove_*` of handlers.
Hard: a stop at any instant; a poll, read or injection that fails; a stream that falls
silent.
Correct when: the air carries preambles, blocks in order, EOTs, in that order; numbers are
places in the file; NORMAL is reported only for a complete file; a stop is prompt and is
reported; a transmission ends.

### Frame handlers and frame layout (`transmitter.c`, `receiver.c`, `ieee80211.h`, `dxwifi.h`)

State: the two tables of handlers; the one buffer of headers and payload in which every
frame of a transmission is built.
Operations: attach and remove (one, or all), invoke a table on a frame; build the radiotap
and 802.11 headers, write the frame number into `addr1`, inject; on the other side find the
payload, read the number, tell control frames from data.
Hard: what an earlier frame left in the buffer; sizes handed from handler to handler; gaps
in a table; fields wider than their bits.
Correct when: the receiver takes out of a frame what the attached handlers made of the
block; control frames are recognised and data is not taken for one; a setting reaches its
own field only.

### Tx program (`dxwifi/tx/tx.c`, `dxwifi/tx/cli.c`)

State: the arguments, the mode, the list of files and retransmissions left, the SIGINT
disposition and the ones saved by `sigaction`, the watch.
Operations: `parse_opt`, `transmit_files`, `transmit_directory_contents`,
`transmit_directory` (with a directory watch), `transmit_new_file`,
`setup_handlers_and_transmit`, the handlers `attach_frame_number` and `delay_transmission`.
Hard: SIGINT between files, while the disposition changes, and inside the callback of the
watch; results that are dropped; files that cannot be opened, pipes, directories.
Correct when: nothing of a list is sent after a stop or a failure, each file is sent once
plus its retransmissions, files of the watch are sent whatever became of the ones before,
SIGINT kills only between transmissions, and a stopped program ends.

### Receiver (`libdxwifi/receiver.c`)

State: `__activated`, pcap's break flag; per capture a frame controller: packet buffer with
write position `index`, a heap of nodes that point into it, the flags `eot_reached`,
`preamble_recv`, `end_capture`, the statistics.
Operations: `receiver_activate_capture` (poll, `pcap_dispatch`, flush), the callback
`process_frame` (classify; buffer, after a dump if the buffer is full), `dump_packet_buffer`
(pop in order, count losses, fill with noise, write), `receiver_stop_capture`.
Hard: blocks out of order, lost, doubled; a buffer reused while a heap points into it;
batches; a stop at any instant; writes that fail; a device that dies.
Correct when: no captured block is lost, doubled, overwritten or left behind; order, losses
and noise are right inside a dump; the next file's blocks stay out of this one; captures
end.

### Rx program (`dxwifi/rx/rx.c`, `dxwifi/rx/cli.c`)

State: the arguments, the number of the next file, the last capture state, whether the
SIGINT handler is installed; the files it writes.
Operations: `parse_opt`; one capture to a stream or a file, or captures in a row into a
directory as long as each reports NORMAL.
Hard: a SIGINT during dispatch leaves NORMAL; lost preambles merge files; an old file is
overwritten without being truncated.
Correct when: nothing is lost or doubled between two captures, no file mixes transmissions
unless all preambles between them were lost, and files correspond to transmissions in order.

### Binary heap (`libdxwifi/details/heap.c`)

State: `tree`, `count`. Operations: push, pop, sort. Correct when: every pop returns a
least element of those pushed and not popped.

### Directory watcher (`libdxwifi/details/dirwatch.c`)

State: up to 256 watched directories, each with 256 slots for names of files that were
created and not yet closed; the `listen` flag. Operations: add, remove, close, stop, and the
loop that reads inotify events and calls the handler when a file it saw created is closed.
Hard: a SIGINT at any instant; many files open at once; files closed that were never seen
created.

### Utilities and logging

`utils.c` sets bits in words, joins paths, asks for the kind of a file and sleeps;
`logging.c` formats lines. Neither keeps state of the protocol. What the helpers decide
(which path is opened, which files count, what a field holds) is modelled where it is used.

### How they interact

The Tx program calls the transmitter once per file; SIGINT calls `stop_transmission` in the
middle of it. Frames cross the air, which loses, damages and (through other stations)
delays them. pcap calls `process_frame` inside the receiver; the Rx program calls the
receiver once per output file. The receiver is the only user of the heap, the Tx program
the only one of the watcher. Both programs have one thread: all concurrency is between that
thread, the signal handler, the kernel, the air and whoever writes files.

The models follow these seams. `Transmission` and `Capture` say what an engine promises to
the program above it; `Transmitter` and `Receiver` are shown to implement them, and
`TxProgram` and `RxProgram` are built on the promises. `Session` joins the receiving program
to a sender and an air.

## 2. Modules

| Module | Models | Extends / instances |
|---|---|---|
| `Capture` | abstract: what a capture promises to its caller | |
| `Receiver` | the capture engine with signal, ring, device and file as environment | instance of `Capture` |
| `MCReceiver` | its instances for TLC | `Receiver` |
| `ReceiverProofs` | theorems about it | `Receiver` |
| `ReceiverOutputProofs` | theorems about what it writes | `ReceiverProofs` |
| `Transmission` | abstract: what a transmission promises to its caller | |
| `Transmitter` | the transmission engine with signal, source and air as environment | instance of `Transmission` |
| `MCTransmitter` | its instances for TLC | `Transmitter` |
| `TransmitterProofs` | theorems about it | `Transmitter` |
| `FrameLayout` | headers, frame number, payload, control frames, as operators | |
| `FramePath` | the tables of handlers, the frame buffer, and the frame at the receiver | `FrameLayout` |
| `MCFramePath` | its instance for TLC | `FramePath` |
| `FramePathProofs` | theorems about it | `FramePath` |
| `TxCommandLine` | defaults and option parser of `tx`, as operators | |
| `TxProgram` | the program `tx` above the engine, with the watch and SIGINT | `TxCommandLine`, instance of `Transmission` |
| `MCTxProgram` | its command lines and files for TLC | `TxProgram` |
| `TxProgramProofs` | theorems about it | `TxProgram` |
| `RxCommandLine` | defaults and option parser of `rx`, as operators | |
| `RxProgram` | the program `rx` above the engine, and the files it writes | `RxCommandLine`, instance of `Capture` |
| `Session` | a sender, an air that loses and doubles frames, and `rx` | `RxProgram` |
| `MCSession` | its instance for TLC | `Session` |
| `SessionProofs` | theorems about it | `Session` |
| `HeapTree` | the array of the heap: relatives, comparison, swap, choice of a child | |
| `PriorityQueue` | abstract: what push and pop promise | |
| `BinaryHeap` | `heap_push` and `heap_pop`, swap by swap | `HeapTree`, instance of `PriorityQueue` |
| `MCBinaryHeap` | its instance for TLC | `BinaryHeap` |
| `BinaryHeapProofs` | theorems about it | `BinaryHeap` |
| `Dirwatch` | the directory watcher with signal, event queue and writers of files as environment | |
| `MCDirwatch` | its instance for TLC | `Dirwatch` |
| `DirwatchProofs` | theorems about it | `Dirwatch` |

Definitions named `Slip...` are plausible slips in the definition that follows them. No
action uses them; each property has been seen to break when a slip takes the place of the
definition.

### Receiver

A frame is what the code looks at: captured length, number in `addr1`, and how many payload
bytes equal the EOT and the preamble value. A node of the heap is its number, offset,
length and, instead of the bytes, the position at which the frame was captured, so that
"written out is what was captured" can be stated. The file is the sequence of writes.

`receiver_activate_capture` is split where a signal or the environment can matter:
`Activate` (fresh controller), `SetActivated` (line 513), `ContinueLoop` (515), `EnterPoll`
(517, the instant before the system call), `PollTimeout`, `PollFails`, `PollReady`,
`DispatchReturns`/`DispatchBreaks`, `EndLoop`, `Return`. `process_frame` is one action per
outcome: `ProcessPreamble`, `ProcessEot`, `ProcessData`, and `ProcessDataFull`, which begins
a dump that `DumpThenBuffer` ends by buffering the frame that did not fit. A dump is one
`DumpPop` per node, so a signal can strike between two writes. `Stop` sets break flag and
active flag, and turns a blocked poll into an interrupted one. `pcap_dispatch` may or may not
test the break flag before its first frame, and always tests it between frames.

Faults are a constant: a write returns less than asked or -1, a poll fails by itself, the
device dies. Counters are taken modulo `StatMod`, which stands for 2^32. So is the number of
a frame, and `Signed` is its conversion to the `int32_t` by which the heap sorts and from
which losses are counted (lines 30, 313, 320, 385): the upper half of the numbers is
negative. A frame may be longer than the packet buffer: the code copies it past the end, and
in the model the write position then exceeds `PbSize`. No run has such a frame or number;
the theorems say where they matter (`FramesFit`, `KeysFit`).

The heap appears as a set of which `heap_pop` returns a least node; that the code's heap
does so is what `BinaryHeap` shows.

`ImplementsCapture` maps this state to `Capture`: the phase comes from where the program is,
what was taken is every frame kept in this capture, a boundary is `end_capture`. It holds
for a dispatch count of 1, the default of `rx`; with more, the frames behind a preamble are
handed over in the same batch.

### Transmitter

The source is a sequence of block sizes. A file is readable from the start; a stream's
blocks become readable one at a time (`Feed`) until it hangs up (`HangUp`). The air is the
sequence of frames that pcap accepted. `Start` through `Leave` follow `start_transmission`
and the removal of the handler in `setup_handlers_and_transmit`. A read that fails leaves
2^32 - 1 in `prev_bytes_read`, as in the code, and is followed by an injection that fails.

`ImplementsTransmission` maps this state to `Transmission`: a stop counts as heard when it
finds the transmission active and its end not yet decided, NORMAL stands for a source read
to its end without a stop, and DEACTIVATED for a stop. A stop before line 440 leaves no
trace, there as here.

### Frame handlers and layout

A word of flags is the set of its bits, and a byte one of `Byte` values, so that TLC can run
`htonl`, the control values and the packing of numbers on bytes of four values.
`AttachPreinject`, `RemovePreinject` and their postinjection twins change the tables between
transmissions. `Begin` sets the frame up; `SendPreamble`, `SendBlock` and `SendEot` write
into the one payload buffer, over what is there, and inject as many bytes as the code does:
those of the frame check sequence are whatever lies behind the payload. The handlers are
those of `tx.c` (`"number"`, and `"log"` for one that changes nothing) and two that use
what transmitter.h:117-124 allows: one truncates the payload, one adds to it.

### Tx program

One command line is chosen and parsed option by option (`ParseOption`, `ParseLast`); an
option that `parse_opt` refuses ends the program with `"usage"`. `Setup` is
`init_transmitter` and the choice of the mode. `OpenFile` to `EndFiles` are `transmit_files`
(tx.c:246-280), called by `caller` for the list of the command line, for one file of the
directory's contents, or for one file of the watch. `Install` to `Restore` are
`setup_handlers_and_transmit` around a transmission of `Transmission`; `Install` pushes the
disposition that `sigaction` hands back and `Restore` pops it, and so do `Arm` and `Unarm`
around the watch. The watch itself may fail: `WatchFails` is the assertion of
`dirwatch_init`, and `dirwatch_add` does not look at what `inotify_add_watch` returns, so
that `AddWatch` may leave a watch that announces nothing. `NextEntry` is one turn of
`readdir`, `ReadEvents` and `TransmitNewFile` the loop of `dirwatch_listen` and its
callback.

`Sigint` does what the disposition says: it kills, stops the transmission, or stops the
watch. Files appear in the directory at any time (`Appear`). The watch announces each new
file once and in order; `Dirwatch` shows that this holds for files that are written one
after the other, and where it fails.

### Rx program and session

`RxProgram` follows `rx.c` in the same way over `Capture`: `NextFile` is the choice of
another capture, `Open` and `OpenFails` are `open_file_and_capture`, `Install` to `Restore`
are `setup_handlers_and_capture`. What a capture took goes to the file in one step, `Flush`,
at its end: that it gets there completely and in order is what `EveryFrameKept`,
`FlushedOnReturn` and `OutputInOrder` show of the receiver. Files keep what they held:
`Write` appends, or writes from the start and leaves the tail.

The code opens an old file without truncating it (rx.c:170). A capture shorter than the old
file therefore leaves the old tail behind what it wrote. The properties of `Session` speak
of files that are new or appended to (`Pristine`); the runs include old files in both
modes, and for those that are overwritten only termination is claimed.

`Session` adds the sender as a counter of its frames: preambles, blocks, EOTs of each
transmission, which is what `AirWellFormed` and `Bracketed` show of the transmitter. The air
delivers, loses (`Lose`) or doubles (`Double`) a frame; a transmission may be stopped
(`Cut`); what is sent before `rx` listens is not heard (`Unheard`). Frames are not reordered
by one hop over the air; a retransmission by the driver is a doubled frame.

### Binary heap

`Push` and `Pop` copy the element, `SiftUp` and `Heapify` are one turn of the loop and one
recursive call. Elements are a key and an id that tells equal keys apart. Slots behind
`count` keep their old contents.

### Directory watcher

The environment creates, closes, reopens and deletes files; the kernel turns that into a
queue of events and drops one that equals the last one queued. `Watch` through `Close`
follow `transmit_directory` (tx.c:369-385) and `dirwatch_listen`: one read takes as many
events as fit, and each event is one action. `Fill` stores a new name in every empty slot,
as the loop without a `break` does; `Hit` is where the search for a closed name ends, and
`CompareNull` is the `strcmp` with an empty slot, after which the program is `"crashed"`.
`"handler"` is the time the handler transmits the file: a SIGINT then reaches either the
watch (`Stop`, before and after the transmission) or the transmission (`StopTransmission`).
The history variable `orderly` records whether the matching files have come one after the
other, which is what the table can handle: `AllAnnounced` speaks of these behaviours, and
`dirwatch_parallel` of the others.

## 3. Runs

| Run | Instance | Shows |
|---|---|---|
| `receiver_ordered` | ordered, noise, batches of 2, five arrivals of blocks 0, 1, 3 (short) and preambles in any order and number, ring of 2, a buffer that two or three frames fill, 2 captures, 1 stop, failing polls | buffer integrity, heap capacity, prompt stop inside a batch, flush, order, noise, loss count |
| `receiver_stream` | unordered, timeout, batches of 1, four arrivals of data, preamble and EOT, 2 captures, 2 stops, failing and partial writes, dying device | order of arrival over dumps, every frame kept when writes fail, termination, implements `Capture` |
| `transmitter` | a stream of three blocks with a timeout, one redundant control frame, 2 transmissions, 2 stops, failing polls, reads and injections | air well formed and bracketed, numbering, prompt stop, termination, implements `Transmission` |
| `frame_path` | bytes of 4 values, control data of 2 bytes, payloads of up to 7, pipelines of 3 slots, 4 changes of them, up to 6 data frames of 4 shapes, 3 settings | payload and number survive the path, control frames told from data, fields of the headers |
| `tx_program` | 13 command lines of all three modes, of which 4 are refused; regular files, a pipe, a missing file, a directory; 2 files that appear; failures of pcap, poll, opendir and inotify; 2 SIGINTs | no further file after a stop, completeness, when SIGINT kills, a stopped program ends, files of the watch are sent |
| `session` | 7 command lines of `rx`, 2 of them refused; files of 2, 0 and 1 blocks, 2 preambles and 2 EOTs each, ring of 2, 2 faults of the air, 1 SIGINT, new and old output files, failures of pcap, open and poll | nothing lost at the seams, one source per file, one file per transmission, delivery, termination |
| `binary_heap` | six elements, two pairs of equal keys, five slots | nothing lost or doubled, implements `PriorityQueue` |
| `dirwatch` | three files, one rejected by the filter, a directory, a table of two slots, buffer of two events, timeout, six doings of the writers in any order, one stop | every file announced once and in order, no comparison with an empty slot, a stop lets one buffer through, the watch ends |

Four further runs check one sentence of the documentation each, and find it violated:

| Run | Sentence | What the code does |
|---|---|---|
| `receiver_threshold` | receiver.c:213-214, dxwifi.h:24: 75 per cent must match | an integer quotient demands all |
| `transmitter_stop` | transmitter.h:335-336: at most one more packet after a stop | a stop before line 440 is overwritten |
| `tx_path` | utils.h:132: a slash is added "if necessary" | none is added when the path has a slash anywhere, so no file of such a directory is found |
| `dirwatch_parallel` | dirwatch.h:42: the handler is called for every event subscribed to | a file created while another is open finds no slot (dirwatch.c:303-307) |

### Divergences seen without a run

* receiver.h:150-154 lets a capture go on until "End-Of-Transmission is signalled"; the EOT
  sets a flag that nothing reads, and rx.c's comment on new files "whenever an EOT" shares
  the view. A capture ends at the next preamble that follows data.
* dxwifi.h:35-36 has control frames signal file boundaries; with `dispatch_count` above 1
  the rest of the batch crosses them.
* process_frame tests the room left in the packet buffer and, after a dump, copies the frame
  unchecked (receiver.c:369-377). `-b` accepts a buffer of 7981 bytes (rx/cli.c:129), which
  leaves out the headers of the longest frame, and the snapshot length goes to 65535: a frame
  longer than the buffer is copied past its end (`FramesFit` is the condition of
  `BufferIsIntact`).
* The number of a frame is an unsigned 32-bit value and the heap keeps it as an `int32_t`
  (receiver.c:30, 385). From 2^31 on numbers sort before the smaller ones, and a dump that
  crosses 2^31 counts a wrong gap (line 320); `KeysFit` is the condition under which order,
  noise and losses are those of the numbers.
* transmitter.h:335-336 promises at most one more *packet* after a stop. The transmitter's
  `StopIsPrompt` holds of data frames: the preambles not yet sent and all EOTs
  (`Redundant` + 1) still follow a stop.
* receiver.h:150-151 writes out any packet captured; frames shorter than the smallest block
  can fill the heap before the buffer (`NoShortFrames` is the condition of `HeapFits`).
* transmitter.h:233 promises the order of attachment; a handler attached after a removal
  goes into the gap (`ReceivedAsAttached` speaks of tables without one).
* The example in README.md passes `-v 6` to `rx`; the option takes no argument, so 6 is a
  path, and the path that follows is refused as a second one (`RxCommandLine!Rejected`).

### Bounds

`MaxArrivals`, `RingSize`, `MaxStops`, `MaxCaptures`, `MaxReadErrors` and `MaxCalls` bound
the environment only. Two captures show that nothing of the first leaks into the second;
five arrivals fill the buffer twice, which is the first time a dump meets an output that is
not empty. One stop at every step of a capture is every stop: a second only repeats the
assignments, and the stream run has two to show it. Sizes are scaled (header 1, blocks 2,
buffer 8) so that the buffer holds two or three frames; `StatMod` is far above the counts of
the ordered run, and small enough in the transmitter for a failed read to wrap. In the
watcher, two slots already hold a stale copy of a name next to the slot in use, and six doings
are enough to write a file, delete it, write it again and reopen it. `MaxEvents` bounds the
writers only.

In `tx_program` two SIGINTs are one to a transmission under the watch and one to the watch
itself, or one that is lost before line 440 and one that is not. A table of four files
(`FileMax`) is filled by the first four names of a command line of five, and the fifth is
refused; `SentMax` only cuts off the count of transmissions, above what any finite command line
asks for. In `session` two preambles are the least number of which one can be lost, and two
faults lose both; an empty transmission between two others tests that repeated preambles
begin no files. `MaxFiles` is above the number of transmissions, and the two faults cannot
make more. `faults` also marks a sender that nobody heard, for `Delivered`. In `frame_path`
seven bytes hold the longest block with one byte added by each of three handlers, and six
frames let the number carry into its second digit of four values.

Deadlock is not checked where the bounded environment runs out and the program is idle, or
polls for ever without a timeout. `frame_path` and `binary_heap` check it.

### Fairness

`FairSpec` is weak fairness of the steps the program takes by itself (`Receive`,
`Transmit`, and `Program` of the watcher and of `TxProgram`): a single-threaded process that
the kernel schedules, and a poll that returns once there is something to return. The
transmitter has strong fairness of the answers of poll as well (`PollReady \/ PollTimeout`):
a poll that fails by itself is entered again while the last read gave data
(transmitter.c:454-479), and does not fail for ever.
`Session` adds weak fairness of the sender, a second process. Nothing is assumed of the air,
of the writer of a stream, of the device or of the user, so the timeout has to end a silent
capture.

In `TxProgram` the end of a transmission is fair for a file (`FileEnds`) and for a stream
with a timeout, as `TransmissionEnds` shows, and not for a stream without one, nor for a
directory that was given as a file, of which every read fails (`Endless`). In `Session` a
capture with a timeout ends in silence, which is `SilenceEndsCapture`.
`TransmissionEnds` rests on the bound of failed reads: a descriptor whose every read fails
keeps the code's loop going for ever. `WatchEnds` takes it that a transmission begun by the
handler ends, which is `TransmissionEnds`.

## 4. Proofs

Every safety invariant and every action property that a passing run checks is also a
theorem, for every value of the constants that meets the modules' assumptions. Eight modules
hold the proofs. Where a theorem needs more than those assumptions, its `ASSUME` says so:

| Hypothesis | Theorems | What it says of the code |
|---|---|---|
| `FramesFit` | `BufferIsIntact`, `HeapNeverFull`, `FramesAreKept`, `CaptureIsFlushed` | no captured frame is longer than the packet buffer; no line checks it, and a longer one is copied past the end (receiver.c:377) |
| `NoShortFrames` | `HeapNeverFull`, `FramesAreKept`, `CaptureIsFlushed` | no captured frame is shorter than the smallest block; shorter ones can fill the heap before the packet buffer |
| `DispatchCount = 1` | `PreambleBoundary`, `ReceiverImplementsCapture` | the default of `rx`; with more, the rest of the batch crosses a preamble |
| `MaxArrivals < StatMod` | `ReceiverImplementsCapture` | a capture has fewer than 2^32 frames: the counter by which the code tells whether there are any (receiver.c:277) would be 0 again |
| `KeysFit` | `OutputIsOrdered`, `NoiseIsAligned`, `LossesAreCounted` | numbers, or without sorting the count of frames, stay below 2^31, where the `int32_t` of the heap (receiver.c:30) is the number itself |
| `PlainPaths` | `AllIsSent` | no directory is named with a slash inside and none at the end; the run `tx_path` shows what happens otherwise |
| `ControlFrames > 0` | `SessionDelivered` | `redundant_ctrl_frames` is not negative; without any preamble two transmissions share a file |
| `Roomy` | `KindsAreKnown`, `HandlersAreReceived` | the sizes that `invoke_handlers` asserts (transmitter.c:220-224): handlers that add bytes find room for them |
| `NumbersFit` | `HandlersAreReceived` | a transmission has fewer than 2^32 frames |

### Receiver

* **`ReceiverTypeOK`**: inductive by itself.
* **`NodesStayApart`**, **`BufferIsIntact`**: `NodesApart` says that nodes lie below the write
  position and do not overlap. It is inductive with the type invariant and the fact that the
  write position returns to 0 only when the heap is empty, for frames of any length.
  `BufferIntact` adds that the write position stays in the buffer: the fit test of line 369
  sees to it for a frame that does not trigger a dump, and `FramesFit` for one that does,
  since the code tests no further.
* **`HeapNeverFull`**: disjoint nodes of at least `BlockMin` bytes below `PbSize` cannot
  number `HeapCapacity` (`CapacityCovers` is the arithmetic). The invariant bounds
  the number of nodes times `BlockMin` by the write position.
* **`FramesAreKept`**: every frame handed over is waiting, written, failed or held, in exactly
  one of them. It rests on the heap never being full.
* **`ReceiverStopIsPrompt`**: the invariant says where the program can be after a live stop:
  the flag is down, and once a frame has been handed over the break flag ends the batch.
* **`PreambleBoundary`**: with `DispatchCount = 1` the loop test follows every frame.
* **`ReceiverImplementsCapture`**: initial states map to initial states and every step to a
  step of `Capture` or a stutter, by the invariants of the file boundary.

What is written (`ReceiverOutputProofs`) needs a view of the steps as the output sees them:
each one rests, starts a capture over, starts a dump, stores a frame, writes one out or
returns (`OutputSteps`). Each theorem is then one case per class.

* **`OutputIsOrdered`**: ids are given once and in order of arrival (`IdInv`), and the key of
  a node is its frame's number or its place in that order, as an `int32_t` (`KeyInv`). Order
  is inductive with its counterpart about the heap: what was written comes before what waits
  (`ArrivalOrderInv` over a capture, `NumberInv` over a dump), so that a least node can
  follow. That the output of a dump is in the order of the keys needs no condition
  (**`OutputIsSortedByKey`**); that the keys are in the order of the numbers needs `KeysFit`.
* **`NoiseIsAligned`**: during a dump the number written last is the one before the expected
  one (`AlignInv`); noise makes up the difference to the next.
* **`CaptureIsFlushed`**: an idle receiver has an empty heap (`EmptyInv`), and the bytes
  received are the bytes written and the bytes of the waiting nodes, modulo the counters'
  range (`BalanceInv`). A sum over a set is stated as a bijection with a function of partial
  sums, since a recursive sum cannot be proved about.
* **`LossesAreCounted`**: the losses are the numbers missing up to the one written last
  (`LossInv`); ids that are in one place only (`OnceInv`) make the number of frames the
  number of numbers.

### Transmitter

* **`TransmitterTypeOK`**: with the bound of control frames sent.
* **`TransmitterStopIsPrompt`**, **`TransmitterStopIsReported`**: the flag stays down after a
  live stop; only a read that is already past the poll can still be injected, and every way
  to "leaving" passes lines 489-491.
* **`AirStaysWellFormed`**, **`NumbersStayPlaces`**, **`NormalIsComplete`**: one invariant,
  `ShapeInv`. It ties the frames on the air to where the program is (`AirInv`), the number to
  the place while no read has failed (`NumberInv`), and NORMAL to the end of the source
  (`CompleteInv`).
* **`TransmissionIsBracketed`**: `BracketInv` says how many control frames of each kind are on
  the air at each place of the program.
* **`TransmitterImplementsTransmission`**: an outcome must be one that the stop allows, so the
  refinement needs the invariants of the stop and of NORMAL. With `ReceiverImplementsCapture`
  it is what allows `TxProgram` and `RxProgram` to be built on the abstract engines.

### Frames

Pipelines, expected payloads and the frame control word are recursive functions on 0..n.
`UpTo` is induction over a *set* of numbers, from the library's theorem that < is
well-founded on them; `RunIs`, `MadeIs` and `WordIs` use it to show that each function is
what its equation says, and every later proof about their values uses it again.

* **`HeaderIsAsSet`**: every callback keeps the buffer a buffer and the header one of those
  that `construct_ieee80211_header` and `attach_frame_number` make (`BufferInv`). `WordFields`
  goes through the fields: masks are disjoint, and a value is cut to its own.
* **`HandlersAreReceived`**: `TableInv` relates the program's handles to the table: one per
  used slot, in rising order as long as no gap was filled, and without gaps as long as none
  was removed. `PipelineMakes` walks the slots and the handles together; `CallMakes` is one
  callback. `NumberReadBack` inverts the packing of a number.
* **`KindsAreKnown`**: what is taken out is what was put in, and all bytes of it count.

### Tx program

* **`SigintKillsBetween`** and **`NothingFollowsAnEnd`**, for every command line, directory
  and number of signals: one invariant says who called `transmit_files` at each place of the
  program (`CallerInv`), that the saved dispositions are exactly those of the handlers that
  are installed, innermost last (`NestInv`), and that the parsed arguments stay records of
  their fields (`ArgsInv`). The lemma `TakeOff` says that what `Restore` pops is what
  `Install` pushed.
* **`TxTypeOK`**: the table of files stays below its maximum (`FilesInv`), because the parser
  refuses what does not fit.
* **`AllIsSent`**: in an undisturbed run every file that was asked for is in line, among the
  entries still to be read, or has been sent as often as it should (`DoneInv`); each is in
  line once and has not been sent before (`LineInv`); the open one has been sent as often as
  the count says (`CountInv`). `PlaceInv` says which of the three sources is at work.

### Session

`BaseInv` is the type invariant and which files are still as they were.

* **`SessionSeams`**: the cut of `SeamsLoseNothing` moves with the capture that runs
  (`SeamInv`).
* **`SessionOneSource`**: the ring is in the order of sending and has all preambles received
  after a frame that is in it (`RingInv`), what files hold was sent before it (`HeldInv`), and
  what was received after a frame that the running capture took is in the ring still
  (`SourceInv`).
* **`SessionOneFile`**: a capture that nobody stopped goes on to the next file at a preamble
  only, and that closes the transmissions of its file (`OneFileInv`).
* **`SessionDelivered`**: without faults the frames reach the program one by one in the order
  of sending. `DeliverInv` names the last one that it dealt with, says that the ring and the
  sender continue from it, that files hold all blocks up to it, and that the number of the
  file is the number of earlier transmissions with blocks.

### Heap

* **`HeapStaysOrdered`** (with **`HeapTypeOK`**): `HeapOrder` is inductive with the type
  invariant because it says what holds in the middle of a sift: every pair is in order but
  those that touch slot `i`, and what hangs below `i` is in order with what `i` hangs from.
* **`ElementsStayDistinct`** and **`HeapImplementsQueue`**: swaps permute the elements, `Push`
  adds one and `Pop` takes one away, so each step is a step or a stutter of `PriorityQueue`.
  That the popped root is a least element needs induction along the path to the root;
  `LeastNumber` provides it, from the library's theorem that inclusion is well-founded on
  finite sets: a slot with a lesser element than the root would have a first such slot, whose
  parent contradicts it. The model pushes no element that is in the heap already: ids tell
  equal keys apart.

### Directory watcher

* **`DirwatchTypeOK`**: inductive by itself.
* **`DirwatchStopWithinBuffer`**: after a live stop nothing has been processed while the
  program is past the loop test, and what has been and what is left of the buffer add up to
  at most one read.
* **`DirwatchAllAnnounced`**: while writers are orderly, the events ahead lead from the name
  in the table to the file that is open (`LeadInv`: each creation finds the table empty, each
  close finds its name), and the closes ahead are the files completed and not announced
  (`CloseInv`).

### What the proofs leave to TLC

`StopIsReported`, `NormalMeansComplete`, `PreambleIsBoundary`, `HeapOrder` and `Distinct` are
proved without a run that checks them by name: they are parts of `ImplementsTransmission`,
`ImplementsCapture` and `ImplementsQueue`, which the runs check. So are `NodesApart`, a part
of `BufferIntact`, and `SortedByKey`, which for the numbers of the runs is `OutputInOrder`.

Model-checked only: liveness, since fairness and ENABLED are out of the prover's reach.
These are `SilenceEndsCapture` and `StopEndsDeadCapture` of the receiver,
`TransmissionEnds`, `StopEndsProgram` and `NewFileSent` of the transmitting side, `WatchEnds`
of the watcher and `SilenceEndsProgram` of the session. So are the four sentences of the
documentation that the code does not keep. That the bounds of the environment (`MaxStops`,
`MaxArrivals` and their like) are large enough is no question for the theorems, which hold
for all of them.

## 5. Not modelled, and why

* Logging: it changes no state of the protocol. `assert_M` is modelled by the steps that
  abort a program.
* `heap_sort`, `set_bits32` and `get_file_size`: nothing calls them.
* Several watched directories, `dirwatch_remove` and adding again: the Tx program watches
  one directory and closes the whole watch.
* The overflow of the kernel's event queue (16384 events by default): the model's queue has
  no bound.
* pcap's filter expressions and options, and the order of its initialisation: libpcap's own.
  That opening the device fails is the step that aborts a program.
* Argument splitting (argp) and number parsing (`atoi`): external. Options arrive as keys and
  values; widths and ranges are modelled.
* The test builds (`DXWIFI_TESTS`), which read and write savefiles, and the scripts.
* The check of the frame check sequence: the code does not check it either.
* A file that appears after `readdir` has passed its place and before `dirwatch_add` is in
  the model, and is never sent, as in the code; `EverythingSent` counts what was there at the
  start and what the watch announced.

## 6. Plan

1. *Done*: the engines `Receiver` and `Transmitter`, `BinaryHeap` and `Dirwatch`, with runs
   and theorems.
2. *Done*: `Transmission` and `Capture` with their refinements, the programs `TxProgram` and
   `RxProgram` with their command lines, `Session`, `FrameLayout` and `FramePath`.
3. *Done*: theorems for every safety invariant and action property of the runs.
4. Models that are left: several watched directories and the overflow of the event queue,
   should the program come to use them.

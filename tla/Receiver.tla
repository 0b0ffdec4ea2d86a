------------------------------- MODULE Receiver -------------------------------
(***************************************************************************)
(* The capture engine of libdxwifi/receiver.c: the frame controller, the   *)
(* pcap callback process_frame, dump_packet_buffer and the poll loop of    *)
(* receiver_activate_capture, together with receiver_stop_capture, which   *)
(* the SIGINT handler of dxwifi/rx/rx.c runs at any instant of a capture.  *)
(*                                                                         *)
(* One capture follows the program counter                                 *)
(*   idle -> start -> test -> enter -> poll -> dispatch -> test ...        *)
(*                     |                           |                       *)
(*                     +-> dump -> idle            +-> dump -> dispatch    *)
(* "enter" is the instant between the loop test and poll(2), "eintr" a     *)
(* poll interrupted by the signal.                                         *)
(*                                                                         *)
(* A frame is what pcap hands to process_frame: its captured length, the   *)
(* number packed in addr1, and how many payload bytes equal the EOT and    *)
(* the preamble value.  A buffered frame is named by the position at which *)
(* it was captured; id 0 names a block of noise in the output file.        *)
(***************************************************************************)
EXTENDS Integers, Sequences, FiniteSets

CONSTANTS
    Frames,         \* frames the air can deliver
    HdrSize,        \* bytes of radiotap header, MAC header and FCS
    CtrlSize,       \* DXWIFI_FRAME_CONTROL_DATA_SIZE
    PbSize,         \* rx->packet_buffer_size
    BufMax,         \* DXWIFI_RX_PACKET_BUFFER_SIZE_MAX
    BlockMin,       \* DXWIFI_BLOCK_SIZE_MIN
    DispatchCount,  \* rx->dispatch_count
    Ordered,        \* rx->ordered
    AddNoise,       \* rx->add_noise
    HasTimeout,     \* is rx->capture_timeout finite?
    StatMod,        \* 2^32, the range of uint32_t: frame numbers and counters
    Faults,         \* subset of {"write", "poll", "device"} that may happen
    RingSize,       \* bound: frames waiting in the kernel
    MaxArrivals,    \* bound: frames the air delivers
    MaxStops,       \* bound: SIGINTs
    MaxCaptures     \* bound: calls of receiver_activate_capture

FrameType == [len : Nat, number : 0..(StatMod - 1), eot : Nat, preamble : Nat]

ASSUME SizeAssumption ==
    /\ HdrSize \in Nat /\ CtrlSize \in Nat \ {0} /\ PbSize \in Nat
    /\ BufMax \in Nat /\ BlockMin \in Nat \ {0} /\ StatMod \in Nat \ {0}
    /\ PbSize <= BufMax         \* rx/cli.c:129-130
ASSUME FrameAssumption ==       \* no frame is cut off inside its headers
    /\ Frames \subseteq FrameType
    /\ \A f \in Frames : HdrSize < f.len
ASSUME SettingAssumption ==
    /\ DispatchCount \in Nat \ {0}
    /\ Ordered \in BOOLEAN /\ AddNoise \in BOOLEAN /\ HasTimeout \in BOOLEAN
    /\ Faults \subseteq {"write", "poll", "device"}
ASSUME BoundAssumption ==
    RingSize \in Nat /\ MaxArrivals \in Nat /\ MaxStops \in Nat /\ MaxCaptures \in Nat

VARIABLES
    pc,             \* where receiver_activate_capture is
    activated,      \* rx->__activated
    breakLoop,      \* pcap's break_loop flag, set by pcap_breakloop
    linkDown,       \* has the capture device failed?
    ring,           \* frames in the kernel, not yet dispatched
    handled,        \* frames handled by the current pcap_dispatch
    pending,        \* the frame that waits for the buffer to be dumped (or none)
    heap,           \* fc.packet_heap: the nodes, in no order
    index,          \* fc.index
    expected,       \* expected_frame of dump_packet_buffer
    eotReached, preambleRecv, endCapture,       \* the frame controller's flags
    processed,      \* rx_stats.num_packets_processed
    payloadSize,    \* rx_stats.total_payload_size
    writelen,       \* rx_stats.total_writelen
    blocksLost,     \* rx_stats.total_blocks_lost
    noiseAdded,     \* rx_stats.total_noise_added
    captureState,   \* rx_stats.capture_state
    out,            \* what the file descriptor received: <<[id, bytes], ...>>
    arrivals, stops, captures,                  \* how often the bounded events happened
    captured,       \* history: the data frames that process_frame has been given
    failed,         \* history: ids whose write failed outright
    dumpFrom,       \* history: Len(out) when the last dump began
    stopped,        \* history: was this capture stopped, before or after activation?
    late            \* history: frames handed to process_frame since that stop

flags   == <<eotReached, preambleRecv, endCapture>>
stats   == <<processed, payloadSize, writelen, blocksLost, noiseAdded, captureState>>
buffer  == <<heap, index, expected, pending>>
history == <<captured, failed, dumpFrom, stopped, late>>
device  == <<breakLoop, linkDown, ring>>
counts  == <<arrivals, stops, captures>>
vars    == <<pc, activated, device, handled, buffer, flags, stats, out, counts, history>>

PCs    == {"idle", "start", "test", "enter", "poll", "eintr", "dispatch", "dump"}
States == {"NORMAL", "TIMED_OUT", "DEACTIVATED", "ERROR"}
NoFrame == [len |-> 0, number |-> 0, eot |-> 0, preamble |-> 0]

-------------------------------------------------------------------------------
(* Helpers.  A definition named Slip... is a plausible slip in the one that *)
(* follows it: no action uses it, and each property is shown to break when *)
(* the slip takes the place of the definition.                             *)

\* The number of header bytes is counted in, but a last block can be shorter.
SlipHeapCapacity == BufMax \div (BlockMin + HdrSize)

\* DXWIFI_RX_PACKET_HEAP_CAPACITY
HeapCapacity == (BufMax \div BlockMin) + 1

PayloadSize(f) == f.len - HdrSize

\* The division of the counts is an integer division, so "more than 0.75"
\* is reached by a payload that matches in every byte.
CheckFrameControl(f) ==
    LET exceeds(n) == 4 * (n \div PayloadSize(f)) > 3
    IN  IF PayloadSize(f) # CtrlSize THEN "none"
        ELSE IF exceeds(f.eot) THEN "eot"
        ELSE IF exceeds(f.preamble) THEN "preamble"
        ELSE "none"

\* Line 369: is there room behind the write position for the whole frame?
SlipFits(f) == index < PbSize
Fits(f) == index + f.len < PbSize

\* What a machine keeps of the number k in 32 signed bits: the upper half of the uint32_t
\* range is negative.  The signed sums and differences of the dump wrap the same way; C
\* leaves their overflow undefined, and this is what the builds compute.
Signed(k) == LET r == k % StatMod IN IF 2 * r < StatMod THEN r ELSE r - StatMod

\* Lines 385-387: the key by which the heap sorts a frame, an int32_t.
SlipNodeNumber(f) == Signed(f.number)
NodeNumber(f) == Signed(IF Ordered THEN f.number ELSE processed)

\* Line 515: is there more to capture?
SlipActiveUntilBoundary == ~endCapture
Active == activated /\ ~endCapture

\* The comparison turned round.
SlipTops == {n \in heap : \A m \in heap : m.number <= n.number}

\* The nodes heap_pop may return: one with the least frame number.
Tops == {n \in heap : \A m \in heap : n.number <= m.number}

\* What write(2) of size bytes may return.
WriteResults(size) == IF "write" \in Faults THEN {-1} \cup 1..size ELSE {size}

\* How many of a run of noise blocks are written; the others fail.
NoiseWrites(blocks) == IF "write" \in Faults THEN 0..blocks ELSE {blocks}

\* The counter taken for a signed one.
SlipAddStat(counter, n) == counter + n

\* A write that fails adds its -1 to an unsigned counter.
AddStat(counter, n) == (counter + n) % StatMod

Written(id, nbytes) == IF nbytes > 0 THEN <<[id |-> id, bytes |-> nbytes]>> ELSE << >>

-------------------------------------------------------------------------------
Init ==
    /\ pc = "idle" /\ activated = FALSE
    /\ breakLoop = FALSE /\ linkDown = FALSE /\ ring = << >>
    /\ handled = 0 /\ pending = NoFrame
    /\ heap = {} /\ index = 0 /\ expected = 0
    /\ eotReached = FALSE /\ preambleRecv = FALSE /\ endCapture = FALSE
    /\ processed = 0 /\ payloadSize = 0 /\ writelen = 0 /\ blocksLost = 0
    /\ noiseAdded = 0 /\ captureState = "NORMAL"
    /\ out = << >>
    /\ arrivals = 0 /\ stops = 0 /\ captures = 0
    /\ captured = << >> /\ failed = {} /\ dumpFrom = 0
    /\ stopped = "no" /\ late = 0

-------------------------------------------------------------------------------
(* The environment: the air, the device and the user.                      *)

Arrive(f) ==
    /\ arrivals < MaxArrivals /\ Len(ring) < RingSize /\ ~linkDown
    /\ ring' = Append(ring, f)
    /\ arrivals' = arrivals + 1
    /\ UNCHANGED <<pc, activated, breakLoop, linkDown, handled, buffer, flags, stats,
                   out, stops, captures, history>>

DeviceFails ==
    /\ "device" \in Faults /\ ~linkDown
    /\ linkDown' = TRUE
    /\ UNCHANGED <<pc, activated, breakLoop, ring, handled, buffer, flags, stats, out,
                   counts, history>>

\* The capture is deactivated and the batch it is in the middle of runs on.
SlipStop ==
    /\ pc # "idle" /\ stops < MaxStops
    /\ activated' = FALSE
    /\ pc' = IF pc = "poll" THEN "eintr" ELSE pc
    /\ stops' = stops + 1
    /\ IF stopped = "live" THEN UNCHANGED <<stopped, late>>
       ELSE stopped' = (IF pc = "start" THEN "early" ELSE "live") /\ late' = 0
    /\ UNCHANGED <<breakLoop, linkDown, ring, handled, buffer, flags, stats, out, arrivals,
                   captures, captured, failed, dumpFrom>>

\* receiver_stop_capture, run by the signal handler while it is installed.
Stop ==
    /\ pc # "idle" /\ stops < MaxStops
    /\ breakLoop' = TRUE
    /\ activated' = FALSE
    /\ pc' = IF pc = "poll" THEN "eintr" ELSE pc
    /\ stops' = stops + 1
    /\ IF stopped = "live" THEN UNCHANGED <<stopped, late>>
       ELSE stopped' = (IF pc = "start" THEN "early" ELSE "live") /\ late' = 0
    /\ UNCHANGED <<linkDown, ring, handled, buffer, flags, stats, out, arrivals,
                   captures, captured, failed, dumpFrom>>

-------------------------------------------------------------------------------
(* receiver_activate_capture                                               *)

\* init_frame_controller: a fresh controller over a fresh sink.
Activate ==
    /\ pc = "idle" /\ captures < MaxCaptures
    /\ pc' = "start"
    /\ captures' = captures + 1
    /\ heap' = {} /\ index' = 0
    /\ eotReached' = FALSE /\ preambleRecv' = FALSE /\ endCapture' = FALSE
    /\ processed' = 0 /\ payloadSize' = 0 /\ writelen' = 0 /\ blocksLost' = 0
    /\ noiseAdded' = 0 /\ captureState' = "NORMAL"
    /\ out' = << >> /\ captured' = << >> /\ failed' = {} /\ dumpFrom' = 0
    /\ stopped' = "no" /\ late' = 0
    /\ UNCHANGED <<activated, device, handled, pending, expected, arrivals, stops>>

\* rx->__activated = true, whatever a stop has just set it to.
SetActivated ==
    /\ pc = "start"
    /\ activated' = TRUE
    /\ pc' = "test"
    /\ UNCHANGED <<device, handled, buffer, flags, stats, out, counts, history>>

ContinueLoop ==
    /\ pc = "test" /\ Active
    /\ pc' = "enter"
    /\ UNCHANGED <<activated, device, handled, buffer, flags, stats, out, counts, history>>

EnterPoll ==
    /\ pc = "enter"
    /\ pc' = "poll"
    /\ UNCHANGED <<activated, device, handled, buffer, flags, stats, out, counts, history>>

\* The timeout is only reported.
SlipPollTimeout ==
    /\ pc = "poll" /\ HasTimeout /\ ring = << >> /\ ~linkDown
    /\ captureState' = "TIMED_OUT"
    /\ pc' = "test"
    /\ UNCHANGED <<activated, device, handled, buffer, flags, processed, payloadSize,
                   writelen, blocksLost, noiseAdded, out, counts, history>>

PollTimeout ==
    /\ pc = "poll" /\ HasTimeout /\ ring = << >> /\ ~linkDown
    /\ captureState' = "TIMED_OUT"
    /\ activated' = FALSE
    /\ pc' = "test"
    /\ UNCHANGED <<device, handled, buffer, flags, processed, payloadSize, writelen,
                   blocksLost, noiseAdded, out, counts, history>>

\* poll(2) < 0: interrupted by the signal, or failing by itself.
PollFails ==
    /\ pc = "eintr" \/ (pc = "poll" /\ "poll" \in Faults)
    /\ captureState' = IF activated THEN "ERROR" ELSE "DEACTIVATED"
    /\ pc' = "test"
    /\ UNCHANGED <<activated, device, handled, buffer, flags, processed, payloadSize,
                   writelen, blocksLost, noiseAdded, out, counts, history>>

PollReady ==
    /\ pc = "poll" /\ (ring # << >> \/ linkDown)
    /\ handled' = 0
    /\ pc' = "dispatch"
    /\ UNCHANGED <<activated, device, buffer, flags, stats, out, counts, history>>

\* pcap_dispatch returns: a full batch, an empty ring, or an error that only logs.
DispatchReturns ==
    /\ pc = "dispatch"
    /\ handled = DispatchCount \/ ring = << >>
    /\ pc' = "test"
    /\ UNCHANGED <<activated, device, handled, buffer, flags, stats, out, counts, history>>

\* pcap_dispatch sees the break flag, clears it and returns.
DispatchBreaks ==
    /\ pc = "dispatch" /\ breakLoop
    /\ breakLoop' = FALSE
    /\ pc' = "test"
    /\ UNCHANGED <<activated, linkDown, ring, handled, buffer, flags, stats, out, counts,
                   history>>

-------------------------------------------------------------------------------
(* process_frame                                                           *)

\* Lines 371-403: copy the id-th frame f to offset at, push its node, count it.
BufferFrame(f, at, id) ==
    LET node == [number |-> NodeNumber(f), id |-> id, off |-> at, len |-> f.len]
    IN  /\ heap' = IF Cardinality(heap) < HeapCapacity THEN heap \cup {node} ELSE heap
        /\ index' = at + f.len
        /\ payloadSize' = AddStat(payloadSize, PayloadSize(f))
        /\ processed' = AddStat(processed, 1)

\* Every dump expects the first block of the file.
SlipStartDump == expected' = 0 /\ dumpFrom' = Len(out) /\ pc' = "dump"

\* dump_packet_buffer starts from the node at the root of the heap.
StartDump ==
    /\ IF heap = {} THEN UNCHANGED expected
       ELSE \E n \in Tops : expected' = n.number
    /\ dumpFrom' = Len(out)
    /\ pc' = "dump"

\* pcap_dispatch hands the next frame to its callback; it tests the break flag
\* between frames, not necessarily before the first.
HandFrame ==
    /\ pc = "dispatch" /\ ring # << >> /\ handled < DispatchCount
    /\ breakLoop => handled = 0
    /\ ring' = Tail(ring)
    /\ handled' = handled + 1
    /\ late' = IF stopped = "no" THEN 0 ELSE late + 1
    /\ UNCHANGED <<activated, breakLoop, linkDown, writelen, blocksLost, noiseAdded,
                   captureState, out, counts, failed, stopped>>

\* Any preamble ends the capture, also the first of its own file.
SlipProcessPreamble ==
    /\ HandFrame /\ CheckFrameControl(Head(ring)) = "preamble"
    /\ endCapture' = TRUE
    /\ preambleRecv' = TRUE
    /\ UNCHANGED <<pc, buffer, eotReached, processed, payloadSize, captured, dumpFrom>>

ProcessPreamble ==
    /\ HandFrame /\ CheckFrameControl(Head(ring)) = "preamble"
    /\ endCapture' = (endCapture \/ processed > 0)
    /\ preambleRecv' = TRUE
    /\ UNCHANGED <<pc, buffer, eotReached, processed, payloadSize, captured, dumpFrom>>

ProcessEot ==
    /\ HandFrame /\ CheckFrameControl(Head(ring)) = "eot"
    /\ eotReached' = TRUE
    /\ UNCHANGED <<pc, buffer, preambleRecv, endCapture, processed, payloadSize, captured,
                   dumpFrom>>

ProcessData ==
    /\ HandFrame /\ CheckFrameControl(Head(ring)) = "none"
    /\ Fits(Head(ring))
    /\ BufferFrame(Head(ring), index, Len(captured) + 1)
    /\ captured' = Append(captured, Head(ring))
    /\ UNCHANGED <<pc, expected, pending, flags, dumpFrom>>

\* The buffer is full: it is dumped before the frame is copied.
ProcessDataFull ==
    /\ HandFrame /\ CheckFrameControl(Head(ring)) = "none"
    /\ ~Fits(Head(ring))
    /\ pending' = Head(ring)
    /\ captured' = Append(captured, Head(ring))
    /\ StartDump
    /\ UNCHANGED <<heap, index, flags, processed, payloadSize>>

-------------------------------------------------------------------------------
(* dump_packet_buffer                                                      *)

\* How far a node is ahead of the frame that should come next, an int.
Missing(n) == IF Ordered THEN Signed(n.number - expected) ELSE 0

\* One block too few, as if the expected frame were the last one written.
SlipNoiseBlocks(n) == IF AddNoise /\ Missing(n) > 1 THEN Missing(n) - 1 ELSE 0
NoiseBlocks(n) == IF AddNoise /\ Missing(n) > 0 THEN Missing(n) ELSE 0

\* One turn of the loop for node n: of the noise that fills the gap before it, noise
\* blocks are written; then the write of its payload returns nbytes.
WriteNode(n, noise, nbytes) ==
    LET size == n.len - HdrSize
    IN  /\ heap' = heap \ {n}
        /\ out' = out \o [i \in 1..noise |-> [id |-> 0, bytes |-> size]]
                      \o Written(n.id, nbytes)
        /\ noiseAdded' = AddStat(noiseAdded, noise * size - (NoiseBlocks(n) - noise))
        /\ blocksLost' = AddStat(blocksLost, Missing(n))
        /\ writelen' = AddStat(writelen, nbytes)
        /\ failed' = IF nbytes > 0 THEN failed ELSE failed \cup {n.id}
        /\ expected' = Signed(n.number + 1)

DumpPop ==
    /\ pc = "dump"
    /\ \E n \in Tops : \E noise \in NoiseWrites(NoiseBlocks(n)),
                          nbytes \in WriteResults(n.len - HdrSize) :
          WriteNode(n, noise, nbytes)
    /\ UNCHANGED <<pc, activated, device, handled, index, pending, flags, processed,
                   payloadSize, captureState, counts, captured, dumpFrom, stopped, late>>

\* The dump returns from process_frame instead of falling through.
SlipDumpThenBuffer ==
    /\ pc = "dump" /\ heap = {} /\ pending # NoFrame
    /\ index' = 0
    /\ pending' = NoFrame
    /\ pc' = "dispatch"
    /\ UNCHANGED <<activated, device, handled, heap, expected, flags, stats, out, counts,
                   history>>

\* The heap is drained inside process_frame: the write position returns to 0
\* and the frame that did not fit is copied.
DumpThenBuffer ==
    /\ pc = "dump" /\ heap = {} /\ pending # NoFrame
    /\ BufferFrame(pending, 0, Len(captured))
    /\ pending' = NoFrame
    /\ pc' = "dispatch"
    /\ UNCHANGED <<activated, device, handled, expected, flags, writelen, blocksLost,
                   noiseAdded, captureState, out, counts, history>>

\* Only a capture that ended at a file boundary or by a timeout is flushed.
SlipEndLoop ==
    /\ pc = "test" /\ ~Active
    /\ IF captureState = "DEACTIVATED" THEN pc' = "idle" /\ UNCHANGED <<expected, dumpFrom>>
                                      ELSE StartDump
    /\ UNCHANGED <<activated, device, handled, heap, index, pending, flags, stats, out,
                   counts, captured, failed, stopped, late>>

\* Lines 515 and 549: the loop ends and the rest of the buffer is flushed.
EndLoop ==
    /\ pc = "test" /\ ~Active
    /\ StartDump
    /\ UNCHANGED <<activated, device, handled, heap, index, pending, flags, stats, out,
                   counts, captured, failed, stopped, late>>

\* The flush is over: stats are handed out and the controller is torn down.
Return ==
    /\ pc = "dump" /\ heap = {} /\ pending = NoFrame
    /\ index' = 0
    /\ pc' = "idle"
    /\ UNCHANGED <<activated, device, handled, heap, expected, pending, flags, stats, out,
                   counts, history>>

-------------------------------------------------------------------------------
Dump == DumpPop \/ DumpThenBuffer \/ Return

\* The steps the receiver takes by itself once a capture has begun.
Receive ==
    \/ SetActivated \/ ContinueLoop \/ EnterPoll
    \/ PollTimeout \/ PollFails \/ PollReady
    \/ ProcessPreamble \/ ProcessEot \/ ProcessData \/ ProcessDataFull
    \/ DispatchReturns \/ DispatchBreaks
    \/ EndLoop \/ Dump

Environment == (\E f \in Frames : Arrive(f)) \/ DeviceFails \/ Stop

Next == Activate \/ Receive \/ Environment

Spec == Init /\ [][Next]_vars

\* The process is scheduled and poll(2) reports what is ready: the receiver
\* does not stop between two steps.  Nothing is assumed of the environment.
FairSpec == Spec /\ WF_vars(Receive)

-------------------------------------------------------------------------------
(* Properties                                                              *)

NodeType == [number : Int, id : Nat, off : Nat, len : Nat]

\* Type invariant: the range of every variable of the loop, the frame controller, its
\* statistics and its output.
LoopOK ==
    /\ pc \in PCs /\ activated \in BOOLEAN
    /\ breakLoop \in BOOLEAN /\ linkDown \in BOOLEAN
    /\ ring \in Seq(Frames) /\ handled \in 0..DispatchCount
    /\ arrivals \in 0..MaxArrivals /\ stops \in 0..MaxStops /\ captures \in 0..MaxCaptures
    /\ stopped \in {"no", "early", "live"} /\ late \in Nat
BufferOK ==
    /\ heap \subseteq NodeType /\ IsFiniteSet(heap)
    /\ index \in Nat /\ expected \in Int /\ pending \in Frames \cup {NoFrame}
    /\ captured \in Seq(Frames)
StatsOK ==
    /\ processed \in 0..(StatMod - 1) /\ captureState \in States
    /\ payloadSize \in 0..(StatMod - 1) /\ writelen \in 0..(StatMod - 1)
    /\ blocksLost \in 0..(StatMod - 1) /\ noiseAdded \in 0..(StatMod - 1)
FlagsOK == eotReached \in BOOLEAN /\ preambleRecv \in BOOLEAN /\ endCapture \in BOOLEAN
OutputOK == out \in Seq([id : Nat, bytes : Nat]) /\ failed \subseteq Nat /\ dumpFrom \in Nat
TypeOK == LoopOK /\ BufferOK /\ StatsOK /\ FlagsOK /\ OutputOK

\* The packet buffer is reused safely: every node that waits in the heap points to
\* bytes below the write position, inside the buffer, and no later frame was copied
\* over them, so what is written out is what was captured (receiver.c:341, 369-377).
\* The inside of the buffer is kept only while each frame alone fits it: line 377 copies
\* a longer one, which no line refuses, past the end.
Overlap(m, n) == m.off < n.off + n.len /\ n.off < m.off + m.len
NodesApart ==
    /\ \A n \in heap : n.off + n.len <= index
    /\ \A m, n \in heap : m # n => ~Overlap(m, n)
BufferIntact == index <= PbSize /\ NodesApart

\* heap_push never finds the heap full, so it drops no frame: the capacity computed
\* from the smallest block (receiver.c:26) covers what the packet buffer can hold,
\* as long as no captured frame is shorter than that block.
HeapFits == Cardinality(heap) < HeapCapacity

\* Every data frame pcap handed over is in exactly one place: held while the buffer is
\* dumped, waiting in the heap, in the output once, or lost to a write that failed.
\* None is dropped, none written twice, over all the dumps of a capture.
Held == IF pending = NoFrame THEN {} ELSE {Len(captured)}
Waiting == {n.id : n \in heap}
InOutput == {out[i].id : i \in DOMAIN out} \ {0}
EveryFrameKept ==
    /\ Waiting \cup InOutput \cup failed \cup Held = DOMAIN captured
    /\ Held \cap (Waiting \cup InOutput \cup failed) = {}
    /\ Waiting \cap InOutput = {} /\ Waiting \cap failed = {} /\ InOutput \cap failed = {}
    /\ \A m, n \in heap : m.id = n.id => m = n
    /\ \A i, j \in DOMAIN out : out[i].id = out[j].id /\ out[i].id # 0 => i = j

\* When a capture has returned nothing is left behind in the buffer, whatever ended
\* it, and its statistics balance: as many bytes written as payload received.
FlushedOnReturn ==
    pc = "idle" => /\ heap = {} /\ index = 0 /\ pending = NoFrame
                   /\ "write" \notin Faults => writelen = payloadSize

\* The output is in order: by frame number inside one dump of an ordered capture, in
\* order of arrival over the whole of an unordered one, although the heap that sorts
\* it is emptied and refilled in between.
NumberAt(i) == captured[out[i].id].number
DataOut == {i \in DOMAIN out : out[i].id # 0}
LastDump == {i \in DataOut : i > dumpFrom}
OutputInOrder ==
    IF Ordered THEN \A i, j \in LastDump : i < j => NumberAt(i) <= NumberAt(j)
               ELSE \A i, j \in DataOut : i < j => out[i].id < out[j].id

\* Noise keeps blocks in their place: inside one dump, when no frame came twice, a
\* block stands as far from the first one as their frame numbers differ.
NoiseAligns ==
    (Ordered /\ AddNoise /\ "write" \notin Faults
             /\ \A i, j \in LastDump : NumberAt(i) = NumberAt(j) => i = j)
    => \A i, j \in LastDump : i - j = NumberAt(i) - NumberAt(j)

\* Losses inside a capture that was written in one dump are counted exactly, when no
\* frame came twice: the numbers between the least and the greatest that never came.
LossesCounted ==
    LET got == {NumberAt(i) : i \in DataOut}
    IN  (/\ pc = "idle" /\ Ordered /\ dumpFrom = 0 /\ failed = {}
         /\ Cardinality(got) = Len(captured) /\ got # {})
        => blocksLost = Cardinality({k \in 0..expected :
                              /\ k \notin got
                              /\ \E a, b \in got : a < k /\ k < b})

\* A stop that finds the capture active lets at most one more frame be processed
\* (receiver.h:180-181), even in the middle of a batch of dispatch_count frames.
StopIsPrompt == stopped = "live" => late <= 1

\* A capture with a timeout returns once the air falls silent, whatever frames came
\* and wherever the signal struck, unless the device fails under it.
SilenceEndsCapture == pc = "start" ~> (pc = "idle" \/ linkDown)

\* When the device has failed, poll returns at once and every dispatch fails; a stop
\* of the active capture still ends it.
StopEndsDeadCapture == (stopped = "live" /\ linkDown) ~> pc = "idle"

\* As documented (receiver.c:213-214, dxwifi.h:24): a frame more than 0.75 of whose
\* payload matches a control value is a control frame, so none is captured as data.
ThresholdIsHonoured ==
    \A i \in DOMAIN captured :
        PayloadSize(captured[i]) = CtrlSize
        => 4 * captured[i].eot <= 3 * CtrlSize /\ 4 * captured[i].preamble <= 3 * CtrlSize

\* Control frames "signal file boundaries to the receiver" (dxwifi.h:35-36): no frame
\* behind the preamble of the next file enters this one.  It holds as long as
\* dispatch_count is 1, so that the loop test at receiver.c:515 follows every frame.
PreambleIsBoundary == [][endCapture /\ pc # "idle" => captured' = captured]_vars

\* A capture is what Capture promises to the program, when frames are dispatched one by
\* one: it ends by a stop, a timeout or a file boundary, none of which it reports without
\* cause, and takes no data behind the boundary (rx.c:199-204 relies on the report).
Flushing == pc = "dump" /\ pending = NoFrame
Phase ==
    CASE pc = "idle" -> "idle" [] pc = "start" -> "begun" [] Flushing -> "done"
      [] OTHER -> "active"
Report == IF pc = "idle" \/ Flushing THEN captureState ELSE "NORMAL"
Service == INSTANCE Capture WITH
    Data <- Frames, phase <- Phase, heard <- stopped = "live", boundary <- endCapture,
    taken <- captured, report <- Report
ImplementsCapture == Service!Spec
===============================================================================

---------------------------- MODULE ReceiverProofs ----------------------------
(***************************************************************************)
(* Theorems about Receiver, for every value of its constants: type         *)
(* correctness, the safety of the packet buffer, that the packet heap is   *)
(* never full, that no frame is dropped or written twice, that a stop is   *)
(* prompt and that a preamble closes the file.                             *)
(***************************************************************************)
EXTENDS Receiver, FiniteSetTheorems, SequenceTheorems, TLAPS

\* No frame pcap captures is shorter than the smallest block.
NoShortFrames == \A f \in Frames : BlockMin <= f.len

\* No frame pcap captures is longer than the packet buffer.  No line of the receiver
\* checks it: a longer one is copied past the end (receiver.c:377).
FramesFit == \A f \in Frames : f.len <= PbSize

\* The arithmetic behind the heap's capacity: count blocks of at least
\* BlockMin bytes fit into a buffer of at most BufMax bytes only if count is
\* below the capacity computed by rounding down.
LEMMA CapacityCovers ==
    ASSUME NEW count \in Nat, NEW used \in Nat,
           count * BlockMin <= used, used <= BufMax
    PROVE  count < HeapCapacity
<1> USE SizeAssumption
<1> DEFINE q == BufMax \div BlockMin
<1>1. q \in Nat /\ BufMax < (q + 1) * BlockMin
  BY SMT
<1>2. SUFFICES ASSUME q + 1 <= count PROVE FALSE
  BY <1>1 DEF HeapCapacity
<1>3. (q + 1) * BlockMin <= count * BlockMin
  BY <1>1, <1>2
<1> QED
  BY <1>1, <1>3

\* A frame's payload is not empty, and is an integer.
LEMMA FrameSizes ==
    ASSUME NEW f \in Frames
    PROVE  f \in FrameType /\ PayloadSize(f) \in Nat \ {0} /\ f.len \in Nat /\ f.number \in Nat
BY FrameAssumption, SizeAssumption DEF PayloadSize, FrameType

\* The conversion to a signed number gives an integer.
LEMMA SignedType == ASSUME NEW k \in Int PROVE Signed(k) \in Int
BY SizeAssumption DEF Signed

\* Statistics stay in the range of their unsigned type, whatever is added.
LEMMA StatRange ==
    ASSUME NEW c \in 0..(StatMod - 1), NEW n \in Int
    PROVE  AddStat(c, n) \in 0..(StatMod - 1)
BY SizeAssumption DEF AddStat

-------------------------------------------------------------------------------
(* Type correctness.                                                       *)

LEMMA InitTypeOK == Init => TypeOK
<1> SUFFICES ASSUME Init PROVE TypeOK
  OBVIOUS
<1>0. << >> \in Seq(Frames) /\ << >> \in Seq([id : Nat, bytes : Nat])
  OBVIOUS
<1>1. LoopOK
  <2>1. ring \in Seq(Frames)
    BY <1>0 DEF Init
  <2>2. handled \in 0..DispatchCount /\ arrivals \in 0..MaxArrivals
        /\ stops \in 0..MaxStops /\ captures \in 0..MaxCaptures /\ late \in Nat
    BY SettingAssumption, BoundAssumption DEF Init
  <2>3. /\ pc \in PCs /\ stopped \in {"no", "early", "live"}
        /\ activated \in BOOLEAN /\ breakLoop \in BOOLEAN /\ linkDown \in BOOLEAN
    BY DEF Init, PCs
  <2> QED
    BY <2>1, <2>2, <2>3 DEF LoopOK
<1>2. BufferOK
  BY FS_EmptySet DEF Init, BufferOK
<1>3. StatsOK
  BY SizeAssumption DEF Init, StatsOK, States
<1>4. FlagsOK /\ OutputOK
  BY <1>0 DEF Init, FlagsOK, OutputOK
<1> QED
  BY <1>1, <1>2, <1>3, <1>4 DEF TypeOK

\* Pushing a frame keeps the heap a finite set of nodes and the counters in range.
LEMMA BufferFrameType ==
    ASSUME BufferOK, StatsOK, NEW f \in Frames, NEW at \in Nat, NEW id \in Nat,
           BufferFrame(f, at, id)
    PROVE  /\ heap' \subseteq NodeType /\ IsFiniteSet(heap')
           /\ index' \in Nat /\ processed' \in 0..(StatMod - 1)
           /\ payloadSize' \in 0..(StatMod - 1)
<1> DEFINE node == [number |-> NodeNumber(f), id |-> id, off |-> at, len |-> f.len]
<1>1. f.len \in Nat /\ f.number \in Nat /\ PayloadSize(f) \in Int
  BY FrameSizes
<1>2. node \in NodeType
  <2>1. NodeNumber(f) \in Int
    BY <1>1, SignedType DEF NodeNumber, StatsOK
  <2> QED
    BY <1>1, <2>1 DEF NodeType
<1>3. heap' = heap \/ heap' = heap \cup {node}
  BY DEF BufferFrame
<1>4. IsFiniteSet(heap \cup {node})
  BY FS_AddElement DEF BufferOK
<1>5. heap' \subseteq NodeType /\ IsFiniteSet(heap')
  BY <1>2, <1>3, <1>4 DEF BufferOK
<1>6. payloadSize' \in 0..(StatMod - 1)
  BY <1>1, StatRange DEF BufferFrame, StatsOK
<1>7. index' \in Nat /\ processed' \in 0..(StatMod - 1)
  <2>1. processed \in 0..(StatMod - 1) /\ processed' = AddStat(processed, 1)
    BY DEF BufferFrame, StatsOK
  <2>2. index' = at + f.len
    BY DEF BufferFrame
  <2>3. processed' \in 0..(StatMod - 1)
    BY <2>1, StatRange
  <2>4. index' \in Nat
    BY <1>1, <2>2
  <2> QED
    BY <2>3, <2>4
<1> QED
  BY <1>5, <1>6, <1>7

LEMMA StartDumpType ==
    ASSUME BufferOK, OutputOK, StartDump
    PROVE  expected' \in Int /\ dumpFrom' \in Nat /\ pc' = "dump"
<1>1. CASE heap = {}
  BY <1>1 DEF StartDump, BufferOK, OutputOK
<1>2. CASE heap # {}
  <2>1. PICK n \in Tops : expected' = n.number
    BY <1>2 DEF StartDump
  <2>2. n \in NodeType
    BY DEF Tops, BufferOK
  <2> QED
    BY <2>1, <2>2 DEF StartDump, OutputOK, NodeType
<1> QED
  BY <1>1, <1>2

LEMMA HandFrameType ==
    ASSUME LoopOK, HandFrame
    PROVE  /\ Head(ring) \in Frames /\ ring' \in Seq(Frames)
           /\ handled' \in 0..DispatchCount /\ late' \in Nat
           /\ UNCHANGED <<activated, breakLoop, linkDown, counts, stopped>>
<1>1. ring \in Seq(Frames) /\ ring # << >> /\ ring' = Tail(ring)
  BY DEF LoopOK, HandFrame
<1>2. Head(ring) \in Frames /\ ring' \in Seq(Frames)
  BY <1>1
<1>3. handled' \in 0..DispatchCount /\ late' \in Nat
  BY SettingAssumption DEF HandFrame, LoopOK
<1> QED
  BY <1>2, <1>3 DEF HandFrame

\* The gap before a node is an integer, the noise that fills it a number of blocks.
LEMMA MissingType ==
    ASSUME BufferOK, NEW n \in heap
    PROVE  Missing(n) \in Int /\ NoiseBlocks(n) \in Nat
<1>1. n.number - expected \in Int
  BY DEF BufferOK, NodeType
<1>2. Missing(n) \in Int
  BY <1>1, SignedType DEF Missing
<1> QED
  BY <1>2 DEF NoiseBlocks

LEMMA WriteNodeType ==
    ASSUME BufferOK, StatsOK, OutputOK, NEW n \in Tops,
           NEW noise \in NoiseWrites(NoiseBlocks(n)),
           NEW nbytes \in WriteResults(n.len - HdrSize),
           WriteNode(n, noise, nbytes), \A m \in heap : HdrSize < m.len
    PROVE  /\ heap' \subseteq heap /\ IsFiniteSet(heap') /\ expected' \in Int
           /\ noiseAdded' \in 0..(StatMod - 1) /\ blocksLost' \in 0..(StatMod - 1)
           /\ writelen' \in 0..(StatMod - 1)
           /\ out' \in Seq([id : Nat, bytes : Nat]) /\ failed' \subseteq Nat
<1> DEFINE size == n.len - HdrSize
           Entry == [id : Nat, bytes : Nat]
           filler == [i \in 1..noise |-> [id |-> 0, bytes |-> size]]
<1>1. n \in heap /\ n \in NodeType /\ size \in Nat
  BY SizeAssumption DEF Tops, BufferOK, NodeType
<1>2. Missing(n) \in Int /\ NoiseBlocks(n) \in Nat
  BY <1>1, MissingType
<1>3. noise \in Nat /\ nbytes \in Int
  BY <1>1, <1>2 DEF NoiseWrites, WriteResults
<1>4. heap' \subseteq heap /\ IsFiniteSet(heap')
  BY FS_Subset DEF WriteNode, BufferOK
<1>5. noise * size - (NoiseBlocks(n) - noise) \in Int
  BY <1>1, <1>2, <1>3
<1>6. /\ noiseAdded' \in 0..(StatMod - 1) /\ blocksLost' \in 0..(StatMod - 1)
      /\ writelen' \in 0..(StatMod - 1)
  BY <1>2, <1>3, <1>5, StatRange DEF WriteNode, StatsOK
<1>7. filler \in Seq(Entry)
  BY <1>1, <1>3
<1>8. Written(n.id, nbytes) \in Seq(Entry)
  <2>1. n.id \in Nat
    BY <1>1 DEF NodeType
  <2>2. CASE nbytes > 0
    BY <2>1, <2>2, <1>3 DEF Written
  <2>3. CASE ~(nbytes > 0)
    BY <2>3 DEF Written
  <2> QED
    BY <2>2, <2>3
<1>9. out' \in Seq(Entry)
  BY <1>7, <1>8 DEF WriteNode, OutputOK
<1>10. expected' \in Int /\ failed' \subseteq Nat
  <2>1. n.id \in Nat /\ n.number + 1 \in Int
    BY <1>1 DEF NodeType
  <2>2. expected' = Signed(n.number + 1) /\ failed' \subseteq failed \cup {n.id}
    BY DEF WriteNode
  <2> QED
    BY <2>1, <2>2, SignedType DEF OutputOK
<1> QED
  BY <1>4, <1>6, <1>9, <1>10

\* Every buffered frame is longer than its headers (it comes from Frames), so that its
\* payload size is a natural number.
NodesLong == \A n \in heap : HdrSize < n.len

TypeInv == TypeOK /\ NodesLong

LEMMA BufferFrameLong ==
    ASSUME NodesLong, NEW f \in Frames, NEW at, NEW id, BufferFrame(f, at, id)
    PROVE  NodesLong'
BY FrameAssumption DEF NodesLong, BufferFrame

LEMMA NextTypeInv == TypeInv /\ [Next]_vars => TypeInv'
<1> SUFFICES ASSUME TypeInv, [Next]_vars PROVE TypeInv'
  OBVIOUS
<1> USE DEF TypeInv
<1>0. NoFrame \notin Frames
  BY FrameAssumption, SizeAssumption DEF NoFrame
<1>1. ASSUME NEW f \in Frames, Arrive(f) PROVE TypeInv'
  <2>1. ring' \in Seq(Frames) /\ arrivals' \in 0..MaxArrivals
    BY <1>1, BoundAssumption DEF Arrive, TypeOK, LoopOK
  <2> QED
    BY <1>1, <2>1 DEF Arrive, TypeOK, LoopOK, BufferOK, StatsOK, FlagsOK, OutputOK,
       NodesLong, buffer, flags, stats, history
<1>2. CASE DeviceFails
  BY <1>2 DEF DeviceFails, TypeOK, LoopOK, BufferOK, StatsOK, FlagsOK, OutputOK,
     NodesLong, buffer, flags, stats, history, counts
<1>3. CASE Stop
  <2>0. stops' \in 0..MaxStops
    BY <1>3, BoundAssumption DEF Stop, TypeOK, LoopOK
  <2>1. pc' \in PCs /\ activated' \in BOOLEAN /\ breakLoop' \in BOOLEAN
    BY <1>3 DEF Stop, TypeOK, LoopOK, PCs
  <2>2. stopped' \in {"no", "early", "live"} /\ late' \in Nat
    BY <1>3 DEF Stop, TypeOK, LoopOK
  <2> QED
    BY <1>3, <2>0, <2>1, <2>2 DEF Stop, TypeOK, LoopOK, BufferOK, StatsOK, FlagsOK, OutputOK,
       NodesLong, buffer, flags, stats
<1>4. CASE Activate
  <2>1. LoopOK'
    BY <1>4, BoundAssumption DEF Activate, TypeOK, LoopOK, PCs, device
  <2>2. BufferOK' /\ NodesLong'
    BY <1>4, FS_EmptySet DEF Activate, TypeOK, BufferOK, NodesLong
  <2>3. StatsOK'
    BY <1>4, SizeAssumption DEF Activate, StatsOK, States
  <2>4. FlagsOK' /\ OutputOK'
    <3>1. << >> \in Seq([id : Nat, bytes : Nat])
      OBVIOUS
    <3> QED
      BY <1>4, <3>1 DEF Activate, FlagsOK, OutputOK
  <2> QED
    BY <2>1, <2>2, <2>3, <2>4 DEF TypeOK
<1>5. CASE SetActivated \/ ContinueLoop \/ EnterPoll
  <2>1. pc' \in PCs /\ activated' \in BOOLEAN
    BY <1>5 DEF SetActivated, ContinueLoop, EnterPoll, TypeOK, LoopOK, PCs
  <2> QED
    BY <1>5, <2>1 DEF SetActivated, ContinueLoop, EnterPoll, TypeOK, LoopOK, BufferOK, StatsOK,
       FlagsOK, OutputOK, NodesLong, device, buffer, flags, stats, history, counts
<1>6. CASE PollTimeout \/ PollFails
  <2>1. pc' \in PCs /\ activated' \in BOOLEAN /\ captureState' \in States
    BY <1>6 DEF PollTimeout, PollFails, TypeOK, LoopOK, PCs, States
  <2> QED
    BY <1>6, <2>1 DEF PollTimeout, PollFails, TypeOK, LoopOK, BufferOK, StatsOK,
       FlagsOK, OutputOK, NodesLong, device, buffer, flags, history, counts
<1>7. CASE PollReady \/ DispatchReturns \/ DispatchBreaks
  <2>1. pc' \in PCs /\ breakLoop' \in BOOLEAN
    BY <1>7 DEF PollReady, DispatchReturns, DispatchBreaks, TypeOK, LoopOK, PCs, device
  <2>2. handled' \in 0..DispatchCount
    BY <1>7, SettingAssumption
    DEF PollReady, DispatchReturns, DispatchBreaks, TypeOK, LoopOK
  <2> QED
    BY <1>7, <2>1, <2>2 DEF PollReady, DispatchReturns, DispatchBreaks, TypeOK, LoopOK, BufferOK,
       StatsOK, FlagsOK, OutputOK, NodesLong, device, buffer, flags, stats, history, counts
<1>8. CASE ProcessPreamble \/ ProcessEot
  <2>1. HandFrame
    BY <1>8 DEF ProcessPreamble, ProcessEot
  <2>2. FlagsOK'
    BY <1>8 DEF ProcessPreamble, ProcessEot, TypeOK, FlagsOK
  <2>3. LoopOK'
    BY <1>8, <2>1, HandFrameType DEF ProcessPreamble, ProcessEot, TypeOK, LoopOK, counts
  <2>4. BufferOK' /\ StatsOK' /\ OutputOK' /\ NodesLong'
    BY <1>8, <2>1 DEF ProcessPreamble, ProcessEot, HandFrame, TypeOK, BufferOK, StatsOK,
       OutputOK, NodesLong, buffer
  <2> QED
    BY <2>2, <2>3, <2>4 DEF TypeOK
<1>9. CASE ProcessData
  <2>0. captured \in Seq(Frames) /\ Len(captured) + 1 \in Nat /\ index \in Nat
    BY DEF TypeOK, BufferOK
  <2>1. HandFrame /\ BufferFrame(Head(ring), index, Len(captured) + 1) /\ Head(ring) \in Frames
    BY <1>9, HandFrameType DEF ProcessData, TypeOK
  <2>2. LoopOK'
    BY <1>9, <2>1, HandFrameType DEF ProcessData, TypeOK, LoopOK, counts
  <2>3. BufferOK' /\ NodesLong'
    <3>1. captured' \in Seq(Frames)
      BY <1>9, <2>0, <2>1 DEF ProcessData
    <3> QED
      BY <1>9, <2>0, <2>1, <3>1, BufferFrameType, BufferFrameLong
      DEF ProcessData, TypeOK, BufferOK
  <2>4. StatsOK' /\ FlagsOK' /\ OutputOK'
    BY <1>9, <2>0, <2>1, BufferFrameType
    DEF ProcessData, HandFrame, TypeOK, StatsOK, FlagsOK, OutputOK, flags
  <2> QED
    BY <2>2, <2>3, <2>4 DEF TypeOK
<1>10. CASE ProcessDataFull
  <2>1. HandFrame /\ StartDump /\ Head(ring) \in Frames
    BY <1>10, HandFrameType DEF ProcessDataFull, TypeOK
  <2>2. expected' \in Int /\ dumpFrom' \in Nat /\ pc' = "dump"
    BY <2>1, StartDumpType DEF TypeOK
  <2>3. LoopOK'
    BY <2>1, <2>2, HandFrameType DEF TypeOK, LoopOK, counts, PCs
  <2>4. BufferOK' /\ StatsOK' /\ FlagsOK' /\ OutputOK' /\ NodesLong'
    BY <1>10, <2>1, <2>2 DEF ProcessDataFull, HandFrame, TypeOK, BufferOK, StatsOK,
       FlagsOK, OutputOK, NodesLong, flags
  <2> QED
    BY <2>3, <2>4 DEF TypeOK
<1>11. CASE DumpPop
  <2>0. PICK n \in Tops : \E noise \in NoiseWrites(NoiseBlocks(n)),
                             nbytes \in WriteResults(n.len - HdrSize) : WriteNode(n, noise, nbytes)
    BY <1>11 DEF DumpPop
  <2>1. PICK noise \in NoiseWrites(NoiseBlocks(n)), nbytes \in WriteResults(n.len - HdrSize) :
             WriteNode(n, noise, nbytes)
    BY <2>0
  <2>2. \A m \in heap : HdrSize < m.len
    BY DEF NodesLong
  <2>3. /\ heap' \subseteq heap /\ IsFiniteSet(heap') /\ expected' \in Int
        /\ noiseAdded' \in 0..(StatMod - 1) /\ blocksLost' \in 0..(StatMod - 1)
        /\ writelen' \in 0..(StatMod - 1)
        /\ out' \in Seq([id : Nat, bytes : Nat]) /\ failed' \subseteq Nat
    BY <2>1, <2>2, WriteNodeType DEF TypeOK
  <2>4. LoopOK'
    BY <1>11 DEF DumpPop, TypeOK, LoopOK, device, counts
  <2>5. BufferOK' /\ StatsOK' /\ FlagsOK' /\ OutputOK' /\ NodesLong'
    BY <1>11, <2>3 DEF DumpPop, TypeOK, BufferOK, StatsOK, FlagsOK, OutputOK, NodesLong, flags
  <2> QED
    BY <2>4, <2>5 DEF TypeOK
<1>12. CASE DumpThenBuffer
  <2>1. BufferFrame(pending, 0, Len(captured)) /\ pending \in Frames /\ Len(captured) \in Nat
    BY <1>12 DEF DumpThenBuffer, TypeOK, BufferOK
  <2>2. LoopOK'
    BY <1>12 DEF DumpThenBuffer, TypeOK, LoopOK, PCs, device, counts, history
  <2>3. BufferOK' /\ NodesLong'
    BY <1>12, <2>1, BufferFrameType, BufferFrameLong
    DEF DumpThenBuffer, TypeOK, BufferOK, history
  <2>4. StatsOK' /\ FlagsOK' /\ OutputOK'
    BY <1>12, <2>1, BufferFrameType
    DEF DumpThenBuffer, TypeOK, StatsOK, FlagsOK, OutputOK, flags, history
  <2> QED
    BY <2>2, <2>3, <2>4 DEF TypeOK
<1>13. CASE EndLoop
  <2>1. expected' \in Int /\ dumpFrom' \in Nat /\ pc' = "dump"
    BY <1>13, StartDumpType DEF EndLoop, TypeOK
  <2>2. LoopOK'
    BY <1>13, <2>1 DEF EndLoop, TypeOK, LoopOK, PCs, device, counts
  <2>3. BufferOK' /\ StatsOK' /\ FlagsOK' /\ OutputOK' /\ NodesLong'
    BY <1>13, <2>1 DEF EndLoop, TypeOK, BufferOK, StatsOK, FlagsOK, OutputOK, NodesLong, flags, stats
  <2> QED
    BY <2>2, <2>3 DEF TypeOK
<1>14. CASE Return
  <2>1. LoopOK'
    BY <1>14 DEF Return, TypeOK, LoopOK, PCs, device, counts, history
  <2>2. BufferOK' /\ StatsOK' /\ FlagsOK' /\ OutputOK' /\ NodesLong'
    BY <1>14 DEF Return, TypeOK, BufferOK, StatsOK, FlagsOK, OutputOK, NodesLong, flags, stats, history
  <2> QED
    BY <2>1, <2>2 DEF TypeOK
<1>15. CASE UNCHANGED vars
  BY <1>15 DEF vars, TypeOK, LoopOK, BufferOK, StatsOK, FlagsOK, OutputOK, NodesLong,
     device, buffer, flags, stats, history, counts
<1> QED
  BY <1>1, <1>2, <1>3, <1>4, <1>5, <1>6, <1>7, <1>8, <1>9, <1>10, <1>11, <1>12, <1>13, <1>14,
     <1>15 DEF Next, Receive, Dump, Environment

\* Every variable of the receiver keeps its type, for every setting and every behaviour
\* of the air, the device and the user.
THEOREM ReceiverTypeOK == Spec => []TypeOK
<1>1. Init => TypeInv
  BY InitTypeOK DEF TypeInv, Init, NodesLong
<1>2. TypeInv => TypeOK
  BY DEF TypeInv
<1> QED
  BY <1>1, <1>2, NextTypeInv, PTL DEF Spec
-------------------------------------------------------------------------------
(* The packet buffer and the packet heap.                                  *)

\* A frame is held only while process_frame dumps the buffer to make room for it.
HeldInv == pending # NoFrame => pc = "dump"

LEMMA HeldInvStep == HeldInv /\ [Next]_vars => HeldInv'
<1> SUFFICES ASSUME HeldInv, [Next]_vars PROVE HeldInv'
  OBVIOUS
<1>1. ASSUME NEW f \in Frames, Arrive(f) PROVE HeldInv'
  BY <1>1 DEF Arrive, HeldInv, buffer
<1>2. CASE DeviceFails \/ Stop \/ Activate
  BY <1>2 DEF DeviceFails, Stop, Activate, HeldInv, buffer
<1>3. CASE \/ SetActivated \/ ContinueLoop \/ EnterPoll \/ PollTimeout \/ PollFails
           \/ PollReady \/ DispatchReturns \/ DispatchBreaks
  BY <1>3 DEF SetActivated, ContinueLoop, EnterPoll, PollTimeout, PollFails, PollReady,
     DispatchReturns, DispatchBreaks, HeldInv, buffer
<1>4. CASE ProcessPreamble \/ ProcessEot \/ ProcessData \/ ProcessDataFull
  BY <1>4 DEF ProcessPreamble, ProcessEot, ProcessData, ProcessDataFull, StartDump, HeldInv, buffer
<1>5. CASE DumpPop \/ DumpThenBuffer \/ Return \/ EndLoop
  BY <1>5 DEF DumpPop, DumpThenBuffer, Return, EndLoop, StartDump, HeldInv
<1>6. CASE UNCHANGED vars
  BY <1>6 DEF vars, HeldInv, buffer
<1> QED
  BY <1>1, <1>2, <1>3, <1>4, <1>5, <1>6 DEF Next, Receive, Dump, Environment

\* Every step does one of six things to the buffered frames: nothing, start a capture
\* over, end it with an empty heap, hold a frame, push one, or pop one.
Keeps    == UNCHANGED <<heap, index, captured, pending, out, failed>>
Restarts == /\ heap' = {} /\ index' = 0 /\ captured' = << >> /\ out' = << >> /\ failed' = {}
            /\ pending = NoFrame /\ pending' = NoFrame
Ends     == heap = {} /\ index' = 0 /\ UNCHANGED <<heap, captured, pending, out, failed>>
Holds    == /\ UNCHANGED <<heap, index, out, failed>>
            /\ pending = NoFrame /\ pending' \in Frames
            /\ captured' = Append(captured, pending')
Pushes   == /\ UNCHANGED <<out, failed>> /\ pending' = NoFrame
            /\ \E f \in Frames, at \in {0, index}, id \in {Len(captured), Len(captured) + 1} :
                 /\ BufferFrame(f, at, id)
                 /\ at + f.len <= PbSize \/ at = 0
                 /\ at = index \/ heap = {}
                 /\ \/ pending = NoFrame /\ captured' = Append(captured, f) /\ id = Len(captured) + 1
                    \/ pending # NoFrame /\ captured' = captured /\ id = Len(captured)
Pops     == /\ UNCHANGED <<index, captured, pending>>
            /\ \E n \in Tops : \E noise \in NoiseWrites(NoiseBlocks(n)),
                                  nbytes \in WriteResults(n.len - HdrSize) :
                  WriteNode(n, noise, nbytes)

LEMMA BufferSteps ==
    ASSUME TypeInv, HeldInv, [Next]_vars
    PROVE  Keeps \/ Restarts \/ Ends \/ Holds \/ Pushes \/ Pops
<1> USE DEF TypeInv, TypeOK
<1>1. ASSUME NEW f \in Frames, Arrive(f) PROVE Keeps
  BY <1>1 DEF Arrive, Keeps, buffer, history
<1>2. CASE DeviceFails \/ Stop
  BY <1>2 DEF DeviceFails, Stop, Keeps, buffer, history
<1>3. CASE Activate
  BY <1>3 DEF Activate, Restarts, HeldInv
<1>4. CASE \/ SetActivated \/ ContinueLoop \/ EnterPoll \/ PollTimeout \/ PollFails
           \/ PollReady \/ DispatchReturns \/ DispatchBreaks
  BY <1>4 DEF SetActivated, ContinueLoop, EnterPoll, PollTimeout, PollFails, PollReady,
     DispatchReturns, DispatchBreaks, Keeps, buffer, history
<1>5. CASE ProcessPreamble \/ ProcessEot
  BY <1>5 DEF ProcessPreamble, ProcessEot, HandFrame, Keeps, buffer
<1>6. CASE ProcessData
  <2>1. Head(ring) \in Frames /\ Head(ring).len \in Nat /\ index \in Nat /\ PbSize \in Nat
    BY <1>6, HandFrameType, FrameSizes, SizeAssumption DEF ProcessData, BufferOK
  <2>2. /\ BufferFrame(Head(ring), index, Len(captured) + 1) /\ index + Head(ring).len < PbSize
        /\ captured' = Append(captured, Head(ring))
    BY <1>6 DEF ProcessData, Fits
  <2>3. UNCHANGED <<out, failed>> /\ pending = NoFrame /\ pending' = NoFrame
    BY <1>6 DEF ProcessData, HandFrame, HeldInv
  <2> QED
    BY <2>1, <2>2, <2>3 DEF Pushes
<1>7. CASE ProcessDataFull
  <2>1. Head(ring) \in Frames /\ pending = NoFrame
    BY <1>7, HandFrameType DEF ProcessDataFull, HandFrame, HeldInv
  <2> QED
    BY <1>7, <2>1 DEF ProcessDataFull, HandFrame, Holds
<1>8. CASE DumpPop
  BY <1>8 DEF DumpPop, Pops
<1>9. CASE DumpThenBuffer
  <2>1. /\ pending \in Frames /\ pending # NoFrame /\ pending' = NoFrame
        /\ heap = {} /\ BufferFrame(pending, 0, Len(captured))
        /\ UNCHANGED <<out, failed, captured>>
    BY <1>9 DEF DumpThenBuffer, BufferOK, history
  <2> QED
    BY <2>1 DEF Pushes
<1>10. CASE EndLoop
  BY <1>10 DEF EndLoop, Keeps
<1>11. CASE Return
  BY <1>11 DEF Return, Ends, history
<1>12. CASE UNCHANGED vars
  BY <1>12 DEF vars, buffer, history, Keeps
<1> QED
  BY <1>1, <1>2, <1>3, <1>4, <1>5, <1>6, <1>7, <1>8, <1>9, <1>10, <1>11, <1>12
  DEF Next, Receive, Dump, Environment

\* The node of a pushed frame.
NodeOf(f, at, id) == [number |-> NodeNumber(f), id |-> id, off |-> at, len |-> f.len]

LEMMA NodesApartStep ==
    ASSUME TypeInv, HeldInv, NodesApart, [Next]_vars
    PROVE  NodesApart'
<1> USE SizeAssumption
<1>0. \A n \in heap : n.off \in Nat /\ n.len \in Nat
  BY DEF TypeInv, TypeOK, BufferOK, NodeType
<1>1. CASE Keeps \/ Holds
  BY <1>1 DEF Keeps, Holds, NodesApart, Overlap
<1>2. CASE Restarts \/ Ends
  BY <1>2 DEF Restarts, Ends, NodesApart
<1>3. CASE Pushes
  <2>1. PICK f \in Frames, at \in {0, index}, id \in {Len(captured), Len(captured) + 1} :
           BufferFrame(f, at, id) /\ (at = index \/ heap = {})
    BY <1>3 DEF Pushes
  <2>2. f.len \in Nat /\ at \in Nat /\ index \in Nat
    BY <2>1, FrameSizes DEF TypeInv, TypeOK, BufferOK
  <2>3. heap' \subseteq heap \cup {NodeOf(f, at, id)} /\ index' = at + f.len
    BY <2>1 DEF BufferFrame, NodeOf
  <2>4. \A n \in heap : n.off + n.len <= at
    BY <2>1 DEF NodesApart
  <2>5. NodeOf(f, at, id).off = at /\ NodeOf(f, at, id).len = f.len
    BY DEF NodeOf
  <2>6. \A n \in heap : ~Overlap(n, NodeOf(f, at, id)) /\ ~Overlap(NodeOf(f, at, id), n)
    BY <1>0, <2>2, <2>4, <2>5 DEF Overlap
  <2>7. \A n \in heap' : n.off + n.len <= index'
    BY <1>0, <2>2, <2>3, <2>4, <2>5
  <2>8. \A m, n \in heap' : m # n => ~Overlap(m, n)
    BY <2>3, <2>6 DEF NodesApart
  <2> QED
    BY <2>7, <2>8 DEF NodesApart, Overlap
<1>4. CASE Pops
  <2>1. heap' \subseteq heap /\ index' = index
    BY <1>4 DEF Pops, WriteNode
  <2> QED
    BY <2>1 DEF NodesApart, Overlap
<1> QED
  BY <1>1, <1>2, <1>3, <1>4, BufferSteps

\* The packet buffer is reused safely, whatever the sizes of the frames: what waits in
\* the heap lies below the write position and no later frame is copied over it.
THEOREM NodesStayApart == Spec => []NodesApart
<1>1. Init => NodesApart
  BY DEF Init, NodesApart
<1>2. Init => TypeInv /\ HeldInv
  BY InitTypeOK DEF TypeInv, Init, NodesLong, HeldInv
<1> QED
  BY <1>1, <1>2, NextTypeInv, HeldInvStep, NodesApartStep, PTL DEF Spec

\* The write position stays in the buffer while each frame alone fits it: the test
\* before the copy sends a frame either to a place it fits or to the beginning.
LEMMA BufferIntactStep ==
    ASSUME FramesFit, TypeInv, HeldInv, BufferIntact, [Next]_vars
    PROVE  BufferIntact'
<1> USE SizeAssumption
<1>1. NodesApart'
  BY NodesApartStep DEF BufferIntact
<1>2. index' <= PbSize
  <2>1. CASE Keeps \/ Holds \/ Pops
    BY <2>1 DEF Keeps, Holds, Pops, BufferIntact
  <2>2. CASE Restarts \/ Ends
    BY <2>2 DEF Restarts, Ends
  <2>3. CASE Pushes
    <3>1. PICK f \in Frames, at \in {0, index}, id \in {Len(captured), Len(captured) + 1} :
             BufferFrame(f, at, id) /\ (at + f.len <= PbSize \/ at = 0)
      BY <2>3 DEF Pushes
    <3>2. index' = at + f.len /\ f.len \in Nat /\ f.len <= PbSize
      BY <3>1, FrameSizes DEF BufferFrame, FramesFit
    <3> QED
      BY <3>1, <3>2
  <2> QED
    BY <2>1, <2>2, <2>3, BufferSteps
<1> QED
  BY <1>1, <1>2 DEF BufferIntact

\* What waits in the heap lies inside the packet buffer and has not been overwritten,
\* provided that no captured frame is longer than the whole buffer.
THEOREM BufferIsIntact == ASSUME FramesFit PROVE Spec => []BufferIntact
<1>1. Init => BufferIntact
  BY SizeAssumption DEF Init, BufferIntact, NodesApart
<1>2. Init => TypeInv /\ HeldInv
  BY InitTypeOK DEF TypeInv, Init, NodesLong, HeldInv
<1> QED
  BY <1>1, <1>2, NextTypeInv, HeldInvStep, BufferIntactStep, PTL DEF Spec

\* The nodes of the heap fill the buffer up to the write position, each taking at
\* least BlockMin bytes: the strengthening that makes HeapFits inductive.
HeapInv == Cardinality(heap) * BlockMin <= index

LEMMA HeapInvFits ==
    ASSUME TypeInv, BufferIntact, HeapInv
    PROVE  HeapFits
<1>1. Cardinality(heap) \in Nat /\ index \in Nat /\ index <= BufMax
  BY FS_CardinalityType, SizeAssumption DEF TypeInv, TypeOK, BufferOK, BufferIntact
<1> QED
  BY <1>1, CapacityCovers DEF HeapInv, HeapFits

LEMMA HeapInvStep ==
    ASSUME NoShortFrames, TypeInv, HeldInv, BufferIntact, HeapInv, [Next]_vars
    PROVE  HeapInv'
<1> USE SizeAssumption
<1>0. IsFiniteSet(heap) /\ Cardinality(heap) \in Nat /\ index \in Nat
  BY FS_CardinalityType DEF TypeInv, TypeOK, BufferOK
<1>1. CASE Keeps \/ Holds
  BY <1>1 DEF Keeps, Holds, HeapInv
<1>2. CASE Restarts \/ Ends
  BY <1>2, FS_EmptySet DEF Restarts, Ends, HeapInv
<1>3. CASE Pushes
  <2>1. PICK f \in Frames, at \in {0, index}, id \in {Len(captured), Len(captured) + 1} :
           BufferFrame(f, at, id) /\ (at = index \/ heap = {})
    BY <1>3 DEF Pushes
  <2>2. f.len \in Nat /\ BlockMin <= f.len /\ at \in Nat
    BY <1>0, <2>1, FrameSizes DEF NoShortFrames
  <2>3. (heap' = heap \/ heap' = heap \cup {NodeOf(f, at, id)}) /\ index' = at + f.len
    BY <2>1 DEF BufferFrame, NodeOf
  <2>4. Cardinality(heap \cup {NodeOf(f, at, id)}) \in {Cardinality(heap), Cardinality(heap) + 1}
    BY <1>0, FS_AddElement
  <2>5. Cardinality(heap') \in {Cardinality(heap), Cardinality(heap) + 1}
    BY <2>3, <2>4
  <2>6. Cardinality(heap) * BlockMin <= at
    <3>1. CASE at = index
      BY <3>1 DEF HeapInv
    <3>2. CASE heap = {}
      <4>1. Cardinality(heap) = 0
        BY <3>2, FS_EmptySet
      <4> QED
        BY <4>1, <2>2
    <3> QED
      BY <2>1, <3>1, <3>2
  <2>7. Cardinality(heap') * BlockMin <= Cardinality(heap) * BlockMin + BlockMin
    BY <1>0, <2>5
  <2> QED
    BY <1>0, <2>2, <2>3, <2>5, <2>6, <2>7 DEF HeapInv
<1>4. CASE Pops
  <2>1. heap' \subseteq heap /\ index' = index
    BY <1>4 DEF Pops, WriteNode
  <2>2. Cardinality(heap') \in Nat /\ Cardinality(heap') <= Cardinality(heap)
    BY <1>0, <2>1, FS_Subset, FS_CardinalityType
  <2>3. Cardinality(heap') * BlockMin <= Cardinality(heap) * BlockMin
    BY <1>0, <2>2
  <2> QED
    BY <1>0, <2>1, <2>2, <2>3 DEF HeapInv
<1> QED
  BY <1>1, <1>2, <1>3, <1>4, BufferSteps

\* The packet heap is never full, so heap_push never drops a frame, provided that no
\* captured frame is shorter than the smallest block or longer than the buffer.
THEOREM HeapNeverFull == ASSUME NoShortFrames, FramesFit PROVE Spec => []HeapFits
<1>1. Init => TypeInv /\ HeldInv /\ BufferIntact /\ HeapInv
  BY InitTypeOK, FS_EmptySet, SizeAssumption
  DEF TypeInv, Init, NodesLong, HeldInv, BufferIntact, NodesApart, HeapInv
<1>2. TypeInv /\ HeldInv /\ BufferIntact /\ HeapInv /\ [Next]_vars
      => (TypeInv /\ HeldInv /\ BufferIntact /\ HeapInv)'
  BY NextTypeInv, HeldInvStep, BufferIntactStep, HeapInvStep
<1>3. TypeInv /\ BufferIntact /\ HeapInv => HeapFits
  BY HeapInvFits
<1> QED
  BY <1>1, <1>2, <1>3, PTL DEF Spec
-------------------------------------------------------------------------------
(* No frame is lost or written twice.                                      *)

\* A frame that finds no room is held, under an id that is nowhere yet.
LEMMA HoldKeepsFrames ==
    ASSUME TypeInv, EveryFrameKept, Holds
    PROVE  EveryFrameKept'
<1> DEFINE id == Len(captured) + 1
<1>1. captured \in Seq(Frames) /\ Len(captured) \in Nat /\ DOMAIN captured = 1..Len(captured)
  BY DEF TypeInv, TypeOK, BufferOK
<1>2. Len(captured') = id /\ DOMAIN captured' = 1..id
  BY <1>1 DEF Holds
<1>3. NoFrame \notin Frames
  BY FrameAssumption, SizeAssumption DEF NoFrame
<1>4. Held = {} /\ Held' = {id}
  BY <1>2, <1>3 DEF Holds, Held
<1>5. UNCHANGED <<Waiting, InOutput, failed, heap, out>>
  BY DEF Holds, Waiting, InOutput
<1>6. id \notin DOMAIN captured /\ DOMAIN captured' = DOMAIN captured \cup {id}
  BY <1>1, <1>2
<1> QED
  BY <1>4, <1>5, <1>6 DEF EveryFrameKept

\* A frame finds room in the heap, under an id that is nowhere else.
LEMMA PushKeepsFrames ==
    ASSUME TypeInv, HeapFits, EveryFrameKept, Pushes
    PROVE  EveryFrameKept'
<1>1. PICK f \in Frames, at \in {0, index}, id \in {Len(captured), Len(captured) + 1} :
         /\ BufferFrame(f, at, id)
         /\ \/ pending = NoFrame /\ captured' = Append(captured, f) /\ id = Len(captured) + 1
            \/ pending # NoFrame /\ captured' = captured /\ id = Len(captured)
  BY DEF Pushes
<1>2. captured \in Seq(Frames) /\ Len(captured) \in Nat /\ DOMAIN captured = 1..Len(captured)
  BY DEF TypeInv, TypeOK, BufferOK
<1>3. /\ DOMAIN captured' = Waiting \cup InOutput \cup failed \cup {id}
      /\ id \notin Waiting \cup InOutput \cup failed
  <2>1. CASE pending = NoFrame
    <3>1. captured' = Append(captured, f) /\ id = Len(captured) + 1
      BY <1>1, <2>1
    <3>2. DOMAIN captured' = DOMAIN captured \cup {id} /\ id \notin DOMAIN captured
      BY <1>2, <3>1
    <3> QED
      BY <2>1, <3>2 DEF EveryFrameKept, Held
  <2>2. CASE pending # NoFrame
    BY <1>1, <2>2 DEF EveryFrameKept, Held
  <2> QED
    BY <2>1, <2>2
<1>4. heap' = heap \cup {NodeOf(f, at, id)} /\ NodeOf(f, at, id).id = id
  BY <1>1 DEF BufferFrame, HeapFits, NodeOf
<1>5. Waiting' = Waiting \cup {id}
  BY <1>4 DEF Waiting
<1>6. UNCHANGED <<InOutput, failed, out>> /\ Held' = {}
  BY DEF Pushes, InOutput, Held
<1>7. \A m, n \in heap' : m.id = n.id => m = n
  BY <1>3, <1>4 DEF EveryFrameKept, Waiting
<1> QED
  BY <1>3, <1>5, <1>6, <1>7 DEF EveryFrameKept

\* The places of a sequence that was extended by a second one.
LEMMA ConcatPlaces ==
    ASSUME NEW S, NEW s \in Seq(S), NEW t \in Seq(S)
    PROVE  /\ s \o t \in Seq(S) /\ Len(s \o t) = Len(s) + Len(t)
           /\ DOMAIN (s \o t) = 1..(Len(s) + Len(t))
           /\ \A i \in DOMAIN s : (s \o t)[i] = s[i]
           /\ \A i \in DOMAIN (s \o t) \ DOMAIN s :
                i - Len(s) \in DOMAIN t /\ (s \o t)[i] = t[i - Len(s)]
<1>1. /\ s \o t \in Seq(S) /\ Len(s \o t) = Len(s) + Len(t)
      /\ \A i \in 1 .. Len(s) + Len(t) : (s \o t)[i] = IF i <= Len(s) THEN s[i] ELSE t[i - Len(s)]
  BY ConcatProperties
<1>2. Len(s) \in Nat /\ Len(t) \in Nat /\ DOMAIN s = 1..Len(s) /\ DOMAIN t = 1..Len(t)
  OBVIOUS
<1>3. DOMAIN (s \o t) = 1..(Len(s) + Len(t))
  BY <1>1
<1>4. \A i \in DOMAIN s : i \in 1 .. Len(s) + Len(t) /\ i <= Len(s)
  BY <1>2
<1>5. \A i \in DOMAIN (s \o t) \ DOMAIN s :
        i \in 1 .. Len(s) + Len(t) /\ ~(i <= Len(s)) /\ i - Len(s) \in DOMAIN t
  BY <1>2, <1>3
<1> QED
  BY <1>1, <1>3, <1>4, <1>5

\* What a turn of the dump loop appends: noise, which has id 0, then the node's payload
\* if its write did not fail.
LEMMA PopOutput ==
    ASSUME TypeInv, NEW n \in Tops, NEW noise \in NoiseWrites(NoiseBlocks(n)),
           NEW nbytes \in WriteResults(n.len - HdrSize), WriteNode(n, noise, nbytes)
    PROVE  /\ DOMAIN out \subseteq DOMAIN out'
           /\ \A i \in DOMAIN out : out'[i] = out[i]
           /\ nbytes > 0 => \E last \in DOMAIN out' \ DOMAIN out :
                               /\ last = Len(out) + noise + 1 /\ last = Len(out')
                               /\ out'[last].id = n.id
                               /\ \A i \in DOMAIN out' \ DOMAIN out : i # last => out'[i].id = 0
           /\ ~(nbytes > 0) => \A i \in DOMAIN out' \ DOMAIN out : out'[i].id = 0
<1> DEFINE size == n.len - HdrSize
           Entry == [id : Nat, bytes : Nat]
           filler == [i \in 1..noise |-> [id |-> 0, bytes |-> size]]
           k == Len(out)
<1>1. n \in heap /\ n \in NodeType /\ size \in Nat
  BY SizeAssumption DEF Tops, TypeInv, TypeOK, NodesLong, BufferOK, NodeType
<1>2. NoiseBlocks(n) \in Nat /\ n.id \in Nat
  BY <1>1, MissingType DEF TypeInv, TypeOK, NodeType
<1>3. noise \in Nat /\ nbytes \in Int
  BY <1>1, <1>2 DEF NoiseWrites, WriteResults
<1>4. out \in Seq(Entry) /\ k \in Nat /\ DOMAIN out = 1..k
  BY DEF TypeInv, TypeOK, OutputOK
<1>5. filler \in Seq(Entry) /\ Len(filler) = noise /\ \A i \in 1..noise : filler[i].id = 0
  BY <1>1, <1>3
<1>6. out' = (out \o filler) \o Written(n.id, nbytes)
  BY DEF WriteNode
<1> HIDE DEF filler
<1>7. /\ (out \o filler) \in Seq(Entry)
      /\ DOMAIN out \subseteq DOMAIN (out \o filler)
      /\ Len(out \o filler) = Len(out) + noise
      /\ \A i \in DOMAIN out : (out \o filler)[i] = out[i]
      /\ \A i \in DOMAIN (out \o filler) \ DOMAIN out : (out \o filler)[i].id = 0
  <2>1. DOMAIN filler = 1..noise /\ Len(filler) = noise
    BY <1>5
  <2>2. DOMAIN out \subseteq DOMAIN (out \o filler)
    BY <1>3, <1>4, <1>5, ConcatPlaces
  <2>3. (out \o filler) \in Seq(Entry) /\ Len(out \o filler) = Len(out) + noise
    BY <1>4, <1>5, <2>1, ConcatPlaces
  <2>4. \A i \in DOMAIN out : (out \o filler)[i] = out[i]
    BY <1>4, <1>5, ConcatPlaces
  <2>5. \A i \in DOMAIN (out \o filler) \ DOMAIN out : (out \o filler)[i].id = 0
    BY <1>4, <1>5, <2>1, ConcatPlaces
  <2> QED
    BY <2>2, <2>3, <2>4, <2>5
<1>8. PICK s : s = out \o filler
  OBVIOUS
<1>9. CASE nbytes > 0
  <2>1. PICK w : w = [id |-> n.id, bytes |-> nbytes]
    OBVIOUS
  <2>2. w \in Entry /\ w.id = n.id /\ out' = s \o <<w>>
    BY <1>2, <1>3, <1>6, <1>8, <1>9, <2>1 DEF Written
  <2>3. s \in Seq(Entry) /\ <<w>> \in Seq(Entry) /\ Len(<<w>>) = 1 /\ <<w>>[1] = w
    BY <1>7, <1>8, <2>2
  <2>4. /\ DOMAIN out' = 1..(Len(s) + 1) /\ Len(out') = Len(s) + 1
        /\ \A i \in DOMAIN s : out'[i] = s[i]
    BY <2>2, <2>3, ConcatPlaces
  <2>5. Len(s) \in Nat /\ DOMAIN s = 1..Len(s)
    BY <2>3
  <2>6. DOMAIN out' = DOMAIN s \cup {Len(s) + 1} /\ Len(s) + 1 \notin DOMAIN s
    BY <2>4, <2>5
  <2>7. out'[Len(s) + 1] = w
    <3>1. Len(s) + 1 \in DOMAIN (s \o <<w>>) \ DOMAIN s /\ (Len(s) + 1) - Len(s) = 1
      BY <2>2, <2>5, <2>6
    <3> QED
      BY <2>2, <2>3, <3>1, ConcatPlaces
  <2> DEFINE last == Len(s) + 1
  <2>8. DOMAIN out \subseteq DOMAIN s /\ \A i \in DOMAIN out : s[i] = out[i]
    BY <1>7, <1>8
  <2>9. /\ last \in DOMAIN out' \ DOMAIN out /\ out'[last].id = n.id
        /\ last = Len(out) + noise + 1 /\ last = Len(out')
    BY <1>7, <1>8, <2>2, <2>4, <2>6, <2>7, <2>8
  <2>10. \A i \in DOMAIN out' \ DOMAIN out : i # last => out'[i].id = 0
    BY <1>7, <1>8, <2>4, <2>6
  <2>11. DOMAIN out \subseteq DOMAIN out' /\ \A i \in DOMAIN out : out'[i] = out[i]
    BY <2>4, <2>6, <2>8
  <2> HIDE DEF last
  <2> QED
    BY <1>9, <2>9, <2>10, <2>11
<1>10. CASE ~(nbytes > 0)
  <2>1. out' = s
    BY <1>6, <1>7, <1>8, <1>10 DEF Written
  <2> QED
    BY <1>7, <1>8, <1>10, <2>1
<1> QED
  BY <1>9, <1>10

\* A node leaves the heap for the output or for the failed writes, never for both.
LEMMA PopKeepsFrames ==
    ASSUME TypeInv, EveryFrameKept, Pops
    PROVE  EveryFrameKept'
<1>1. PICK n \in Tops : \E noise \in NoiseWrites(NoiseBlocks(n)),
                           nbytes \in WriteResults(n.len - HdrSize) : WriteNode(n, noise, nbytes)
  BY DEF Pops
<1>2. PICK noise \in NoiseWrites(NoiseBlocks(n)), nbytes \in WriteResults(n.len - HdrSize) :
           WriteNode(n, noise, nbytes)
  BY <1>1
<1>3. n \in heap /\ heap' = heap \ {n} /\ captured' = captured
  BY <1>2 DEF Tops, WriteNode, Pops
<1>0. Held' = Held
  BY DEF Pops, Held
<1>4. Waiting' = Waiting \ {n.id}
  BY <1>3 DEF Waiting, EveryFrameKept
<1>5. n.id \in Waiting /\ n.id \notin InOutput /\ n.id \notin failed
  BY <1>3 DEF Waiting, EveryFrameKept
<1>6. n.id # 0
  <2>1. n.id \in DOMAIN captured
    BY <1>5 DEF EveryFrameKept
  <2> QED
    BY <2>1 DEF TypeInv, TypeOK, BufferOK
<1>7. \A i \in DOMAIN out : out[i].id # n.id
  BY <1>5, <1>6 DEF InOutput
<1>8. \A m1, m2 \in heap' : m1.id = m2.id => m1 = m2
  BY <1>3 DEF EveryFrameKept
<1>9. CASE nbytes > 0
  <2>1. failed' = failed
    BY <1>2, <1>9 DEF WriteNode
  <2>2. PICK last \in DOMAIN out' \ DOMAIN out :
           /\ out'[last].id = n.id
           /\ \A i \in DOMAIN out' \ DOMAIN out : i # last => out'[i].id = 0
    BY <1>2, <1>9, PopOutput
  <2>3. DOMAIN out \subseteq DOMAIN out' /\ \A i \in DOMAIN out : out'[i] = out[i]
    BY <1>2, PopOutput
  <2>4. InOutput' = InOutput \cup {n.id}
    BY <1>6, <2>2, <2>3 DEF InOutput
  <2>5. \A i, j \in DOMAIN out' : out'[i].id = out'[j].id /\ out'[i].id # 0 => i = j
    BY <1>7, <2>2, <2>3 DEF EveryFrameKept
  <2>6. Waiting' \cup InOutput' \cup failed' = Waiting \cup InOutput \cup failed
    BY <1>4, <1>5, <2>1, <2>4
  <2>7. Waiting' \cap InOutput' = {} /\ Waiting' \cap failed' = {} /\ InOutput' \cap failed' = {}
    BY <1>4, <1>5, <2>1, <2>4 DEF EveryFrameKept
  <2> QED
    BY <1>0, <1>3, <1>8, <2>5, <2>6, <2>7 DEF EveryFrameKept
<1>10. CASE ~(nbytes > 0)
  <2>1. failed' = failed \cup {n.id}
    BY <1>2, <1>10 DEF WriteNode
  <2>2. /\ DOMAIN out \subseteq DOMAIN out' /\ \A i \in DOMAIN out : out'[i] = out[i]
        /\ \A i \in DOMAIN out' \ DOMAIN out : out'[i].id = 0
    BY <1>2, <1>10, PopOutput
  <2>3. InOutput' = InOutput
    BY <2>2 DEF InOutput
  <2>4. \A i, j \in DOMAIN out' : out'[i].id = out'[j].id /\ out'[i].id # 0 => i = j
    BY <2>2 DEF EveryFrameKept
  <2>6. Waiting' \cup InOutput' \cup failed' = Waiting \cup InOutput \cup failed
    BY <1>4, <1>5, <2>1, <2>3
  <2>7. Waiting' \cap InOutput' = {} /\ Waiting' \cap failed' = {} /\ InOutput' \cap failed' = {}
    BY <1>4, <1>5, <2>1, <2>3 DEF EveryFrameKept
  <2> QED
    BY <1>0, <1>3, <1>8, <2>4, <2>6, <2>7 DEF EveryFrameKept
<1> QED
  BY <1>9, <1>10

LEMMA EveryFrameKeptStep ==
    ASSUME TypeInv, HeldInv, HeapFits, EveryFrameKept, [Next]_vars
    PROVE  EveryFrameKept'
<1>1. CASE Keeps \/ Ends
  <2>1. UNCHANGED <<heap, captured, pending, out, failed>>
    BY <1>1 DEF Keeps, Ends
  <2>2. UNCHANGED <<Waiting, InOutput, Held>>
    BY <2>1 DEF Waiting, InOutput, Held
  <2> QED
    BY <2>1, <2>2 DEF EveryFrameKept
<1>2. CASE Restarts
  <2>1. Waiting' = {} /\ InOutput' = {} /\ failed' = {} /\ Held' = {}
    BY <1>2 DEF Restarts, Waiting, InOutput, Held
  <2>2. DOMAIN captured' = {} /\ DOMAIN out' = {} /\ heap' = {}
    BY <1>2 DEF Restarts
  <2> QED
    BY <2>1, <2>2 DEF EveryFrameKept
<1> QED
  BY <1>1, <1>2, BufferSteps, HoldKeepsFrames, PushKeepsFrames, PopKeepsFrames

\* Every data frame captured is written exactly once, or waits in the buffer, or its
\* own write failed, provided that no captured frame is shorter than the smallest block
\* or longer than the buffer.
THEOREM FramesAreKept == ASSUME NoShortFrames, FramesFit PROVE Spec => []EveryFrameKept
<1>1. Init => TypeInv /\ HeldInv
  BY InitTypeOK DEF TypeInv, Init, NodesLong, HeldInv
<1>2. Init => EveryFrameKept
  <2> SUFFICES ASSUME Init PROVE EveryFrameKept
    OBVIOUS
  <2>1. Waiting = {} /\ InOutput = {} /\ failed = {} /\ DOMAIN captured = {} /\ DOMAIN out = {}
        /\ heap = {} /\ Held = {}
    BY DEF Init, Waiting, InOutput, Held
  <2> QED
    BY <2>1 DEF EveryFrameKept
<1>3. TypeInv /\ HeldInv /\ HeapFits /\ EveryFrameKept /\ [Next]_vars => EveryFrameKept'
  BY EveryFrameKeptStep
<1> QED
  BY <1>1, <1>2, <1>3, NextTypeInv, HeldInvStep, HeapNeverFull, PTL DEF Spec
-------------------------------------------------------------------------------
(* What a stop guarantees.                                                 *)

\* A stop of an active capture takes the flag down for good and raises pcap's break
\* flag.  Until a frame slips through, the break flag is up wherever one still could;
\* after that frame it is up, behind a frame of the same dispatch, or dispatching is
\* over.
InDispatch == pc = "dispatch" \/ pending # NoFrame
StopInv ==
    stopped = "live" =>
        /\ ~activated
        /\ pc # "start"
        /\ \/ late = 0 /\ (InDispatch \/ pc \in {"enter", "poll", "eintr"} => breakLoop)
           \/ late = 1 /\ pc \in {"dispatch", "dump", "test", "idle"}
                       /\ (InDispatch => breakLoop /\ handled > 0)

LEMMA StopInvStep ==
    ASSUME TypeInv, HeldInv, StopInv, [Next]_vars
    PROVE  StopInv'
<1> USE DEF StopInv, InDispatch
<1>1. ASSUME NEW f \in Frames, Arrive(f) PROVE StopInv'
  BY <1>1 DEF Arrive, buffer, history
<1>2. CASE DeviceFails
  BY <1>2 DEF DeviceFails, buffer, history
<1>3. CASE Stop
  <2>1. activated' = FALSE /\ breakLoop' = TRUE /\ UNCHANGED <<pending, handled>>
    BY <1>3 DEF Stop, buffer
  <2>2. CASE stopped = "live"
    BY <1>3, <2>1, <2>2 DEF Stop
  <2>3. CASE stopped # "live"
    BY <1>3, <2>1, <2>3 DEF Stop
  <2> QED
    BY <2>2, <2>3
<1>4. CASE Activate
  BY <1>4 DEF Activate
<1>5. CASE SetActivated
  BY <1>5 DEF SetActivated, history
<1>6. CASE ContinueLoop
  BY <1>6 DEF ContinueLoop, Active, history
<1>7. CASE EnterPoll
  BY <1>7 DEF EnterPoll, history, device, buffer
<1>8. CASE PollTimeout \/ PollFails
  BY <1>8 DEF PollTimeout, PollFails, history, device, buffer, HeldInv
<1>9. CASE PollReady
  BY <1>9 DEF PollReady, history, device, buffer, HeldInv
<1>10. CASE DispatchReturns \/ DispatchBreaks
  BY <1>10 DEF DispatchReturns, DispatchBreaks, history, device, buffer, HeldInv
<1>11. CASE ProcessPreamble \/ ProcessEot \/ ProcessData \/ ProcessDataFull
  <2>1. HandFrame /\ pc' \in {"dispatch", "dump"}
    BY <1>11 DEF ProcessPreamble, ProcessEot, ProcessData, ProcessDataFull, HandFrame, StartDump
  <2>2. late \in Nat /\ handled \in Nat
    BY SettingAssumption DEF TypeInv, TypeOK, LoopOK
  <2>3. /\ pc = "dispatch" /\ (breakLoop => handled = 0) /\ handled' = handled + 1
        /\ late' = (IF stopped = "no" THEN 0 ELSE late + 1)
        /\ UNCHANGED <<activated, breakLoop, stopped>>
    BY <2>1 DEF HandFrame
  <2> QED
    BY <2>1, <2>2, <2>3
<1>12. CASE DumpPop
  BY <1>12 DEF DumpPop, device
<1>13. CASE DumpThenBuffer
  BY <1>13 DEF DumpThenBuffer, device, history
<1>14. CASE EndLoop
  BY <1>14 DEF EndLoop, StartDump, device, HeldInv
<1>15. CASE Return
  BY <1>15 DEF Return, device, history
<1>16. CASE UNCHANGED vars
  BY <1>16 DEF vars, device, buffer, history
<1> QED
  BY <1>1, <1>2, <1>3, <1>4, <1>5, <1>6, <1>7, <1>8, <1>9, <1>10, <1>11, <1>12, <1>13, <1>14,
     <1>15, <1>16 DEF Next, Receive, Dump, Environment

\* A stop of an active capture lets at most one more frame be processed, whatever
\* dispatch_count is and wherever in the loop the signal strikes.
THEOREM ReceiverStopIsPrompt == Spec => []StopIsPrompt
<1>1. Init => TypeInv /\ HeldInv /\ StopInv
  BY InitTypeOK DEF TypeInv, Init, NodesLong, HeldInv, StopInv
<1>2. StopInv => StopIsPrompt
  BY DEF StopInv, StopIsPrompt
<1> QED
  BY <1>1, <1>2, NextTypeInv, HeldInvStep, StopInvStep, PTL DEF Spec
-------------------------------------------------------------------------------
(* The boundary between two files.                                         *)

\* When dispatch_count is 1, the flag that ends the capture is tested before another
\* frame can be handed over, and no frame is held while it is up.
BoundaryInv ==
    endCapture => /\ pending = NoFrame
                  /\ \/ pc \in {"test", "dump", "idle"}
                     \/ pc = "dispatch" /\ handled > 0

LEMMA BoundaryInvStep ==
    ASSUME DispatchCount = 1, TypeInv, HeldInv, BoundaryInv, [Next]_vars
    PROVE  BoundaryInv'
<1> USE DEF BoundaryInv
<1>1. ASSUME NEW f \in Frames, Arrive(f) PROVE BoundaryInv'
  BY <1>1 DEF Arrive, buffer, flags
<1>2. CASE DeviceFails \/ Stop
  BY <1>2 DEF DeviceFails, Stop, buffer, flags
<1>3. CASE Activate
  BY <1>3 DEF Activate
<1>4. CASE SetActivated \/ ContinueLoop \/ EnterPoll \/ PollTimeout \/ PollFails \/ PollReady
  BY <1>4 DEF SetActivated, ContinueLoop, Active, EnterPoll, PollTimeout, PollFails, PollReady,
     buffer, flags
<1>5. CASE DispatchReturns \/ DispatchBreaks
  BY <1>5 DEF DispatchReturns, DispatchBreaks, buffer, flags
<1>6. CASE ProcessPreamble \/ ProcessEot
  <2>1. pc' = "dispatch" /\ handled' = handled + 1 /\ handled \in Nat /\ pending' = pending
    BY <1>6, SettingAssumption DEF ProcessPreamble, ProcessEot, HandFrame, buffer, TypeInv, TypeOK, LoopOK
  <2>2. pending = NoFrame
    BY <1>6 DEF ProcessPreamble, ProcessEot, HandFrame, HeldInv
  <2> QED
    BY <2>1, <2>2
<1>7. CASE ProcessData \/ ProcessDataFull
  <2>1. handled < 1 /\ pc = "dispatch" /\ UNCHANGED endCapture
    BY <1>7 DEF ProcessData, ProcessDataFull, HandFrame, flags
  <2>2. ~endCapture
    BY <2>1 DEF TypeInv, TypeOK, LoopOK
  <2> QED
    BY <2>1, <2>2
<1>8. CASE DumpPop \/ DumpThenBuffer \/ EndLoop \/ Return
  BY <1>8 DEF DumpPop, DumpThenBuffer, EndLoop, StartDump, Return, flags
<1>9. CASE UNCHANGED vars
  BY <1>9 DEF vars, buffer, flags
<1> QED
  BY <1>1, <1>2, <1>3, <1>4, <1>5, <1>6, <1>7, <1>8, <1>9 DEF Next, Receive, Dump, Environment

LEMMA BoundaryStep ==
    ASSUME DispatchCount = 1, TypeInv, BoundaryInv, Next, endCapture, pc # "idle"
    PROVE  captured' = captured
<1>1. ~ProcessData /\ ~ProcessDataFull
  <2>1. ~HandFrame
    BY DEF HandFrame, BoundaryInv, TypeInv, TypeOK, LoopOK
  <2> QED
    BY <2>1 DEF ProcessData, ProcessDataFull
<1>2. CASE Environment
  <2>1. ASSUME NEW f \in Frames, Arrive(f) PROVE captured' = captured
    BY <2>1 DEF Arrive, history
  <2> QED
    BY <1>2, <2>1 DEF Environment, DeviceFails, Stop, history
<1>3. CASE Receive
  BY <1>1, <1>3 DEF Receive, Dump, SetActivated, ContinueLoop, EnterPoll, PollTimeout, PollFails,
     PollReady, ProcessPreamble, ProcessEot, DispatchReturns, DispatchBreaks, EndLoop, DumpPop,
     DumpThenBuffer, Return, history
<1>4. ~Activate
  BY DEF Activate
<1> QED
  BY <1>2, <1>3, <1>4 DEF Next

\* With a dispatch_count of 1, no frame behind the preamble of the next file enters the
\* output of the current one.
THEOREM PreambleBoundary == ASSUME DispatchCount = 1 PROVE Spec => PreambleIsBoundary
<1>1. Init => TypeInv /\ HeldInv /\ BoundaryInv
  BY InitTypeOK DEF TypeInv, Init, NodesLong, HeldInv, BoundaryInv
<1>2. TypeInv /\ HeldInv /\ BoundaryInv /\ [Next]_vars => BoundaryInv'
  BY BoundaryInvStep
<1>3. TypeInv /\ BoundaryInv /\ [Next]_vars
      => [endCapture /\ pc # "idle" => captured' = captured]_vars
  BY BoundaryStep
<1> QED
  BY <1>1, <1>2, <1>3, NextTypeInv, HeldInvStep, PTL DEF Spec, PreambleIsBoundary

-------------------------------------------------------------------------------
(* The receiver implements Capture.                                        *)

\* Frames are counted when they are buffered, one later than they are taken while one
\* is held; the counter is a uint32_t.
Buffered == IF pending = NoFrame THEN Len(captured) ELSE Len(captured) - 1
CountInv == Buffered \in Nat /\ processed = Buffered % StatMod

\* What is captured has arrived, and what waits in the kernel has not been captured.
ArrivedInv == Len(captured) + Len(ring) <= arrivals

LEMMA ModUnique ==
    ASSUME NEW M \in Nat \ {0}, NEW q \in Nat, NEW r \in 0..(M - 1)
    PROVE  (q * M + r) % M = r
OBVIOUS

\* Counting one more frame counts it modulo the range of the counter.
LEMMA CountOne == ASSUME NEW n \in Nat PROVE AddStat(n % StatMod, 1) = (n + 1) % StatMod
<1> DEFINE M == StatMod
           q == n \div M
           r == n % M
<1>1. M \in Nat \ {0} /\ q \in Nat /\ r \in 0..(M - 1) /\ n = q * M + r
  BY SizeAssumption
<1>2. CASE r + 1 < M
  <2>1. (r + 1) % M = r + 1
    BY <1>1, <1>2
  <2>2. n + 1 = q * M + (r + 1)
    BY <1>1
  <2>3. (n + 1) % M = r + 1
    BY <1>1, <1>2, <2>2
  <2> QED
    BY <2>1, <2>3 DEF AddStat
<1>3. CASE r + 1 = M
  <2>1. n + 1 = (q + 1) * M + 0 /\ q + 1 \in Nat
    BY <1>1, <1>3
  <2>2. (n + 1) % M = 0
    <3>1. ((q + 1) * M + 0) % M = 0
      BY <1>1, <2>1, ModUnique
    <3> QED
      BY <2>1, <3>1
  <2>3. (r + 1) % M = 0
    BY <1>1, <1>3
  <2> QED
    BY <2>2, <2>3 DEF AddStat
<1> QED
  BY <1>1, <1>2, <1>3

\* The flag is down in the loop only after a stop that took effect or a timeout, which
\* finds no boundary; nothing but a stop is reported as DEACTIVATED.
FlagInv ==
    /\ pc \notin {"idle", "start"} /\ ~activated => stopped = "live" \/ captureState = "TIMED_OUT"
    /\ captureState = "DEACTIVATED" => stopped = "live"
    /\ captureState = "TIMED_OUT" => /\ ~endCapture /\ pending = NoFrame
                                     /\ pc \in {"test", "dump", "idle"}
                                     /\ pc = "test" => ~activated

LEMMA FrameIsSome == ASSUME NEW f \in Frames PROVE f # NoFrame
<1>1. PayloadSize(f) # PayloadSize(NoFrame)
  BY FrameSizes, SizeAssumption DEF PayloadSize, NoFrame
<1> QED
  BY <1>1

\* What CountInv is about, and what a step does to it.
Counts == <<processed, captured, pending>>

LEMMA CountSteps ==
    ASSUME TypeInv, HeldInv, [Next]_vars
    PROVE  \/ UNCHANGED Counts
           \/ processed' = 0 /\ captured' = << >> /\ pending' = NoFrame
           \/ /\ pending = NoFrame /\ \E f \in Frames : captured' = Append(captured, f)
              /\ \/ pending' = NoFrame /\ processed' = AddStat(processed, 1)
                 \/ pending' # NoFrame /\ processed' = processed
           \/ /\ pending # NoFrame /\ pending' = NoFrame /\ captured' = captured
              /\ processed' = AddStat(processed, 1)
<1> USE DEF Counts
<1>1. ASSUME NEW f \in Frames, Arrive(f) PROVE UNCHANGED Counts
  BY <1>1 DEF Arrive, buffer, stats, history
<1>2. CASE DeviceFails \/ Stop
  BY <1>2 DEF DeviceFails, Stop, buffer, stats, history
<1>3. CASE Activate
  BY <1>3 DEF Activate, HeldInv
<1>4. CASE SetActivated \/ ContinueLoop \/ EnterPoll \/ PollTimeout \/ PollFails \/ PollReady
  BY <1>4 DEF SetActivated, ContinueLoop, EnterPoll, PollTimeout, PollFails, PollReady, buffer,
              stats, history
<1>5. CASE DispatchReturns \/ DispatchBreaks \/ ProcessPreamble \/ ProcessEot
  BY <1>5 DEF DispatchReturns, DispatchBreaks, ProcessPreamble, ProcessEot, buffer, stats, history
<1>6. CASE ProcessData \/ ProcessDataFull
  <2>0. HandFrame /\ ring \in Seq(Frames)
    BY <1>6 DEF ProcessData, ProcessDataFull, TypeInv, TypeOK, LoopOK
  <2>1. pc = "dispatch" /\ Head(ring) \in Frames /\ captured' = Append(captured, Head(ring))
    BY <1>6, <2>0 DEF ProcessData, ProcessDataFull, HandFrame
  <2>2. pending = NoFrame /\ Head(ring) # NoFrame
    BY <2>1, FrameIsSome DEF HeldInv
  <2> QED
    BY <1>6, <2>1, <2>2 DEF ProcessData, ProcessDataFull, BufferFrame
<1>7. CASE DumpPop \/ EndLoop \/ Return
  BY <1>7 DEF DumpPop, WriteNode, EndLoop, StartDump, Return, stats, history
<1>8. CASE DumpThenBuffer
  BY <1>8 DEF DumpThenBuffer, BufferFrame, history
<1>9. CASE UNCHANGED vars
  BY <1>9 DEF vars, buffer, stats, history
<1> QED
  BY <1>1, <1>2, <1>3, <1>4, <1>5, <1>6, <1>7, <1>8, <1>9 DEF Next, Receive, Dump, Environment

LEMMA CountInvStep ==
    ASSUME TypeInv, HeldInv, CountInv, [Next]_vars
    PROVE  CountInv'
<1>0. captured \in Seq(Frames) /\ Len(captured) \in Nat
  BY DEF TypeInv, TypeOK, BufferOK
<1>1. CASE UNCHANGED Counts
  BY <1>1 DEF Counts, CountInv, Buffered
<1>2. CASE processed' = 0 /\ captured' = << >> /\ pending' = NoFrame
  <2>1. Buffered' = 0 /\ 0 % StatMod = 0
    BY <1>2, SizeAssumption DEF Buffered
  <2> QED
    BY <1>2, <2>1 DEF CountInv
<1>3. ASSUME pending = NoFrame, NEW f \in Frames, captured' = Append(captured, f),
             \/ pending' = NoFrame /\ processed' = AddStat(processed, 1)
             \/ pending' # NoFrame /\ processed' = processed
      PROVE  CountInv'
  <2>1. Len(captured') = Len(captured) + 1 /\ Buffered = Len(captured)
    BY <1>0, <1>3 DEF Buffered
  <2>2. CASE pending' = NoFrame /\ processed' = AddStat(processed, 1)
    <3>1. Buffered' = Buffered + 1 /\ Buffered \in Nat
      BY <1>0, <2>1, <2>2 DEF Buffered
    <3> QED
      BY <2>2, <3>1, CountOne DEF CountInv
  <2>3. CASE pending' # NoFrame /\ processed' = processed
    <3>1. Buffered' = Buffered
      BY <1>0, <2>1, <2>3 DEF Buffered
    <3> QED
      BY <2>3, <3>1 DEF CountInv
  <2> QED
    BY <1>3, <2>2, <2>3
<1>4. CASE /\ pending # NoFrame /\ pending' = NoFrame /\ captured' = captured
           /\ processed' = AddStat(processed, 1)
  <2>1. Buffered' = Buffered + 1 /\ Buffered \in Nat
    BY <1>0, <1>4 DEF Buffered, CountInv
  <2> QED
    BY <1>4, <2>1, CountOne DEF CountInv
<1> QED
  BY <1>1, <1>2, <1>3, <1>4, CountSteps

LEMMA ArrivedInvStep ==
    ASSUME TypeInv, ArrivedInv, [Next]_vars
    PROVE  ArrivedInv'
<1> USE DEF ArrivedInv
<1>0. /\ captured \in Seq(Frames) /\ ring \in Seq(Frames)
      /\ Len(captured) \in Nat /\ Len(ring) \in Nat /\ arrivals \in Nat
  BY BoundAssumption DEF TypeInv, TypeOK, BufferOK, LoopOK
<1>1. ASSUME NEW f \in Frames, Arrive(f) PROVE ArrivedInv'
  <2>1. Len(ring') = Len(ring) + 1 /\ arrivals' = arrivals + 1 /\ captured' = captured
    BY <1>0, <1>1 DEF Arrive, history
  <2> QED
    BY <1>0, <2>1
<1>2. CASE DeviceFails \/ Stop
  BY <1>2 DEF DeviceFails, Stop, history, counts
<1>3. CASE Activate
  <2>1. Len(captured') = 0 /\ UNCHANGED <<ring, arrivals>>
    BY <1>3 DEF Activate, device
  <2> QED
    BY <1>0, <2>1
<1>4. CASE SetActivated \/ ContinueLoop \/ EnterPoll \/ PollTimeout \/ PollFails \/ PollReady
  BY <1>4 DEF SetActivated, ContinueLoop, EnterPoll, PollTimeout, PollFails, PollReady, device,
              counts, history
<1>5. CASE DispatchReturns \/ DispatchBreaks
  BY <1>5 DEF DispatchReturns, DispatchBreaks, device, counts, history
<1>6. CASE ProcessPreamble \/ ProcessEot \/ ProcessData \/ ProcessDataFull
  <2>0. HandFrame
    BY <1>6 DEF ProcessPreamble, ProcessEot, ProcessData, ProcessDataFull
  <2>1. ring # << >> /\ ring' = Tail(ring) /\ arrivals' = arrivals
    BY <2>0 DEF HandFrame, counts
  <2>2. Len(ring') = Len(ring) - 1
    BY <1>0, <2>1
  <2>3. captured' = captured \/ \E f : captured' = Append(captured, f)
    BY <1>6 DEF ProcessPreamble, ProcessEot, ProcessData, ProcessDataFull
  <2>4. Len(captured') \in {Len(captured), Len(captured) + 1}
    BY <1>0, <2>3
  <2> QED
    BY <1>0, <2>1, <2>2, <2>4
<1>7. CASE DumpPop \/ DumpThenBuffer \/ EndLoop \/ Return
  BY <1>7 DEF DumpPop, DumpThenBuffer, EndLoop, Return, device, counts, history
<1>8. CASE UNCHANGED vars
  BY <1>8 DEF vars, device, counts, history
<1> QED
  BY <1>1, <1>2, <1>3, <1>4, <1>5, <1>6, <1>7, <1>8 DEF Next, Receive, Dump, Environment

LEMMA CountsHold == Spec => [](TypeInv /\ HeldInv /\ CountInv /\ ArrivedInv)
<1>1. Init => TypeInv /\ HeldInv /\ CountInv /\ ArrivedInv
  <2> SUFFICES ASSUME Init PROVE TypeInv /\ HeldInv /\ CountInv /\ ArrivedInv
    OBVIOUS
  <2>1. TypeInv /\ HeldInv
    BY InitTypeOK DEF TypeInv, Init, NodesLong, HeldInv
  <2>2. Buffered = 0 /\ processed = 0 /\ 0 % StatMod = 0
    BY SizeAssumption DEF Init, Buffered
  <2>3. ArrivedInv
    BY DEF Init, ArrivedInv
  <2> QED
    BY <2>1, <2>2, <2>3 DEF CountInv
<1>2. (TypeInv /\ HeldInv /\ CountInv /\ ArrivedInv) /\ [Next]_vars
      => (TypeInv /\ HeldInv /\ CountInv /\ ArrivedInv)'
  BY NextTypeInv, HeldInvStep, CountInvStep, ArrivedInvStep
<1> QED
  BY <1>1, <1>2, PTL DEF Spec

LEMMA FlagInvStep ==
    ASSUME HeldInv, BoundaryInv, FlagInv, [Next]_vars
    PROVE  FlagInv'
<1> USE DEF FlagInv
<1>1. ASSUME NEW f \in Frames, Arrive(f) PROVE FlagInv'
  BY <1>1 DEF Arrive, buffer, flags, stats, history
<1>2. CASE DeviceFails
  BY <1>2 DEF DeviceFails, buffer, flags, stats, history
<1>3. CASE Stop
  <2>1. stopped' = "live" \/ (pc = "start" /\ stopped # "live" /\ pc' = "start")
    BY <1>3 DEF Stop
  <2> QED
    BY <1>3, <2>1 DEF Stop, buffer, flags, stats
<1>4. CASE Activate
  BY <1>4 DEF Activate
<1>5. CASE SetActivated \/ ContinueLoop \/ EnterPoll \/ PollReady
  BY <1>5 DEF SetActivated, ContinueLoop, Active, EnterPoll, PollReady, buffer, flags, stats, history
<1>6. CASE PollTimeout \/ PollFails
  BY <1>6 DEF PollTimeout, PollFails, HeldInv, BoundaryInv, buffer, flags, history
<1>7. CASE DispatchReturns \/ DispatchBreaks
  BY <1>7 DEF DispatchReturns, DispatchBreaks, buffer, flags, stats, history
<1>8. CASE ProcessPreamble \/ ProcessEot \/ ProcessData \/ ProcessDataFull
  <2>1. HandFrame /\ pc' \in {"dispatch", "dump"}
    BY <1>8 DEF ProcessPreamble, ProcessEot, ProcessData, ProcessDataFull, HandFrame, StartDump
  <2>2. pc = "dispatch" /\ UNCHANGED <<activated, captureState, stopped>>
    BY <2>1 DEF HandFrame
  <2> QED
    BY <2>1, <2>2
<1>9. CASE DumpPop \/ DumpThenBuffer
  BY <1>9 DEF DumpPop, DumpThenBuffer, flags, history
<1>10. CASE EndLoop \/ Return
  BY <1>10 DEF EndLoop, StartDump, Return, buffer, flags, stats, history
<1>11. CASE UNCHANGED vars
  BY <1>11 DEF vars, buffer, flags, stats, history
<1> QED
  BY <1>1, <1>2, <1>3, <1>4, <1>5, <1>6, <1>7, <1>8, <1>9, <1>10, <1>11
  DEF Next, Receive, Dump, Environment

ServiceInv == TypeInv /\ HeldInv /\ BoundaryInv /\ CountInv /\ ArrivedInv /\ FlagInv

LEMMA ServiceInvHolds == ASSUME DispatchCount = 1 PROVE Spec => []ServiceInv
<1>1. Init => BoundaryInv /\ FlagInv
  BY DEF Init, BoundaryInv, FlagInv
<1>2. TypeInv /\ HeldInv /\ BoundaryInv /\ FlagInv /\ [Next]_vars => (BoundaryInv /\ FlagInv)'
  BY BoundaryInvStep, FlagInvStep
<1>3. TypeInv /\ HeldInv /\ CountInv /\ ArrivedInv /\ BoundaryInv /\ FlagInv => ServiceInv
  BY DEF ServiceInv
<1> QED
  BY <1>1, <1>2, <1>3, CountsHold, PTL DEF Spec

Mapped == <<Phase, stopped = "live", endCapture, captured, Report>>

\* Dispatching one by one, receiver_activate_capture with all the signals and faults that
\* may strike it does what the program above relies on: each step is a step of Capture or
\* is not seen, as long as fewer frames arrive than the uint32_t that counts them holds.
THEOREM ReceiverImplementsCapture ==
    ASSUME DispatchCount = 1, MaxArrivals < StatMod PROVE Spec => ImplementsCapture
<1>1. Init => Service!Init
  BY DEF Init, Service!Init, Phase, Flushing, Report
<1>2. ServiceInv /\ [Next]_vars
      => [Service!Next]_<<Phase, stopped = "live", endCapture, captured, Report>>
  <2> SUFFICES ASSUME ServiceInv, [Next]_vars
               PROVE  Service!Next \/ UNCHANGED Mapped
    BY DEF Mapped
  <2>0. captureState \in States /\ ring \in Seq(Frames) /\ endCapture \in BOOLEAN
    BY DEF ServiceInv, TypeInv, TypeOK, StatsOK, LoopOK, FlagsOK
  <2>1. ASSUME NEW f \in Frames, Arrive(f) PROVE UNCHANGED Mapped
    BY <2>1 DEF Arrive, Mapped, Phase, Flushing, Report, buffer, flags, stats, history
  <2>2. CASE DeviceFails
    BY <2>2 DEF DeviceFails, Mapped, Phase, Flushing, Report, buffer, flags, stats, history
  <2>3. CASE Stop
    <3>1. UNCHANGED <<Phase, Report, endCapture, captured>> /\ Phase # "idle"
      BY <2>3 DEF Stop, Phase, Flushing, Report, buffer, flags, stats
    <3>2. (stopped = "live")' = ((stopped = "live") \/ Phase # "begun")
      BY <2>3 DEF Stop, Phase, Flushing
    <3>3. Service!Stop
      BY <3>1, <3>2 DEF Service!Stop
    <3> QED
      BY <3>3 DEF Service!Next
  <2>4. CASE Activate
    <3>1. Service!Begin
      BY <2>4 DEF Activate, Service!Begin, Phase, Flushing, Report
    <3> QED
      BY <3>1 DEF Service!Next
  <2>5. CASE SetActivated
    <3>1. Service!Activate
      BY <2>5 DEF SetActivated, Service!Activate, Phase, Flushing, Report, flags, stats, history
    <3> QED
      BY <3>1 DEF Service!Next
  <2>6. CASE ContinueLoop \/ EnterPoll \/ PollTimeout \/ PollFails \/ PollReady
             \/ DispatchReturns \/ DispatchBreaks
    <3>1. /\ pc \notin {"idle", "start", "dump"} /\ pc' \notin {"idle", "start", "dump"}
          /\ UNCHANGED <<stopped, endCapture, captured>>
      BY <2>6 DEF ContinueLoop, EnterPoll, PollTimeout, PollFails, PollReady, DispatchReturns,
                  DispatchBreaks, flags, history
    <3> QED
      BY <3>1 DEF Mapped, Phase, Flushing, Report
  <2>7. CASE ProcessPreamble \/ ProcessEot \/ ProcessData \/ ProcessDataFull
    <3>0. HandFrame
      BY <2>7 DEF ProcessPreamble, ProcessEot, ProcessData, ProcessDataFull
    <3>1. pc = "dispatch" /\ handled < DispatchCount /\ Head(ring) \in Frames /\ stopped' = stopped
      BY <2>0, <3>0 DEF HandFrame
    <3>2. ~endCapture /\ pending = NoFrame
      BY <3>1 DEF ServiceInv, BoundaryInv, HeldInv, TypeInv, TypeOK, LoopOK
    <3>3. Phase = "active" /\ Report = "NORMAL"
      BY <3>1 DEF Phase, Flushing, Report
    <3>4. CASE ProcessEot
      <4>1. pc' = "dispatch" /\ UNCHANGED <<endCapture, captured>>
        BY <3>1, <3>4 DEF ProcessEot
      <4> QED
        BY <3>1, <3>3, <4>1 DEF Mapped, Phase, Flushing, Report
    <3>5. CASE ProcessPreamble
      <4>1. pc' = "dispatch" /\ captured' = captured /\ endCapture' = (endCapture \/ processed > 0)
        BY <3>1, <3>5 DEF ProcessPreamble
      <4>2. Phase' = "active" /\ Report' = "NORMAL"
        BY <4>1 DEF Phase, Flushing, Report
      <4>3. (processed > 0) = (captured # << >>)
        <5>1. captured \in Seq(Frames) /\ Len(captured) \in Nat /\ Len(captured) < StatMod
          BY BoundAssumption, SizeAssumption
          DEF ServiceInv, ArrivedInv, TypeInv, TypeOK, BufferOK, LoopOK
        <5>2. processed = Len(captured) % StatMod
          BY <3>2 DEF ServiceInv, CountInv, Buffered
        <5>3. processed = Len(captured)
          BY <5>1, <5>2, SizeAssumption
        <5> QED
          BY <5>1, <5>3
      <4>4. Service!TakePreamble
        BY <3>1, <3>2, <3>3, <4>1, <4>2, <4>3 DEF Service!TakePreamble
      <4> QED
        BY <4>4 DEF Service!Next
    <3>6. CASE ProcessData \/ ProcessDataFull
      <4>1. captured' = Append(captured, Head(ring)) /\ endCapture' = endCapture
        BY <3>6 DEF ProcessData, ProcessDataFull, flags
      <4>2. pc' = "dispatch" \/ (pc' = "dump" /\ pending' = Head(ring))
        BY <3>1, <3>6 DEF ProcessData, ProcessDataFull, StartDump
      <4>3. Head(ring) # NoFrame
        BY <3>1, FrameIsSome
      <4>4. Phase' = "active" /\ Report' = "NORMAL"
        BY <4>2, <4>3 DEF Phase, Flushing, Report
      <4>5. Service!TakeData(Head(ring))
        BY <3>1, <3>2, <3>3, <4>1, <4>4 DEF Service!TakeData
      <4> QED
        BY <3>1, <4>5 DEF Service!Next
    <3> QED
      BY <2>7, <3>4, <3>5, <3>6
  <2>8. CASE DumpPop
    BY <2>8 DEF DumpPop, WriteNode, Mapped, Phase, Flushing, Report, flags
  <2>9. CASE DumpThenBuffer
    <3>1. pc = "dump" /\ pending # NoFrame /\ pc' = "dispatch"
      BY <2>9 DEF DumpThenBuffer
    <3>2. UNCHANGED <<stopped, endCapture, captured>>
      BY <2>9 DEF DumpThenBuffer, flags, history
    <3> QED
      BY <3>1, <3>2 DEF Mapped, Phase, Flushing, Report
  <2>10. CASE EndLoop
    <3>1. /\ pc = "test" /\ ~Active /\ pc' = "dump" /\ pending = NoFrame
          /\ UNCHANGED <<pending, captureState, stopped, endCapture, captured>>
      BY <2>10 DEF EndLoop, StartDump, ServiceInv, HeldInv, flags, stats
    <3>2. Phase = "active" /\ Phase' = "done" /\ Report' = captureState
      BY <3>1 DEF Phase, Flushing, Report
    <3>3. captureState \in Service!Reports
      BY <2>0 DEF States, Service!Reports
    <3>4. /\ captureState = "TIMED_OUT" => ~endCapture
          /\ captureState = "DEACTIVATED" => stopped = "live"
          /\ captureState # "TIMED_OUT" => stopped = "live" \/ endCapture
      BY <3>1 DEF ServiceInv, FlagInv, Active
    <3>5. Service!Finish
      BY <3>1, <3>2, <3>3, <3>4 DEF Service!Finish, Service!Ends
    <3> QED
      BY <3>5 DEF Service!Next
  <2>11. CASE Return
    <3>1. /\ pc = "dump" /\ pc' = "idle" /\ pending = NoFrame
          /\ UNCHANGED <<captureState, stopped, endCapture, captured>>
      BY <2>11 DEF Return, flags, stats, history
    <3>2. Phase = "done" /\ Phase' = "idle" /\ Report = captureState /\ Report' = captureState
      BY <3>1 DEF Phase, Flushing, Report
    <3>3. Service!End
      BY <3>1, <3>2 DEF Service!End
    <3> QED
      BY <3>3 DEF Service!Next
  <2>12. CASE UNCHANGED vars
    BY <2>12 DEF vars, Mapped, Phase, Flushing, Report, buffer, flags, stats, history
  <2> QED
    BY <2>1, <2>2, <2>3, <2>4, <2>5, <2>6, <2>7, <2>8, <2>9, <2>10, <2>11, <2>12
    DEF Next, Receive, Dump, Environment
<1> QED
  BY <1>1, <1>2, ServiceInvHolds, PTL DEF Spec, ImplementsCapture, Service!Spec
===============================================================================

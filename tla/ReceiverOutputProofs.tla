------------------------- MODULE ReceiverOutputProofs -------------------------
(***************************************************************************)
(* Theorems about what Receiver writes, for every value of its constants:  *)
(* the order of the output, the place of every block behind noise, and     *)
(* that a capture that returned left nothing behind and its statistics     *)
(* balance.                                                                *)
(***************************************************************************)
EXTENDS ReceiverProofs

-------------------------------------------------------------------------------
(* The keys by which the heap sorts.                                       *)

\* No key of the heap, nor the one after it, reaches the sign bit of its int32_t: frame
\* numbers below 2^31 - 1, or fewer than 2^31 frames when they are not sorted by number.
KeysFit == IF Ordered THEN \A f \in Frames : 2 * (f.number + 1) < StatMod
                      ELSE 2 * MaxArrivals < StatMod

\* Such a number is its own key.
LEMMA SignedFits == ASSUME NEW k \in Nat, 2 * k < StatMod PROVE Signed(k) = k
<1>1. k % StatMod = k
  BY SizeAssumption
<1> QED
  BY <1>1 DEF Signed

\* The key of a counter is the key of what it counts.
LEMMA SignedCount == ASSUME NEW k \in Nat PROVE Signed(k % StatMod) = Signed(k)
<1>1. (k % StatMod) % StatMod = k % StatMod
  <2>1. k % StatMod \in Nat /\ k % StatMod < StatMod
    BY SizeAssumption
  <2> QED
    BY <2>1, SizeAssumption
<1> QED
  BY <1>1 DEF Signed

-------------------------------------------------------------------------------
(* The steps, as the output sees them.                                     *)

\* The frame that waits for room is the one captured last.
PendingInv == pending # NoFrame => captured # << >> /\ captured[Len(captured)] = pending

\* Every step rests, starts a capture over, starts a dump, stores a frame, writes one
\* out, or returns.
Rests  == /\ UNCHANGED <<heap, index, expected, pending, Buffered, payloadSize, writelen,
                         blocksLost, out, captured, failed, dumpFrom>>
          /\ (pc' = "dump") <=> (pc = "dump")
          /\ pc' = "idle" <=> pc = "idle"
Starts == /\ StartDump /\ pc \notin {"idle", "dump"}
          /\ UNCHANGED <<heap, index, Buffered, payloadSize, writelen, blocksLost, out, failed>>
          /\ \/ captured' = captured /\ pending' = pending
             \/ \E f \in Frames : captured' = Append(captured, f) /\ pending' = f
Stores == /\ pc # "idle" /\ pc' = "dispatch" /\ pending' = NoFrame
          /\ UNCHANGED <<expected, writelen, blocksLost, out, failed, dumpFrom>>
          /\ \E f \in Frames, at \in Nat : /\ BufferFrame(f, at, Buffered + 1)
                                           /\ captured' \in {captured, Append(captured, f)}
                                           /\ captured'[Buffered + 1] = f
                                           /\ Buffered' = Buffered + 1

LEMMA OutputSteps ==
    ASSUME TypeInv, HeldInv, CountInv, PendingInv, [Next]_vars
    PROVE  Rests \/ Activate \/ Starts \/ Stores \/ DumpPop \/ Return
<1>0. /\ ring \in Seq(Frames) /\ captured \in Seq(Frames) /\ Buffered \in Nat /\ index \in Nat
      /\ pending \in Frames \cup {NoFrame} /\ Len(captured) \in Nat
  BY DEF TypeInv, TypeOK, LoopOK, BufferOK, CountInv
<1>1. ASSUME NEW f \in Frames, Arrive(f) PROVE Rests
  BY <1>1 DEF Arrive, Rests, buffer, stats, history, Buffered
<1>2. CASE DeviceFails \/ Stop
  BY <1>2 DEF DeviceFails, Stop, Rests, buffer, stats, history, Buffered
<1>3. CASE \/ SetActivated \/ ContinueLoop \/ EnterPoll \/ PollTimeout \/ PollFails
           \/ PollReady \/ DispatchReturns \/ DispatchBreaks
  BY <1>3 DEF SetActivated, ContinueLoop, EnterPoll, PollTimeout, PollFails, PollReady,
     DispatchReturns, DispatchBreaks, Rests, buffer, stats, history, Buffered
<1>4. CASE ProcessPreamble \/ ProcessEot
  BY <1>4 DEF ProcessPreamble, ProcessEot, HandFrame, Rests, buffer, Buffered
<1>5. CASE ProcessData
  <2>1. Head(ring) \in Frames /\ pc = "dispatch" /\ pending = NoFrame
    BY <1>0, <1>5 DEF ProcessData, HandFrame, HeldInv
  <2>2. BufferFrame(Head(ring), index, Len(captured) + 1) /\ captured' = Append(captured, Head(ring))
    BY <1>5 DEF ProcessData
  <2>3. Len(captured) = Buffered
    BY <2>1 DEF Buffered
  <2>4. Len(captured') = Buffered + 1 /\ captured'[Buffered + 1] = Head(ring)
    BY <1>0, <2>1, <2>2, <2>3
  <2>5. Buffered' = Buffered + 1 /\ pending' = NoFrame
    BY <1>5, <2>1, <2>4 DEF ProcessData, Buffered
  <2> QED
    BY <1>0, <1>5, <2>1, <2>2, <2>3, <2>4, <2>5 DEF ProcessData, HandFrame, Stores
<1>6. CASE ProcessDataFull
  <2>1. Head(ring) \in Frames /\ pc = "dispatch" /\ pending = NoFrame
    BY <1>0, <1>6 DEF ProcessDataFull, HandFrame, HeldInv
  <2>2. pending' = Head(ring) /\ captured' = Append(captured, Head(ring)) /\ Head(ring) # NoFrame
    BY <1>6, <2>1, FrameIsSome DEF ProcessDataFull
  <2>3. Buffered' = Buffered
    <3>1. Len(captured') = Len(captured) + 1
      BY <1>0, <2>1, <2>2
    <3> QED
      BY <1>0, <2>1, <2>2, <3>1 DEF Buffered
  <2> QED
    BY <1>6, <2>1, <2>2, <2>3 DEF ProcessDataFull, HandFrame, Starts
<1>7. CASE DumpThenBuffer
  <2>1. /\ pc = "dump" /\ pc' = "dispatch" /\ pending \in Frames /\ pending' = NoFrame
        /\ BufferFrame(pending, 0, Len(captured)) /\ captured' = captured
    BY <1>0, <1>7 DEF DumpThenBuffer, history
  <2>2. Len(captured) = Buffered + 1 /\ captured[Buffered + 1] = pending
    BY <1>0, <1>7 DEF DumpThenBuffer, Buffered, PendingInv
  <2>3. Buffered' = Buffered + 1
    BY <2>1, <2>2 DEF Buffered
  <2> QED
    BY <1>7, <2>1, <2>2, <2>3 DEF DumpThenBuffer, Stores, history
<1>8. CASE EndLoop
  BY <1>8 DEF EndLoop, Starts, stats, Buffered
<1>9. CASE UNCHANGED vars
  BY <1>9 DEF vars, Rests, buffer, stats, history, Buffered
<1> QED
  BY <1>1, <1>2, <1>3, <1>4, <1>5, <1>6, <1>7, <1>8, <1>9 DEF Next, Receive, Dump, Environment

LEMMA PendingInvStep ==
    ASSUME TypeInv, HeldInv, CountInv, PendingInv, [Next]_vars
    PROVE  PendingInv'
<1>0. captured \in Seq(Frames)
  BY DEF TypeInv, TypeOK, BufferOK
<1>1. CASE Rests \/ Return
  BY <1>1 DEF Rests, Return, PendingInv, history
<1>2. CASE Activate \/ Stores
  BY <1>2 DEF Activate, Stores, PendingInv, HeldInv
<1>3. CASE Starts
  <2>1. ASSUME NEW f \in Frames, captured' = Append(captured, f), pending' = f PROVE PendingInv'
    BY <1>0, <2>1 DEF PendingInv
  <2> QED
    BY <1>3, <2>1 DEF Starts, PendingInv
<1>4. CASE DumpPop
  BY <1>4 DEF DumpPop, PendingInv
<1> QED
  BY <1>1, <1>2, <1>3, <1>4, OutputSteps

\* The invariants that every theorem below rests on.
BaseInv == TypeInv /\ HeldInv /\ CountInv /\ ArrivedInv /\ PendingInv

LEMMA BaseInvHolds == Spec => []BaseInv
<1>1. Init => PendingInv
  BY DEF Init, PendingInv
<1>2. TypeInv /\ HeldInv /\ CountInv /\ PendingInv /\ [Next]_vars => PendingInv'
  BY PendingInvStep
<1>3. TypeInv /\ HeldInv /\ CountInv /\ ArrivedInv /\ PendingInv => BaseInv
  BY DEF BaseInv
<1> QED
  BY <1>1, <1>2, <1>3, CountsHold, PTL DEF Spec

\* What was counted is part of what was captured, and that of what arrived.
LEMMA BufferedType ==
    ASSUME BaseInv
    PROVE  /\ captured \in Seq(Frames) /\ Len(captured) \in Nat
           /\ Buffered \in Nat /\ Buffered <= Len(captured) /\ Len(captured) <= MaxArrivals
<1>1. /\ captured \in Seq(Frames) /\ Len(captured) \in Nat /\ ring \in Seq(Frames)
      /\ Len(ring) \in Nat /\ arrivals \in Nat /\ arrivals <= MaxArrivals
  BY BoundAssumption DEF BaseInv, TypeInv, TypeOK, BufferOK, LoopOK
<1>2. Buffered \in Nat /\ Buffered <= Len(captured)
  BY <1>1 DEF BaseInv, CountInv, Buffered
<1> QED
  BY <1>1, <1>2, BoundAssumption DEF BaseInv, ArrivedInv

-------------------------------------------------------------------------------
(* The order of the output.                                                *)

\* Ids are given in order of arrival, once each, and only to frames that were counted;
\* the last dump began somewhere in the output.
IdInv ==
    /\ \A n \in heap : n.id \in 1..Buffered
    /\ \A i \in DataOut : out[i].id \in 1..Buffered
    /\ \A m, n \in heap : m.id = n.id => m = n
    /\ dumpFrom <= Len(out)

\* The key of a node is that of its frame's number, or of its place in the order of
\* arrival.
KeyInv == \A n \in heap : n.number = Signed(IF Ordered THEN captured[n.id].number ELSE n.id - 1)

\* One turn of the dump loop writes the least node behind all that was written, or fails.
Wrote(n) == /\ Len(out') > Len(out) /\ out'[Len(out')].id = n.id
            /\ DataOut' = DataOut \cup {Len(out')}
            /\ LastDump' = LastDump \cup {Len(out')}

LEMMA PopWrites ==
    ASSUME BaseInv, IdInv, DumpPop
    PROVE  /\ pc = "dump" /\ pc' = "dump"
           /\ UNCHANGED <<dumpFrom, captured, Buffered, pending, index, payloadSize>>
           /\ \A i \in DataOut : i \in DOMAIN out' /\ i <= Len(out) /\ out'[i] = out[i]
           /\ Len(out') >= Len(out) /\ failed \subseteq failed'
           /\ \E n \in Tops :
                /\ n \in heap /\ heap' = heap \ {n} /\ expected' = Signed(n.number + 1)
                /\ blocksLost' = AddStat(blocksLost, Missing(n))
                /\ Wrote(n) \/ (DataOut' = DataOut /\ LastDump' = LastDump /\ n.id \in failed')
                /\ "write" \notin Faults => /\ Wrote(n)
                                            /\ Len(out') = Len(out) + NoiseBlocks(n) + 1
<1> USE DEF BaseInv
<1>1. PICK n \in Tops : \E noise \in NoiseWrites(NoiseBlocks(n)),
                           nbytes \in WriteResults(n.len - HdrSize) : WriteNode(n, noise, nbytes)
  BY DEF DumpPop
<1>2. PICK noise \in NoiseWrites(NoiseBlocks(n)), nbytes \in WriteResults(n.len - HdrSize) :
           WriteNode(n, noise, nbytes)
  BY <1>1
<1>3. /\ n \in heap /\ heap' = heap \ {n} /\ expected' = Signed(n.number + 1)
      /\ blocksLost' = AddStat(blocksLost, Missing(n)) /\ failed \subseteq failed'
  BY <1>2 DEF Tops, WriteNode
<1>4. /\ pc = "dump" /\ pc' = "dump"
      /\ UNCHANGED <<dumpFrom, captured, Buffered, pending, index, payloadSize>>
  BY DEF DumpPop, Buffered
<1>5. /\ out \in Seq([id : Nat, bytes : Nat]) /\ out' \in Seq([id : Nat, bytes : Nat])
      /\ dumpFrom \in Nat
  BY NextTypeInv DEF TypeInv, TypeOK, OutputOK, Next, Receive, Dump
<1>6. /\ DOMAIN out = 1..Len(out) /\ DOMAIN out' = 1..Len(out')
      /\ Len(out) \in Nat /\ Len(out') \in Nat
  BY <1>5
<1>7. DOMAIN out \subseteq DOMAIN out' /\ \A i \in DOMAIN out : out'[i] = out[i]
  BY <1>2, PopOutput
<1>8. Len(out') >= Len(out)
  <2>1. CASE Len(out) = 0
    BY <1>6, <2>1
  <2>2. CASE Len(out) # 0
    <3>1. Len(out) \in DOMAIN out
      BY <1>6, <2>2
    <3>2. Len(out) \in DOMAIN out'
      BY <1>7, <3>1
    <3> QED
      BY <1>6, <3>2
  <2> QED
    BY <2>1, <2>2
<1>9. \A i \in DataOut : i \in DOMAIN out' /\ i <= Len(out) /\ out'[i] = out[i]
  BY <1>6, <1>7 DEF DataOut
<1>10. n.id # 0
  BY <1>3 DEF IdInv
<1>11. CASE nbytes > 0
  <2>1. PICK last \in DOMAIN out' \ DOMAIN out :
           /\ last = Len(out) + noise + 1 /\ last = Len(out')
           /\ out'[last].id = n.id
           /\ \A i \in DOMAIN out' \ DOMAIN out : i # last => out'[i].id = 0
    BY <1>2, <1>11, PopOutput
  <2>2. Len(out') > Len(out) /\ dumpFrom < Len(out')
    <3>1. Len(out') \notin DOMAIN out
      BY <2>1
    <3> QED
      BY <1>5, <1>6, <1>8, <3>1, <2>1 DEF IdInv
  <2>3. DataOut' = DataOut \cup {Len(out')}
    BY <1>7, <1>10, <2>1 DEF DataOut
  <2>4. LastDump' = LastDump \cup {Len(out')}
    BY <1>4, <2>2, <2>3 DEF LastDump
  <2>5. Wrote(n)
    BY <2>1, <2>2, <2>3, <2>4 DEF Wrote
  <2>6. "write" \notin Faults => Len(out') = Len(out) + NoiseBlocks(n) + 1
    BY <2>1 DEF NoiseWrites
  <2> QED
    BY <1>3, <1>4, <1>8, <1>9, <2>5, <2>6
<1>12. CASE ~(nbytes > 0)
  <2>1. \A i \in DOMAIN out' \ DOMAIN out : out'[i].id = 0
    BY <1>2, <1>12, PopOutput
  <2>2. DataOut' = DataOut
    BY <1>7, <2>1 DEF DataOut
  <2>3. LastDump' = LastDump
    BY <1>4, <2>2 DEF LastDump
  <2>4. n.id \in failed'
    BY <1>2, <1>12 DEF WriteNode
  <2>5. "write" \in Faults
    <3>1. n.len - HdrSize > 0
      <4>1. n.len \in Nat /\ HdrSize \in Nat /\ HdrSize < n.len
        BY <1>3, SizeAssumption DEF TypeInv, NodesLong, TypeOK, BufferOK, NodeType
      <4> QED
        BY <4>1
    <3> QED
      BY <1>12, <3>1 DEF WriteResults
  <2> QED
    BY <1>3, <1>4, <1>8, <1>9, <2>2, <2>3, <2>4, <2>5
<1> QED
  BY <1>11, <1>12

LEMMA IdInvStep ==
    ASSUME BaseInv, IdInv, [Next]_vars
    PROVE  IdInv'
<1> USE DEF BaseInv
<1>0. /\ Buffered \in Nat /\ dumpFrom \in Nat /\ out \in Seq([id : Nat, bytes : Nat])
      /\ Len(out) \in Nat
  BY DEF CountInv, TypeInv, TypeOK, OutputOK
<1>1. CASE Rests
  BY <1>1 DEF Rests, IdInv, DataOut
<1>2. CASE Return
  BY <1>2 DEF Return, IdInv, DataOut, Buffered, history
<1>3. CASE Activate
  BY <1>3 DEF Activate, IdInv, DataOut
<1>4. CASE Starts
  BY <1>0, <1>4 DEF Starts, StartDump, IdInv, DataOut
<1>5. CASE Stores
  <2>1. PICK f \in Frames, at \in Nat : BufferFrame(f, at, Buffered + 1) /\ Buffered' = Buffered + 1
    BY <1>5 DEF Stores
  <2>2. /\ heap' = heap \/ heap' = heap \cup {NodeOf(f, at, Buffered + 1)}
        /\ NodeOf(f, at, Buffered + 1).id = Buffered + 1 /\ Buffered' = Buffered + 1
    BY <2>1 DEF BufferFrame, NodeOf
  <2>3. UNCHANGED <<out, dumpFrom, DataOut>>
    BY <1>5 DEF Stores, DataOut
  <2>4. \A n \in heap' : n.id \in 1..Buffered'
    BY <1>0, <2>2 DEF IdInv
  <2>5. \A i \in DataOut' : out'[i].id \in 1..Buffered'
    BY <1>0, <2>2, <2>3 DEF IdInv
  <2>6. \A m, n \in heap' : m.id = n.id => m = n
    <3>1. \A n \in heap : n.id # Buffered + 1
      BY <1>0 DEF IdInv
    <3> QED
      BY <2>2, <3>1 DEF IdInv
  <2> QED
    BY <2>3, <2>4, <2>5, <2>6 DEF IdInv
<1>6. CASE DumpPop
  <2>1. /\ UNCHANGED <<dumpFrom, Buffered>> /\ Len(out') >= Len(out)
        /\ \A i \in DataOut : out'[i] = out[i]
    BY <1>6, PopWrites
  <2>2. PICK n \in Tops : /\ n \in heap /\ heap' = heap \ {n}
                          /\ Wrote(n) \/ DataOut' = DataOut
    BY <1>6, PopWrites
  <2>3. \A i \in DataOut' : out'[i].id \in 1..Buffered'
    BY <2>1, <2>2 DEF Wrote, IdInv
  <2>4. dumpFrom' <= Len(out')
    <3>1. Len(out') \in Nat
      BY <1>6, NextTypeInv DEF TypeInv, TypeOK, OutputOK, Next, Receive, Dump
    <3> QED
      BY <1>0, <2>1, <3>1 DEF IdInv
  <2> QED
    BY <2>1, <2>2, <2>3, <2>4 DEF IdInv
<1> QED
  BY <1>1, <1>2, <1>3, <1>4, <1>5, <1>6, OutputSteps

\* Frames that were captured stay what they are, until the capture is started over.
LEMMA CapturedGrows ==
    ASSUME BaseInv, Starts \/ Stores
    PROVE  \A k \in 1..Buffered : captured'[k] = captured[k]
<1>1. /\ captured \in Seq(Frames) /\ Buffered \in Nat /\ Buffered <= Len(captured)
      /\ Len(captured) \in Nat
  BY BufferedType
<1>2. ASSUME NEW f \in Frames, captured' = Append(captured, f), NEW k \in 1..Buffered
      PROVE  captured'[k] = captured[k]
  BY <1>1, <1>2
<1> QED
  BY <1>2 DEF Starts, Stores

LEMMA KeyInvStep ==
    ASSUME BaseInv, IdInv, KeyInv, [Next]_vars
    PROVE  KeyInv'
<1> USE DEF BaseInv
<1>1. CASE Rests \/ Return
  BY <1>1 DEF Rests, Return, KeyInv, history
<1>2. CASE Activate
  BY <1>2 DEF Activate, KeyInv
<1>3. CASE Starts
  <2>1. heap' = heap /\ \A n \in heap : captured'[n.id] = captured[n.id]
    BY <1>3, CapturedGrows DEF Starts, IdInv
  <2> QED
    BY <2>1 DEF KeyInv
<1>4. CASE Stores
  <2>1. PICK f \in Frames, at \in Nat :
             BufferFrame(f, at, Buffered + 1) /\ captured'[Buffered + 1] = f
    BY <1>4 DEF Stores
  <2>2. heap' = heap \/ heap' = heap \cup {NodeOf(f, at, Buffered + 1)}
    BY <2>1 DEF BufferFrame, NodeOf
  <2>3. \A n \in heap : captured'[n.id] = captured[n.id]
    BY <1>4, CapturedGrows DEF IdInv
  <2>4. /\ NodeOf(f, at, Buffered + 1).id = Buffered + 1
        /\ NodeOf(f, at, Buffered + 1).number = Signed(IF Ordered THEN f.number ELSE Buffered)
        /\ (Buffered + 1) - 1 = Buffered
    <3>1. Buffered \in Nat /\ processed = Buffered % StatMod
      BY DEF CountInv
    <3>2. NodeNumber(f) = Signed(IF Ordered THEN f.number ELSE Buffered)
      BY <3>1, SignedCount DEF NodeNumber
    <3> QED
      BY <3>1, <3>2 DEF NodeOf
  <2> QED
    BY <2>1, <2>2, <2>3, <2>4 DEF KeyInv
<1>5. CASE DumpPop
  <2>1. captured' = captured /\ heap' \subseteq heap
    BY <1>5, PopWrites
  <2> QED
    BY <2>1 DEF KeyInv
<1> QED
  BY <1>1, <1>2, <1>3, <1>4, <1>5, OutputSteps

\* Without sorting, what was written came before what waits, and in that order, while
\* the counter that makes the keys stays below the sign bit.
ArrivalOrderInv ==
    (KeysFit /\ ~Ordered)
             => /\ \A i, j \in DataOut : i < j => out[i].id < out[j].id
                /\ \A i \in DataOut, n \in heap : out[i].id < n.id

\* With sorting, what a dump has written is not ahead of what it has still to write, by
\* the key.
KeyAt(i) == Signed(NumberAt(i))
SortedByKey == Ordered => \A i, j \in LastDump : i < j => KeyAt(i) <= KeyAt(j)
NumberInv ==
    /\ SortedByKey
    /\ Ordered /\ pc = "dump" => \A i \in LastDump, n \in heap : KeyAt(i) <= n.number

OrderInv == BaseInv /\ IdInv /\ KeyInv /\ ArrivalOrderInv /\ NumberInv

LEMMA ArrivalOrderInvStep ==
    ASSUME BaseInv, IdInv, KeyInv, ArrivalOrderInv, [Next]_vars
    PROVE  ArrivalOrderInv'
<1> SUFFICES ASSUME KeysFit, ~Ordered PROVE ArrivalOrderInv'
  BY DEF ArrivalOrderInv
<1> USE DEF BaseInv
<1>0. Buffered \in Nat /\ Buffered <= MaxArrivals /\ MaxArrivals \in Nat
  BY BufferedType, BoundAssumption
<1>1. CASE Rests \/ Return \/ Starts
  BY <1>1 DEF Rests, Return, Starts, ArrivalOrderInv, DataOut, history
<1>2. CASE Activate
  BY <1>2 DEF Activate, ArrivalOrderInv, DataOut
<1>3. CASE Stores
  <2>1. PICK f \in Frames, at \in Nat : BufferFrame(f, at, Buffered + 1)
    BY <1>3 DEF Stores
  <2>2. /\ heap' = heap \/ heap' = heap \cup {NodeOf(f, at, Buffered + 1)}
        /\ NodeOf(f, at, Buffered + 1).id = Buffered + 1
    BY <2>1 DEF BufferFrame, NodeOf
  <2>3. UNCHANGED <<out, DataOut>>
    BY <1>3 DEF Stores, DataOut
  <2>4. \A i \in DataOut : out[i].id < Buffered + 1
    BY <1>0 DEF IdInv
  <2> QED
    BY <2>2, <2>3, <2>4 DEF ArrivalOrderInv
<1>4. CASE DumpPop
  <2>1. \A i \in DataOut : i <= Len(out) /\ out'[i] = out[i]
    BY <1>4, PopWrites
  <2>2. PICK n \in Tops : /\ n \in heap /\ heap' = heap \ {n}
                          /\ Wrote(n) \/ DataOut' = DataOut
    BY <1>4, PopWrites
  <2>3. \A m \in heap' : n.id < m.id
    <3> TAKE m \in heap'
    <3>1. m \in heap /\ m # n /\ n.number <= m.number
      BY <2>2 DEF Tops
    <3>2. n.number = Signed(n.id - 1) /\ m.number = Signed(m.id - 1) /\ n.id # m.id
      BY <2>2, <3>1 DEF KeyInv, IdInv
    <3>3. n.id \in 1..Buffered /\ m.id \in 1..Buffered
      BY <2>2, <3>1 DEF IdInv
    <3>4. \A k \in 1..Buffered : k - 1 \in Nat /\ 2 * (k - 1) < StatMod
      BY <1>0, SizeAssumption DEF KeysFit
    <3>5. n.number = n.id - 1 /\ m.number = m.id - 1
      BY <3>2, <3>3, <3>4, SignedFits
    <3> QED
      BY <1>0, <3>1, <3>2, <3>3, <3>5
  <2>4. \A i \in DataOut' : \A m \in heap' : out'[i].id < m.id
    BY <2>1, <2>2, <2>3 DEF Wrote, ArrivalOrderInv
  <2>5. ASSUME NEW i \in DataOut', NEW j \in DataOut', i < j PROVE out'[i].id < out'[j].id
    <3>1. CASE i \in DataOut /\ j \in DataOut
      BY <2>1, <2>5, <3>1 DEF ArrivalOrderInv
    <3>2. CASE i \in DataOut /\ j \notin DataOut
      <4>1. j = Len(out') /\ out'[j].id = n.id
        BY <2>2, <3>2 DEF Wrote
      <4> QED
        BY <2>1, <2>2, <3>2, <4>1 DEF ArrivalOrderInv
    <3>3. CASE i \notin DataOut
      <4>1. Wrote(n) /\ i = Len(out')
        BY <2>2, <3>3 DEF Wrote
      <4>2. Len(out') > Len(out) /\ Len(out) \in Nat /\ Len(out') \in Nat
        BY <1>4, <4>1, NextTypeInv DEF Wrote, TypeInv, TypeOK, OutputOK, Next, Receive, Dump
      <4>3. j = Len(out') \/ (j \in DataOut /\ j <= Len(out))
        BY <2>1, <4>1 DEF Wrote
      <4>4. j \in Nat
        BY <4>2, <4>3 DEF DataOut, TypeInv, TypeOK, OutputOK
      <4> QED
        BY <2>5, <4>1, <4>2, <4>3, <4>4
    <3> QED
      BY <3>1, <3>2, <3>3
  <2> QED
    BY <2>4, <2>5 DEF ArrivalOrderInv
<1> QED
  BY <1>1, <1>2, <1>3, <1>4, OutputSteps

\* While the output stays as it is, the numbers in it do.
LEMMA NumbersStay ==
    ASSUME BaseInv, IdInv, UNCHANGED <<out, dumpFrom>>,
           Starts \/ Stores \/ captured' = captured
    PROVE  /\ LastDump' = LastDump /\ DataOut' = DataOut
           /\ \A i \in DataOut : NumberAt(i)' = NumberAt(i)
<1>1. LastDump' = LastDump /\ DataOut' = DataOut
  BY DEF LastDump, DataOut
<1>2. \A i \in DataOut : captured'[out[i].id] = captured[out[i].id]
  BY CapturedGrows DEF IdInv
<1> QED
  BY <1>1, <1>2 DEF NumberAt

\* A dump begins with nothing written.
LEMMA StartClears ==
    ASSUME BaseInv, Starts
    PROVE  LastDump' = {} /\ pc' = "dump"
<1>1. out' = out /\ dumpFrom' = Len(out) /\ pc' = "dump"
  BY DEF Starts, StartDump
<1>2. out \in Seq([id : Nat, bytes : Nat])
  BY DEF BaseInv, TypeInv, TypeOK, OutputOK
<1> QED
  BY <1>1, <1>2 DEF LastDump, DataOut

LEMMA NumberInvStep ==
    ASSUME BaseInv, IdInv, KeyInv, NumberInv, [Next]_vars
    PROVE  NumberInv'
<1> SUFFICES ASSUME Ordered PROVE NumberInv'
  BY DEF NumberInv, SortedByKey
<1> USE DEF BaseInv
<1>0. out \in Seq([id : Nat, bytes : Nat])
  BY DEF TypeInv, TypeOK, OutputOK
<1>1. CASE Rests \/ Return
  <2>1. UNCHANGED <<out, dumpFrom, heap, captured>> /\ (pc' = "dump" => pc = "dump")
    BY <1>1 DEF Rests, Return, history
  <2>2. LastDump' = LastDump /\ \A i \in LastDump : KeyAt(i)' = KeyAt(i)
    BY <2>1, NumbersStay DEF LastDump, KeyAt
  <2> QED
    BY <2>1, <2>2 DEF NumberInv, SortedByKey
<1>2. CASE Activate
  BY <1>2 DEF Activate, NumberInv, SortedByKey, LastDump, DataOut
<1>3. CASE Starts
  BY <1>3, StartClears DEF NumberInv, SortedByKey
<1>4. CASE Stores
  <2>1. UNCHANGED <<out, dumpFrom>> /\ pc' = "dispatch"
    BY <1>4 DEF Stores
  <2>2. LastDump' = LastDump /\ \A i \in LastDump : KeyAt(i)' = KeyAt(i)
    BY <1>4, <2>1, NumbersStay DEF LastDump, KeyAt
  <2> QED
    BY <2>1, <2>2 DEF NumberInv, SortedByKey
<1>5. CASE DumpPop
  <2>1. /\ pc = "dump" /\ captured' = captured
        /\ \A i \in DataOut : i <= Len(out) /\ out'[i] = out[i]
    BY <1>5, PopWrites
  <2>2. PICK n \in Tops : /\ n \in heap /\ heap' = heap \ {n}
                          /\ Wrote(n) \/ LastDump' = LastDump
    BY <1>5, PopWrites
  <2>3. \A i \in LastDump : i <= Len(out) /\ KeyAt(i)' = KeyAt(i)
    BY <2>1 DEF KeyAt, NumberAt, LastDump
  <2>4. \A m \in heap' : n.number <= m.number
    BY <2>2 DEF Tops
  <2>5. ASSUME NEW i \in LastDump', i \notin LastDump
        PROVE  Wrote(n) /\ i = Len(out') /\ KeyAt(i)' = n.number
    <3>1. Wrote(n) /\ i = Len(out')
      BY <2>2, <2>5 DEF Wrote
    <3> QED
      BY <2>1, <2>2, <3>1 DEF Wrote, KeyAt, NumberAt, KeyInv
  <2>6. \A i \in LastDump', m \in heap' : KeyAt(i)' <= m.number
    <3> TAKE i \in LastDump', m \in heap'
    <3>1. CASE i \in LastDump
      BY <2>1, <2>2, <2>3, <3>1 DEF NumberInv, SortedByKey
    <3>2. CASE i \notin LastDump
      BY <2>4, <2>5, <3>2
    <3> QED
      BY <3>1, <3>2
  <2>7. ASSUME NEW i \in LastDump', NEW j \in LastDump', i < j PROVE KeyAt(i)' <= KeyAt(j)'
    <3>1. CASE i \in LastDump /\ j \in LastDump
      BY <2>3, <2>7, <3>1 DEF NumberInv, SortedByKey
    <3>2. CASE i \in LastDump /\ j \notin LastDump
      <4>1. KeyAt(j)' = n.number
        BY <2>5, <3>2
      <4> QED
        BY <2>1, <2>2, <2>3, <3>2, <4>1 DEF NumberInv, SortedByKey
    <3>3. CASE i \notin LastDump
      <4>1. Wrote(n) /\ i = Len(out')
        BY <2>5, <3>3
      <4>2. Len(out') > Len(out) /\ Len(out) \in Nat /\ Len(out') \in Nat
        BY <1>5, <4>1, NextTypeInv DEF Wrote, TypeInv, TypeOK, OutputOK, Next, Receive, Dump
      <4>3. j = Len(out') \/ (j \in LastDump /\ j <= Len(out))
        BY <2>3, <4>1 DEF Wrote
      <4>4. j \in Nat
        BY <1>0, <4>2, <4>3 DEF LastDump, DataOut
      <4> QED
        BY <2>7, <4>1, <4>2, <4>3, <4>4
    <3> QED
      BY <3>1, <3>2, <3>3
  <2> QED
    BY <2>6, <2>7 DEF NumberInv, SortedByKey
<1> QED
  BY <1>1, <1>2, <1>3, <1>4, <1>5, OutputSteps

LEMMA OrderInvHolds == Spec => []OrderInv
<1>1. Init => IdInv /\ KeyInv /\ ArrivalOrderInv /\ NumberInv
  BY DEF Init, IdInv, KeyInv, ArrivalOrderInv, NumberInv, SortedByKey, LastDump, DataOut
<1>2. BaseInv /\ IdInv /\ KeyInv /\ ArrivalOrderInv /\ NumberInv /\ [Next]_vars
      => (IdInv /\ KeyInv /\ ArrivalOrderInv /\ NumberInv)'
  BY IdInvStep, KeyInvStep, ArrivalOrderInvStep, NumberInvStep
<1> QED
  BY <1>1, <1>2, BaseInvHolds, PTL DEF Spec, OrderInv

\* Whatever arrives, an ordered capture writes the frames of a dump in the order of their
\* keys, the int32_t of their numbers: those of the upper half of the uint32_t come first.
THEOREM OutputIsSortedByKey == Spec => []SortedByKey
<1>1. OrderInv => SortedByKey
  BY DEF OrderInv, NumberInv
<1> QED
  BY <1>1, OrderInvHolds, PTL

\* The number of what is written or waits, and the key of it.
LEMMA NumberTypes ==
    ASSUME BaseInv, IdInv
    PROVE  /\ \A i \in DataOut : i \in Nat /\ i <= Len(out) /\ NumberAt(i) \in Nat
           /\ \A n \in heap : n.number \in Int /\ captured[n.id] \in Frames
           /\ \A i \in DataOut : captured[out[i].id] \in Frames
           /\ expected \in Int /\ Len(out) \in Nat
<1>1. out \in Seq([id : Nat, bytes : Nat]) /\ expected \in Int
  BY DEF BaseInv, TypeInv, TypeOK, OutputOK, BufferOK
<1>2. /\ captured \in Seq(Frames) /\ Len(captured) \in Nat
      /\ Buffered \in Nat /\ Buffered <= Len(captured)
  BY BufferedType
<1>3. \A k \in 1..Buffered : captured[k] \in Frames
  BY <1>2
<1>4. \A i \in DataOut : captured[out[i].id] \in Frames
  BY <1>3 DEF IdInv
<1>5. \A i \in DataOut : NumberAt(i) \in Nat
  BY <1>4, FrameSizes DEF NumberAt
<1>6. \A i \in DataOut : i \in Nat /\ i <= Len(out)
  BY <1>1 DEF DataOut
<1>7. \A n \in heap : n.number \in Int /\ captured[n.id] \in Frames
  BY <1>3 DEF IdInv, BaseInv, TypeInv, TypeOK, BufferOK, NodeType
<1> QED
  BY <1>1, <1>4, <1>5, <1>6, <1>7

\* As long as the numbers fit, the keys are the numbers.
LEMMA KeysAreNumbers ==
    ASSUME KeysFit, Ordered, BaseInv, IdInv, KeyInv
    PROVE  /\ \A i \in DataOut : KeyAt(i) = NumberAt(i) /\ 2 * (NumberAt(i) + 1) < StatMod
           /\ \A n \in heap : /\ n.number = captured[n.id].number /\ n.number \in Nat
                              /\ 2 * (n.number + 1) < StatMod
                              /\ Signed(n.number + 1) = n.number + 1
<1>1. ASSUME NEW f \in Frames
      PROVE  /\ f.number \in Nat /\ 2 * (f.number + 1) < StatMod
             /\ Signed(f.number) = f.number /\ Signed(f.number + 1) = f.number + 1
  <2>1. f.number \in Nat /\ 2 * (f.number + 1) < StatMod
    BY FrameSizes DEF KeysFit
  <2>2. f.number + 1 \in Nat /\ 2 * f.number < StatMod
    BY <2>1, SizeAssumption
  <2> QED
    BY <2>1, <2>2, SignedFits
<1>2. ASSUME NEW i \in DataOut
      PROVE  KeyAt(i) = NumberAt(i) /\ 2 * (NumberAt(i) + 1) < StatMod
  BY <1>1, <1>2, NumberTypes DEF KeyAt, NumberAt
<1>3. ASSUME NEW n \in heap
      PROVE  /\ n.number = captured[n.id].number /\ n.number \in Nat
             /\ 2 * (n.number + 1) < StatMod /\ Signed(n.number + 1) = n.number + 1
  <2>1. captured[n.id] \in Frames /\ n.number = Signed(captured[n.id].number)
    BY NumberTypes DEF KeyInv
  <2> QED
    BY <1>1, <2>1
<1> QED
  BY <1>2, <1>3

\* The output is in order, however often the heap that sorts it was emptied and filled
\* again, and whatever writes failed: by frame number within a dump of an ordered
\* capture, by arrival over the whole of an unordered one, as long as the numbers, or
\* the count of the frames, stay clear of the sign bit.
THEOREM OutputIsOrdered == ASSUME KeysFit PROVE Spec => []OutputInOrder
<1>1. ASSUME OrderInv PROVE OutputInOrder
  <2>1. CASE ~Ordered
    BY <1>1, <2>1 DEF OrderInv, ArrivalOrderInv, OutputInOrder
  <2>2. CASE Ordered
    <3>1. \A i \in LastDump : KeyAt(i) = NumberAt(i)
      BY <1>1, <2>2, KeysAreNumbers DEF OrderInv, LastDump
    <3> QED
      BY <1>1, <2>2, <3>1 DEF OrderInv, NumberInv, SortedByKey, OutputInOrder
  <2> QED
    BY <2>1, <2>2
<1> QED
  BY <1>1, OrderInvHolds, PTL

-------------------------------------------------------------------------------
(* The place of a block behind noise.                                      *)

\* While a dump with noise is under way, the block written last ends the output, and
\* its number is the one before the number expected next.
AlignInv ==
    (Ordered /\ AddNoise /\ "write" \notin Faults)
    => /\ pc = "dump" /\ LastDump # {}
          => \E last \in LastDump : last = Len(out) /\ expected = NumberAt(last) + 1
       /\ NoiseAligns

LEMMA AlignInvStep ==
    ASSUME KeysFit, OrderInv, AlignInv, [Next]_vars
    PROVE  AlignInv'
<1> SUFFICES ASSUME Ordered, AddNoise, "write" \notin Faults PROVE AlignInv'
  BY DEF AlignInv
<1> USE DEF OrderInv
<1>1. CASE Rests \/ Return \/ Stores
  <2>0. UNCHANGED <<out, dumpFrom>> /\ (Stores \/ captured' = captured)
    BY <1>1 DEF Rests, Return, Stores, history
  <2>1. LastDump' = LastDump /\ \A i \in LastDump : NumberAt(i)' = NumberAt(i)
    BY <2>0, NumbersStay DEF LastDump
  <2>2. pc' = "dump" => pc = "dump" /\ expected' = expected
    BY <1>1 DEF Rests, Return, Stores
  <2>3. NoiseAligns'
    BY <2>1 DEF AlignInv, NoiseAligns
  <2> QED
    BY <2>0, <2>1, <2>2, <2>3 DEF AlignInv
<1>2. CASE Activate
  BY <1>2 DEF Activate, AlignInv, NoiseAligns, LastDump, DataOut
<1>3. CASE Starts
  BY <1>3, StartClears DEF AlignInv, NoiseAligns
<1>4. CASE DumpPop
  <2>1. /\ pc = "dump" /\ captured' = captured
        /\ \A i \in DataOut : out'[i] = out[i]
    BY <1>4, PopWrites
  <2>2. PICK n \in Tops : /\ n \in heap /\ expected' = Signed(n.number + 1)
                          /\ Wrote(n) /\ Len(out') = Len(out) + NoiseBlocks(n) + 1
    BY <1>4, PopWrites
  <2>10. /\ n.number = captured[n.id].number /\ n.number \in Nat
         /\ 2 * (n.number + 1) < StatMod /\ expected' = n.number + 1
         /\ \A i \in LastDump : KeyAt(i) = NumberAt(i)
    BY <2>2, KeysAreNumbers DEF LastDump
  <2>3. \A i \in LastDump : NumberAt(i)' = NumberAt(i)
    BY <2>1 DEF NumberAt, LastDump
  <2> DEFINE new == Len(out')
  <2>4. LastDump' = LastDump \cup {new} /\ new > Len(out)
    BY <2>2 DEF Wrote
  <2>5. ASSUME NEW i \in LastDump', i = new PROVE NumberAt(i)' = n.number
    BY <2>1, <2>2, <2>5, <2>10 DEF Wrote, NumberAt
  <2>6. /\ \A i \in LastDump : i \in Nat /\ i <= Len(out) /\ NumberAt(i) \in Nat
        /\ n.number \in Nat /\ Len(out) \in Nat /\ expected \in Int
    BY <2>2, <2>10, NumberTypes DEF LastDump
  <2>7. ASSUME NEW i \in LastDump,
               \A j, k \in LastDump' : NumberAt(j)' = NumberAt(k)' => j = k
        PROVE  new - i = n.number - NumberAt(i)
    <3>1. PICK last \in LastDump : last = Len(out) /\ expected = NumberAt(last) + 1
      BY <2>1, <2>7 DEF AlignInv
    <3>2. NumberAt(last) # n.number
      <4>1. last # new
        BY <2>4, <2>6, <3>1
      <4> QED
        BY <2>3, <2>4, <2>5, <2>7, <4>1
    <3>3. NumberAt(last) <= n.number
      BY <2>1, <2>2, <2>10, <3>1 DEF NumberInv
    <3>4. NoiseBlocks(n) = n.number - expected
      <4>1. n.number - expected \in Nat /\ 2 * (n.number - expected) < StatMod
        <5>1. NumberAt(last) \in Nat /\ n.number \in Nat /\ StatMod \in Nat
          BY <2>6, <3>1, SizeAssumption
        <5>2. expected \in Nat /\ expected <= n.number
          BY <3>1, <3>2, <3>3, <5>1
        <5>3. 2 * (n.number + 1) < StatMod
          BY <2>10
        <5> QED
          BY <5>1, <5>2, <5>3
      <4>2. Missing(n) = n.number - expected
        BY <4>1, SignedFits DEF Missing
      <4> QED
        BY <4>1, <4>2 DEF NoiseBlocks
    <3>5. new - last = n.number - NumberAt(last)
      BY <2>2, <2>6, <3>1, <3>4
    <3>6. last - i = NumberAt(last) - NumberAt(i)
      <4>1. \A j, k \in LastDump : NumberAt(j) = NumberAt(k) => j = k
        BY <2>3, <2>4, <2>7
      <4> QED
        BY <4>1 DEF AlignInv, NoiseAligns
    <3>7. new \in Int
      BY <2>2, <2>6, <3>4
    <3> QED
      BY <2>6, <3>5, <3>6, <3>7
  <2>8. NoiseAligns'
    <3> SUFFICES ASSUME \A j, k \in LastDump' : NumberAt(j)' = NumberAt(k)' => j = k,
                        NEW i \in LastDump', NEW j \in LastDump'
                 PROVE  i - j = NumberAt(i)' - NumberAt(j)'
      BY DEF NoiseAligns
    <3>0. new \in Int
      <4>1. NoiseBlocks(n) \in Nat
        BY <2>2, MissingType DEF BaseInv, TypeInv, TypeOK
      <4> QED
        BY <2>2, <2>6, <4>1
    <3>1. CASE i \in LastDump /\ j \in LastDump
      <4>1. \A k, l \in LastDump : NumberAt(k) = NumberAt(l) => k = l
        BY <2>3, <2>4
      <4> QED
        BY <2>3, <3>1, <4>1 DEF AlignInv, NoiseAligns
    <3>2. CASE i = new /\ j = new
      BY <2>5, <2>6, <3>0, <3>2
    <3>3. CASE i = new /\ j \in LastDump
      BY <2>3, <2>5, <2>7, <3>3
    <3>4. CASE i \in LastDump /\ j = new
      <4>1. new - i = n.number - NumberAt(i)
        BY <2>7, <3>4
      <4> QED
        BY <2>3, <2>5, <2>6, <3>0, <3>4, <4>1
    <3> QED
      BY <2>4, <3>1, <3>2, <3>3, <3>4
  <2>9. \E last \in LastDump' : last = Len(out') /\ expected' = NumberAt(last)' + 1
    BY <2>4, <2>5, <2>10
  <2> QED
    BY <2>8, <2>9 DEF AlignInv
<1> QED
  BY <1>1, <1>2, <1>3, <1>4, OutputSteps DEF BaseInv

\* Noise keeps every block in its place relative to the first of the dump, when no frame
\* came twice and no write fails: the blocks of noise written before a block are exactly
\* the numbers that are missing before it, as long as the numbers stay clear of the sign
\* bit.
THEOREM NoiseIsAligned == ASSUME KeysFit PROVE Spec => []NoiseAligns
<1>1. Init => AlignInv
  BY DEF Init, AlignInv, NoiseAligns, LastDump, DataOut
<1>2. AlignInv => NoiseAligns
  BY DEF AlignInv, NoiseAligns
<1> QED
  BY <1>1, <1>2, AlignInvStep, OrderInvHolds, PTL DEF Spec

-------------------------------------------------------------------------------
(* What a capture that returned left behind, and the balance of its bytes. *)

\* A finite set of nodes laid out in a row, with the bytes of payload up to each.
Tally(h, N, e, sum) ==
    /\ e \in [1..N -> h] /\ sum \in [0..N -> Int]
    /\ \A j, k \in 1..N : e[j] = e[k] => j = k
    /\ \A n \in h : \E k \in 1..N : e[k] = n
    /\ sum[0] = 0
    /\ \A k \in 1..N : sum[k] = sum[k - 1] + PayloadSize(e[k])

\* The nodes of h hold total bytes of payload.
HoldsBytes(h, total) == \E N \in Nat : \E e, sum : Tally(h, N, e, sum) /\ sum[N] = total

LEMMA EmptyHoldsNothing ==
    /\ HoldsBytes({}, 0)
    /\ \A total : HoldsBytes({}, total) => total = 0
<1>1. HoldsBytes({}, 0)
  <2> DEFINE e == [k \in 1..0 |-> 0]
             sum == [k \in 0..0 |-> 0]
  <2>1. 1..0 = {} /\ 0..0 = {0}
    OBVIOUS
  <2>2. e \in [1..0 -> {}] /\ sum \in [0..0 -> Int] /\ sum[0] = 0
    BY <2>1
  <2>3. Tally({}, 0, e, sum)
    BY <2>1, <2>2 DEF Tally
  <2> HIDE DEF e, sum
  <2> QED
    BY <2>2, <2>3 DEF HoldsBytes
<1>2. ASSUME NEW total, HoldsBytes({}, total) PROVE total = 0
  <2>1. PICK N \in Nat : \E e, sum : Tally({}, N, e, sum) /\ sum[N] = total
    BY <1>2 DEF HoldsBytes
  <2>2. PICK e, sum : Tally({}, N, e, sum) /\ sum[N] = total
    BY <2>1
  <2>3. N = 0
    <3> SUFFICES ASSUME N # 0 PROVE FALSE
      OBVIOUS
    <3>1. 1 \in 1..N
      OBVIOUS
    <3> QED
      BY <2>2, <3>1 DEF Tally
  <2> QED
    BY <2>2, <2>3 DEF Tally
<1> QED
  BY <1>1, <1>2

LEMMA AddHoldsMore ==
    ASSUME NEW h, NEW total, HoldsBytes(h, total), NEW n, n \notin h, PayloadSize(n) \in Int
    PROVE  HoldsBytes(h \cup {n}, total + PayloadSize(n))
<1>1. PICK N \in Nat : \E e, sum : Tally(h, N, e, sum) /\ sum[N] = total
  BY DEF HoldsBytes
<1>2. PICK e, sum : Tally(h, N, e, sum) /\ sum[N] = total
  BY <1>1
<1> DEFINE M == N + 1
           size == PayloadSize(n)
           e2 == [k \in 1..M |-> IF k = M THEN n ELSE e[k]]
           sum2 == [k \in 0..M |-> IF k = M THEN sum[N] + size ELSE sum[k]]
<1>3. M \in Nat /\ (\A k \in 1..M : k = M \/ k \in 1..N) /\ (\A k \in 0..M : k = M \/ k \in 0..N)
      /\ N \in 0..N /\ M \notin 1..N /\ 0 # M /\ M \in 1..M /\ 0 \in 0..M /\ M \in 0..M
      /\ 1..N \subseteq 1..M
  OBVIOUS
<1>4. e2 \in [1..M -> h \cup {n}]
  BY <1>2, <1>3 DEF Tally
<1>5. sum2 \in [0..M -> Int] /\ sum2[0] = 0 /\ sum2[M] = total + size
  BY <1>2, <1>3 DEF Tally
<1>6. \A j, k \in 1..M : e2[j] = e2[k] => j = k
  BY <1>2, <1>3 DEF Tally
<1>7. \A m \in h \cup {n} : \E k \in 1..M : e2[k] = m
  <2> TAKE m \in h \cup {n}
  <2>1. CASE m = n
    BY <1>3, <2>1
  <2>2. CASE m \in h
    <3>1. PICK k \in 1..N : e[k] = m
      BY <1>2, <2>2 DEF Tally
    <3>2. k \in 1..M /\ e2[k] = m
      BY <1>3, <3>1
    <3> QED
      BY <3>2
  <2> QED
    BY <2>1, <2>2
<1>8. \A k \in 1..M : sum2[k] = sum2[k - 1] + PayloadSize(e2[k])
  <2> TAKE k \in 1..M
  <2>1. CASE k = M
    <3>1. k - 1 = N /\ k - 1 \in 0..M /\ k - 1 # M
      BY <2>1
    <3>2. sum2[k - 1] = sum[N] /\ sum2[k] = sum[N] + size /\ e2[k] = n
      BY <1>3, <2>1, <3>1
    <3> QED
      BY <3>2
  <2>2. CASE k # M
    <3>1. k \in 1..N /\ k - 1 \in 0..M /\ k - 1 # M /\ k \in 0..M
      BY <2>2
    <3>2. sum2[k - 1] = sum[k - 1] /\ sum2[k] = sum[k] /\ e2[k] = e[k]
      BY <2>2, <3>1
    <3> QED
      BY <1>2, <3>1, <3>2 DEF Tally
  <2> QED
    BY <2>1, <2>2
<1>9. Tally(h \cup {n}, M, e2, sum2)
  BY <1>4, <1>5, <1>6, <1>7, <1>8 DEF Tally
<1> HIDE DEF e2, sum2
<1> QED
  BY <1>3, <1>5, <1>9 DEF HoldsBytes

\* Whichever node is taken out: those behind it in the row move up.
LEMMA RemoveHoldsLess ==
    ASSUME NEW h, NEW total, HoldsBytes(h, total), NEW n \in h,
           \A m \in h : PayloadSize(m) \in Int
    PROVE  HoldsBytes(h \ {n}, total - PayloadSize(n))
<1>1. PICK N \in Nat : \E e, sum : Tally(h, N, e, sum) /\ sum[N] = total
  BY DEF HoldsBytes
<1>2. PICK e, sum : Tally(h, N, e, sum) /\ sum[N] = total
  BY <1>1
<1>3. PICK j \in 1..N : e[j] = n
  BY <1>2 DEF Tally
<1> DEFINE M == N - 1
           size == PayloadSize(n)
           e2 == [k \in 1..M |-> IF k < j THEN e[k] ELSE e[k + 1]]
           sum2 == [k \in 0..M |-> IF k < j THEN sum[k] ELSE sum[k + 1] - size]
<1>4. M \in Nat /\ size \in Int /\ j \in Nat /\ N \in 0..N
  BY <1>3
<1>5. \A k \in 1..M : k \in 1..N /\ k + 1 \in 1..N /\ k \in 0..M /\ k - 1 \in 0..M
  OBVIOUS
<1>6. \A k \in 0..M : k \in 0..N /\ k + 1 \in 0..N
  OBVIOUS
<1>7. \A k \in 1..M : e2[k] \in h /\ e2[k] # n
  <2> TAKE k \in 1..M
  <2>1. PICK k2 \in {k, k + 1} : e2[k] = e[k2] /\ (k2 = k <=> k < j)
    OBVIOUS
  <2>2. k2 \in 1..N /\ k2 # j
    BY <1>4, <1>5, <2>1
  <2> QED
    BY <1>2, <1>3, <2>1, <2>2 DEF Tally
<1>8. e2 \in [1..M -> h \ {n}]
  BY <1>7
<1>9. sum2 \in [0..M -> Int]
  <2>1. \A k \in 0..N : sum[k] \in Int
    BY <1>2 DEF Tally
  <2>2. \A k \in 0..M : sum[k] \in Int /\ sum[k + 1] - size \in Int
    BY <1>4, <1>6, <2>1
  <2> QED
    BY <2>2
<1>10. sum2[0] = 0
  BY <1>2, <1>3, <1>4 DEF Tally
<1>11. \A k, l \in 1..M : e2[k] = e2[l] => k = l
  <2> SUFFICES ASSUME NEW k \in 1..M, NEW l \in 1..M, e2[k] = e2[l] PROVE k = l
    OBVIOUS
  <2>1. PICK k2 \in {k, k + 1} : e2[k] = e[k2] /\ (k2 = k <=> k < j)
    OBVIOUS
  <2>2. PICK l2 \in {l, l + 1} : e2[l] = e[l2] /\ (l2 = l <=> l < j)
    OBVIOUS
  <2>3. k2 = l2
    BY <1>2, <1>5, <2>1, <2>2 DEF Tally
  <2> QED
    BY <1>4, <2>1, <2>2, <2>3
<1>12. \A m \in h \ {n} : \E k \in 1..M : e2[k] = m
  <2> TAKE m \in h \ {n}
  <2>1. PICK k \in 1..N : e[k] = m
    BY <1>2 DEF Tally
  <2>2. k # j
    BY <1>3, <2>1
  <2>3. CASE k < j
    <3>1. k \in 1..M /\ e2[k] = m
      BY <1>3, <2>1, <2>3
    <3> QED
      BY <3>1
  <2>4. CASE k > j
    <3>1. k - 1 \in 1..M /\ ~(k - 1 < j) /\ (k - 1) + 1 = k
      BY <1>3, <2>4
    <3>2. e2[k - 1] = m
      BY <2>1, <3>1
    <3> QED
      BY <3>1, <3>2
  <2> QED
    BY <1>4, <2>2, <2>3, <2>4
<1>13. \A k \in 1..M : sum2[k] = sum2[k - 1] + PayloadSize(e2[k])
  <2> TAKE k \in 1..M
  <2>0. /\ sum[k] = sum[k - 1] + PayloadSize(e[k])
        /\ sum[k + 1] = sum[k] + PayloadSize(e[k + 1])
    <3>1. (k + 1) - 1 = k
      OBVIOUS
    <3> QED
      BY <1>2, <1>5, <3>1 DEF Tally
  <2>00. /\ sum[k] \in Int /\ sum[k - 1] \in Int /\ PayloadSize(e[k]) \in Int
         /\ PayloadSize(e[k + 1]) \in Int
    <3>1. e[k] \in h /\ e[k + 1] \in h
      BY <1>2, <1>5 DEF Tally
    <3>2. k \in 0..N /\ k - 1 \in 0..N
      OBVIOUS
    <3>3. sum[k] \in Int /\ sum[k - 1] \in Int
      BY <1>2, <3>2 DEF Tally
    <3> QED
      BY <3>1, <3>3
  <2>1. CASE k < j
    <3>1. k - 1 < j
      BY <2>1
    <3>2. sum2[k] = sum[k] /\ sum2[k - 1] = sum[k - 1] /\ e2[k] = e[k]
      BY <1>5, <2>1, <3>1
    <3> QED
      BY <2>0, <3>2
  <2>2. CASE k = j
    <3>1. k - 1 < j /\ ~(k < j)
      BY <2>2
    <3>2. sum2[k] = sum[k + 1] - size /\ sum2[k - 1] = sum[k - 1] /\ e2[k] = e[k + 1]
      BY <1>5, <2>2, <3>1
    <3> QED
      BY <1>3, <1>4, <2>0, <2>00, <2>2, <3>2
  <2>3. CASE k > j
    <3>1. ~(k - 1 < j) /\ ~(k < j) /\ (k - 1) + 1 = k
      BY <2>3
    <3>2. sum2[k] = sum[k + 1] - size /\ sum2[k - 1] = sum[k] - size /\ e2[k] = e[k + 1]
      BY <1>5, <3>1
    <3> QED
      BY <1>4, <2>0, <2>00, <3>2
  <2> QED
    BY <1>4, <2>1, <2>2, <2>3
<1>14. sum2[M] = total - size
  <2>1. M \in 0..M /\ M + 1 = N
    BY <1>4
  <2>2. CASE M < j
    <3>1. N = j /\ sum2[M] = sum[M] /\ sum[N] = sum[M] + size /\ sum[M] \in Int
      BY <1>2, <1>3, <1>4, <2>1, <2>2 DEF Tally
    <3> QED
      BY <1>2, <1>4, <3>1
  <2>3. CASE ~(M < j)
    BY <1>2, <2>1, <2>3
  <2> QED
    BY <2>2, <2>3
<1>15. Tally(h \ {n}, M, e2, sum2)
  BY <1>8, <1>9, <1>10, <1>11, <1>12, <1>13 DEF Tally
<1> HIDE DEF e2, sum2, M
<1> QED
  BY <1>4, <1>14, <1>15 DEF HoldsBytes

\* A remainder may be taken before or after something is added.
LEMMA SumsWrap ==
    ASSUME NEW a \in Int, NEW b \in Int
    PROVE  ((a % StatMod) + b) % StatMod = (a + b) % StatMod
<1> DEFINE M == StatMod
           q == a \div M
           r == a % M
           p == (r + b) \div M
           u == (r + b) % M
           o == (a + b) \div M
           v == (a + b) % M
<1>0. M \in Nat /\ M > 0
  BY SizeAssumption
<1> HIDE DEF M
<1>1. q \in Int /\ r \in 0..(M - 1) /\ a = M * q + r
  BY <1>0
<1>2. p \in Int /\ u \in 0..(M - 1) /\ r + b = M * p + u
  BY <1>0, <1>1
<1>3. o \in Int /\ v \in 0..(M - 1) /\ a + b = M * o + v
  BY <1>0
<1> HIDE DEF q, r, p, u, o, v
<1>4. M * (q + p) + u = M * o + v
  <2>1. M * (q + p) = M * q + M * p
    BY <1>0, <1>1, <1>2
  <2>2. M * q \in Int /\ M * p \in Int /\ M * o \in Int
    BY <1>0, <1>1, <1>2, <1>3
  <2> QED
    BY <1>1, <1>2, <1>3, <2>1, <2>2
<1>5. PICK k \in Int : k = q + p - o
  BY <1>1, <1>2, <1>3
<1>6. M * k = v - u
  <2>1. M * (q + p) = M * o + M * k
    BY <1>0, <1>1, <1>2, <1>3, <1>5
  <2>2. M * o \in Int /\ M * k \in Int
    BY <1>0, <1>3, <1>5
  <2> QED
    BY <1>2, <1>3, <1>4, <2>1, <2>2
<1>7. k = 0
  <2>1. CASE k >= 1
    <3>1. M * k >= M
      BY <1>0, <1>5, <2>1
    <3> QED
      BY <1>0, <1>2, <1>3, <1>6, <3>1
  <2>2. CASE k <= -1
    <3>1. M * k <= -M
      BY <1>0, <1>5, <2>2
    <3> QED
      BY <1>0, <1>2, <1>3, <1>6, <3>1
  <2> QED
    BY <1>5, <2>1, <2>2
<1>8. u = v
  BY <1>0, <1>2, <1>3, <1>6, <1>7
<1> QED
  BY <1>8 DEF u, v, r, M

\* What was received is what was written and what still waits.
BalanceInv ==
    "write" \notin Faults =>
        \E total \in Int : HoldsBytes(heap, total) /\ payloadSize = (writelen + total) % StatMod

\* A capture that returned leaves the buffer empty.
EmptyInv == pc = "idle" => heap = {} /\ index = 0 /\ pending = NoFrame

LEMMA EmptyInvStep == BaseInv /\ EmptyInv /\ [Next]_vars => EmptyInv'
<1> SUFFICES ASSUME BaseInv, EmptyInv, [Next]_vars PROVE EmptyInv'
  OBVIOUS
<1>1. CASE Rests
  BY <1>1 DEF Rests, EmptyInv
<1>2. CASE Return
  BY <1>2 DEF Return, EmptyInv
<1>3. CASE Activate \/ Starts \/ Stores \/ DumpPop
  BY <1>3 DEF Activate, Starts, StartDump, Stores, DumpPop, EmptyInv
<1> QED
  BY <1>1, <1>2, <1>3, OutputSteps DEF BaseInv

LEMMA BalanceInvStep ==
    ASSUME BaseInv, IdInv, HeapFits, BalanceInv, [Next]_vars
    PROVE  BalanceInv'
<1> SUFFICES ASSUME "write" \notin Faults PROVE BalanceInv'
  BY DEF BalanceInv
<1> USE DEF BaseInv
<1>0. /\ writelen \in Int /\ Buffered \in Nat
      /\ \A n \in heap : PayloadSize(n) \in Int
  BY SizeAssumption DEF CountInv, TypeInv, TypeOK, StatsOK, BufferOK, NodeType, PayloadSize
<1>1. PICK total \in Int : HoldsBytes(heap, total) /\ payloadSize = (writelen + total) % StatMod
  BY DEF BalanceInv
<1>2. CASE Rests \/ Starts \/ Return
  <2>1. UNCHANGED <<heap, payloadSize, writelen>>
    BY <1>2 DEF Rests, Starts, Return, stats
  <2> QED
    BY <1>1, <2>1 DEF BalanceInv
<1>3. CASE Activate
  <2>1. heap' = {} /\ payloadSize' = 0 /\ writelen' = 0
    BY <1>3 DEF Activate
  <2>2. (0 + 0) % StatMod = 0
    BY SizeAssumption
  <2> QED
    BY <2>1, <2>2, EmptyHoldsNothing DEF BalanceInv
<1>4. CASE Stores
  <2>1. PICK f \in Frames, at \in Nat : BufferFrame(f, at, Buffered + 1)
    BY <1>4 DEF Stores
  <2> DEFINE node == NodeOf(f, at, Buffered + 1)
  <2>2. heap' = heap \cup {node} /\ payloadSize' = (payloadSize + PayloadSize(f)) % StatMod
    BY <2>1 DEF BufferFrame, NodeOf, HeapFits, AddStat
  <2>3. PayloadSize(node) = PayloadSize(f) /\ PayloadSize(f) \in Int /\ node.id = Buffered + 1
    BY FrameSizes DEF NodeOf, PayloadSize
  <2>4. node \notin heap
    BY <1>0, <2>3 DEF IdInv
  <2>5. HoldsBytes(heap', total + PayloadSize(f))
    BY <1>1, <2>2, <2>3, <2>4, AddHoldsMore
  <2>6. payloadSize' = (writelen' + (total + PayloadSize(f))) % StatMod
    <3>1. writelen' = writelen
      BY <1>4 DEF Stores
    <3>2. (((writelen + total) % StatMod) + PayloadSize(f)) % StatMod
            = ((writelen + total) + PayloadSize(f)) % StatMod
      BY <1>0, <2>3, SumsWrap
    <3>3. (writelen + total) + PayloadSize(f) = writelen + (total + PayloadSize(f))
      BY <1>0, <2>3
    <3> QED
      BY <1>1, <2>2, <3>1, <3>2, <3>3
  <2> QED
    BY <2>3, <2>5, <2>6 DEF BalanceInv
<1>5. CASE DumpPop
  <2>1. PICK n \in Tops : \E noise \in NoiseWrites(NoiseBlocks(n)),
                             nbytes \in WriteResults(n.len - HdrSize) : WriteNode(n, noise, nbytes)
    BY <1>5 DEF DumpPop
  <2>2. /\ n \in heap /\ heap' = heap \ {n} /\ payloadSize' = payloadSize
        /\ writelen' = (writelen + PayloadSize(n)) % StatMod
    BY <1>5, <2>1 DEF DumpPop, Tops, WriteNode, WriteResults, AddStat, PayloadSize
  <2>3. HoldsBytes(heap', total - PayloadSize(n)) /\ PayloadSize(n) \in Int
    BY <1>0, <1>1, <2>2, RemoveHoldsLess
  <2>4. (((writelen + PayloadSize(n)) % StatMod) + (total - PayloadSize(n))) % StatMod
          = ((writelen + PayloadSize(n)) + (total - PayloadSize(n))) % StatMod
    BY <1>0, <2>3, SumsWrap
  <2>5. (writelen + PayloadSize(n)) + (total - PayloadSize(n)) = writelen + total
    BY <1>0, <2>3
  <2>6. payloadSize' = (writelen' + (total - PayloadSize(n))) % StatMod
    BY <1>1, <2>2, <2>4, <2>5
  <2>7. total - PayloadSize(n) \in Int
    BY <2>3
  <2> QED
    BY <2>3, <2>6, <2>7 DEF BalanceInv
<1> QED
  BY <1>2, <1>3, <1>4, <1>5, OutputSteps

\* A capture that returned leaves nothing behind, whatever ended it, and when no write
\* failed it wrote as many bytes as it received payload (modulo the counters' width),
\* provided that no captured frame is shorter than the smallest block or longer than the
\* buffer.
THEOREM CaptureIsFlushed == ASSUME NoShortFrames, FramesFit PROVE Spec => []FlushedOnReturn
<1>1. Init => EmptyInv /\ BalanceInv
  <2> SUFFICES ASSUME Init PROVE BalanceInv
    BY DEF Init, EmptyInv
  <2>1. (0 + 0) % StatMod = 0
    BY SizeAssumption
  <2> QED
    BY <2>1, EmptyHoldsNothing DEF Init, BalanceInv
<1>2. BaseInv /\ EmptyInv /\ BalanceInv => FlushedOnReturn
  <2> SUFFICES ASSUME BaseInv, EmptyInv, BalanceInv, pc = "idle", "write" \notin Faults
               PROVE  writelen = payloadSize
    BY DEF EmptyInv, FlushedOnReturn
  <2>1. PICK total \in Int : HoldsBytes(heap, total) /\ payloadSize = (writelen + total) % StatMod
    BY DEF BalanceInv
  <2>2. total = 0
    BY <2>1, EmptyHoldsNothing DEF EmptyInv
  <2>3. writelen \in 0..(StatMod - 1)
    BY DEF BaseInv, TypeInv, TypeOK, StatsOK
  <2>4. writelen % StatMod = writelen
    BY <2>3, SizeAssumption
  <2> QED
    BY <2>1, <2>2, <2>3, <2>4
<1>3. BaseInv /\ OrderInv /\ HeapFits /\ EmptyInv /\ BalanceInv /\ [Next]_vars
      => (EmptyInv /\ BalanceInv)'
  BY EmptyInvStep, BalanceInvStep DEF OrderInv
<1> QED
  BY <1>1, <1>2, <1>3, BaseInvHolds, OrderInvHolds, HeapNeverFull, PTL DEF Spec

-------------------------------------------------------------------------------
(* The count of the losses.                                                *)

\* No id is in two places of the output, or waits and has been written.
OnceInv ==
    /\ \A i \in DataOut, n \in heap : out[i].id # n.id
    /\ \A i, j \in DataOut : out[i].id = out[j].id => i = j

LEMMA OnceInvStep ==
    ASSUME BaseInv, IdInv, OnceInv, [Next]_vars
    PROVE  OnceInv'
<1>1. CASE Rests \/ Return \/ Starts
  BY <1>1 DEF Rests, Return, Starts, OnceInv, DataOut, history
<1>2. CASE Activate
  BY <1>2 DEF Activate, OnceInv, DataOut
<1>3. CASE Stores
  <2>1. PICK f \in Frames, at \in Nat : BufferFrame(f, at, Buffered + 1)
    BY <1>3 DEF Stores
  <2>2. /\ heap' = heap \/ heap' = heap \cup {NodeOf(f, at, Buffered + 1)}
        /\ NodeOf(f, at, Buffered + 1).id = Buffered + 1
    BY <2>1 DEF BufferFrame, NodeOf
  <2>3. UNCHANGED <<out, DataOut>>
    BY <1>3 DEF Stores, DataOut
  <2>4. \A i \in DataOut : out[i].id # Buffered + 1
    BY BufferedType DEF IdInv
  <2> QED
    BY <2>2, <2>3, <2>4 DEF OnceInv
<1>4. CASE DumpPop
  <2>1. \A i \in DataOut : out'[i] = out[i]
    BY <1>4, PopWrites
  <2>2. PICK n \in Tops : /\ n \in heap /\ heap' = heap \ {n}
                          /\ Wrote(n) \/ DataOut' = DataOut
    BY <1>4, PopWrites
  <2>3. \A m \in heap' : m.id # n.id
    BY <2>2 DEF IdInv
  <2>4. \A i \in DataOut' : (i \in DataOut /\ out'[i].id # n.id)
                            \/ (i = Len(out') /\ out'[i].id = n.id)
    BY <2>1, <2>2 DEF Wrote, OnceInv
  <2> QED
    BY <2>1, <2>2, <2>3, <2>4 DEF OnceInv
<1> QED
  BY <1>1, <1>2, <1>3, <1>4, OutputSteps DEF BaseInv

\* Nothing is counted as lost before something was written.
FreshInv == out = << >> /\ failed = {} => blocksLost = 0

LEMMA FreshInvStep ==
    ASSUME BaseInv, IdInv, FreshInv, [Next]_vars
    PROVE  FreshInv'
<1>1. CASE Rests \/ Return \/ Starts \/ Stores
  BY <1>1 DEF Rests, Return, Starts, Stores, FreshInv, stats, history
<1>2. CASE Activate
  BY <1>2 DEF Activate, FreshInv
<1>3. CASE DumpPop
  <2>1. PICK n \in Tops : Wrote(n) \/ n.id \in failed'
    BY <1>3, PopWrites
  <2>2. Wrote(n) => out' # << >>
    <3> SUFFICES ASSUME Wrote(n), out' = << >> PROVE FALSE
      OBVIOUS
    <3>1. Len(out') = 0 /\ Len(out) \in Nat
      BY DEF BaseInv, TypeInv, TypeOK, OutputOK
    <3> QED
      BY <3>1 DEF Wrote
  <2> QED
    BY <2>1, <2>2 DEF FreshInv
<1> QED
  BY <1>1, <1>2, <1>3, OutputSteps DEF BaseInv

\* The numbers written, and those between them that never came.
NumbersOut == {NumberAt(i) : i \in DataOut}
Between(got, top) == {k \in 0..top : k \notin got /\ \E a, b \in got : a < k /\ k < b}

\* A number is written that is not below the one expected: the gap before it is new.
LEMMA GapIsCounted ==
    ASSUME NEW got \in SUBSET Nat, NEW last \in got, \A k \in got : k <= last,
           NEW number \in Nat, number > last
    PROVE  /\ IsFiniteSet(Between(got, last + 1))
           /\ Cardinality(Between(got \cup {number}, number + 1))
                = Cardinality(Between(got, last + 1)) + (number - (last + 1))
           /\ Cardinality(Between(got \cup {number}, number + 1)) <= number
<1> DEFINE old == Between(got, last + 1)
           new == Between(got \cup {number}, number + 1)
           gap == (last + 1)..(number - 1)
<1>1. new = old \cup gap
  <2>1. ASSUME NEW k \in new PROVE k \in old \cup gap
    <3>1. PICK a \in got \cup {number}, b \in got \cup {number} : a < k /\ k < b
      BY <2>1 DEF Between
    <3>2. k \in Nat /\ k \notin got /\ k # number
      BY <2>1 DEF Between
    <3>3. CASE k > last
      <4>1. b = number
        BY <3>1, <3>2, <3>3
      <4> QED
        BY <3>1, <3>2, <3>3, <4>1
    <3>4. CASE k <= last
      <4>1. k < last /\ a \in got
        BY <3>1, <3>2, <3>4
      <4> QED
        BY <3>1, <3>2, <4>1 DEF Between
    <3> QED
      BY <3>2, <3>3, <3>4
  <2>2. ASSUME NEW k \in old PROVE k \in new
    <3>1. PICK a \in got, b \in got : a < k /\ k < b
      BY <2>2 DEF Between
    <3>2. k \in Nat /\ k \notin got /\ k < number
      BY <2>2, <3>1 DEF Between
    <3> QED
      BY <3>1, <3>2 DEF Between
  <2>3. ASSUME NEW k \in gap PROVE k \in new
    <3>1. k \in Nat /\ k > last /\ k < number /\ k \notin got
      BY <2>3
    <3> QED
      BY <3>1 DEF Between
  <2> QED
    BY <2>1, <2>2, <2>3
<1>2. old \cap gap = {}
  BY DEF Between
<1>3. old \subseteq 0..(last + 1) /\ new \subseteq 0..(number - 1)
  <2>1. old \subseteq 0..(last + 1)
    BY DEF Between
  <2>2. \A k \in new : k \in Nat /\ k < number
    BY DEF Between
  <2> QED
    BY <2>1, <2>2
<1> HIDE DEF old, new
<1>4. /\ IsFiniteSet(0..(last + 1)) /\ IsFiniteSet(0..(number - 1)) /\ IsFiniteSet(gap)
      /\ Cardinality(0..(number - 1)) = number /\ Cardinality(gap) = number - (last + 1)
  BY FS_Interval
<1>5. IsFiniteSet(old) /\ Cardinality(old) \in Nat
  BY <1>3, <1>4, FS_Subset, FS_CardinalityType
<1>6. Cardinality(new) = Cardinality(old) + Cardinality(gap)
  <2>1. Cardinality(old \cup gap)
          = Cardinality(old) + Cardinality(gap) - Cardinality(old \cap gap)
    BY <1>4, <1>5, FS_Union
  <2>2. Cardinality(old \cap gap) = 0
    BY <1>2, FS_EmptySet
  <2>3. Cardinality(gap) \in Int
    BY <1>4
  <2>4. Cardinality(new) = Cardinality(old \cup gap)
    BY <1>1
  <2> HIDE DEF gap
  <2> QED
    BY <1>5, <2>1, <2>2, <2>3, <2>4
<1>7. Cardinality(new) <= number
  BY <1>3, <1>4, FS_Subset
<1> QED
  BY <1>4, <1>5, <1>6, <1>7 DEF old, new

\* While a capture is written in its first dump and no write fails, the losses counted are
\* the numbers missing up to the one written last, which is the one before the expected.
LossInv ==
    (/\ Ordered /\ dumpFrom = 0 /\ failed = {} /\ pc \in {"dump", "idle"}
     /\ \A i, j \in DataOut : NumberAt(i) = NumberAt(j) => i = j)
    => /\ DataOut = {} => blocksLost = 0 /\ \A n \in Tops : expected = n.number
       /\ DataOut # {} => /\ blocksLost = Cardinality(Between(NumbersOut, expected))
                          /\ \E last \in DataOut :
                               /\ expected = NumberAt(last) + 1
                               /\ \A i \in DataOut : NumberAt(i) <= NumberAt(last)

LEMMA LossInvPop ==
    ASSUME KeysFit, OrderInv, OnceInv, LossInv, DumpPop
    PROVE  LossInv'
<1> USE DEF OrderInv
<1> SUFFICES ASSUME Ordered, dumpFrom' = 0, failed' = {},
                    \A i, j \in DataOut' : NumberAt(i)' = NumberAt(j)' => i = j
             PROVE  /\ DataOut' # {}
                    /\ blocksLost' = Cardinality(Between(NumbersOut', expected'))
                    /\ \E last \in DataOut' :
                         /\ expected' = NumberAt(last)' + 1
                         /\ \A i \in DataOut' : NumberAt(i)' <= NumberAt(last)'
  BY DEF LossInv
<1>1. /\ pc = "dump" /\ captured' = captured /\ dumpFrom = 0 /\ failed = {}
      /\ \A i \in DataOut : i <= Len(out) /\ out'[i] = out[i]
  BY PopWrites
<1>2. PICK n \in Tops : /\ n \in heap /\ expected' = Signed(n.number + 1)
                        /\ blocksLost' = AddStat(blocksLost, Missing(n))
                        /\ Wrote(n)
  BY PopWrites
<1> DEFINE new == Len(out')
<1>3. DataOut' = DataOut \cup {new} /\ new > Len(out)
  BY <1>2 DEF Wrote
<1>4. \A i \in DataOut : i \in Nat /\ NumberAt(i) \in Nat /\ NumberAt(i)' = NumberAt(i)
  BY <1>1, NumberTypes DEF NumberAt
<1>0. /\ n.number = captured[n.id].number /\ n.number \in Nat
      /\ 2 * (n.number + 1) < StatMod /\ Signed(n.number + 1) = n.number + 1
      /\ \A i \in DataOut : KeyAt(i) = NumberAt(i)
  BY <1>2, KeysAreNumbers
<1>5. \A i \in DataOut' : i \in DataOut \/ (i = new /\ NumberAt(i)' = n.number)
  <2>1. ASSUME NEW i \in DataOut', i = new PROVE NumberAt(i)' = n.number
    BY <1>0, <1>1, <1>2, <2>1 DEF Wrote, NumberAt
  <2> QED
    BY <1>3, <2>1
<1>6. /\ n.number \in Nat /\ expected \in Int /\ StatMod \in Nat \ {0}
      /\ 2 * (n.number + 1) < StatMod /\ expected' = n.number + 1
      /\ \A i \in DataOut : KeyAt(i) = NumberAt(i)
  BY <1>2, <1>0, NumberTypes, SizeAssumption
<1>7. NumbersOut' = NumbersOut \cup {n.number}
  <2>1. ASSUME NEW k \in NumbersOut' PROVE k \in NumbersOut \cup {n.number}
    BY <1>4, <1>5, <2>1 DEF NumbersOut
  <2>2. ASSUME NEW k \in NumbersOut PROVE k \in NumbersOut'
    BY <1>3, <1>4, <2>2 DEF NumbersOut
  <2>3. n.number \in NumbersOut'
    <3>1. new \in DataOut' /\ new \notin DataOut
      <4>1. new \notin DataOut
        <5>1. new \in Nat /\ Len(out) \in Nat
          BY NextTypeInv DEF BaseInv, TypeInv, TypeOK, OutputOK, Next, Receive, Dump
        <5> QED
          BY <1>1, <1>3, <5>1
      <4> QED
        BY <1>3, <4>1
    <3>2. \E i \in DataOut' : NumberAt(i)' = n.number
      BY <1>5, <3>1
    <3> QED
      BY <3>2 DEF NumbersOut
  <2> QED
    BY <2>1, <2>2, <2>3
<1>8. \A i, j \in DataOut : NumberAt(i) = NumberAt(j) => i = j
  BY <1>3, <1>4
<1>9. CASE DataOut = {}
  <2>1. blocksLost = 0 /\ expected = n.number
    BY <1>1, <1>8, <1>9 DEF LossInv
  <2>2. blocksLost' = 0
    <3>1. n.number - expected = 0 /\ Signed(0) = 0
      BY <1>6, <2>1, SignedFits
    <3>2. blocksLost' = AddStat(0, 0)
      BY <1>2, <2>1, <3>1 DEF Missing
    <3> QED
      BY <1>6, <3>2 DEF AddStat
  <2>3. NumbersOut' = {n.number}
    BY <1>7, <1>9 DEF NumbersOut
  <2>4. Between(NumbersOut', expected') = {}
    BY <1>6, <2>3 DEF Between
  <2>5. \E last \in DataOut' : /\ expected' = NumberAt(last)' + 1
                               /\ \A i \in DataOut' : NumberAt(i)' <= NumberAt(last)'
    <3>1. new \in DataOut'
      BY <1>3
    <3>2. \A i \in DataOut' : NumberAt(i)' = n.number
      BY <1>5, <1>9
    <3> QED
      BY <1>6, <3>1, <3>2
  <2> QED
    BY <1>3, <2>2, <2>4, <2>5, FS_EmptySet
<1>10. CASE DataOut # {}
  <2>1. PICK last \in DataOut : /\ expected = NumberAt(last) + 1
                                /\ \A i \in DataOut : NumberAt(i) <= NumberAt(last)
    BY <1>1, <1>8, <1>10 DEF LossInv
  <2>2. blocksLost = Cardinality(Between(NumbersOut, expected))
    BY <1>1, <1>8, <1>10 DEF LossInv
  <2>3. n.number > NumberAt(last)
    <3>1. last \in LastDump
      <4>1. last > 0
        BY DEF DataOut, BaseInv, TypeInv, TypeOK, OutputOK
      <4> QED
        BY <1>1, <4>1 DEF LastDump
    <3>2. NumberAt(last) <= n.number
      BY <1>1, <1>2, <1>6, <3>1 DEF NumberInv
    <3>3. last # new
      <4>1. new \in Nat /\ Len(out) \in Nat
        BY NextTypeInv DEF BaseInv, TypeInv, TypeOK, OutputOK, Next, Receive, Dump
      <4> QED
        BY <1>1, <1>3, <4>1
    <3>4. PICK i \in DataOut' : i = new
      BY <1>3
    <3>5. NumberAt(i)' = n.number
      BY <1>0, <1>1, <1>2, <3>4 DEF Wrote, NumberAt
    <3>6. NumberAt(last) # n.number
      BY <1>3, <1>4, <3>3, <3>4, <3>5
    <3> QED
      BY <1>4, <1>6, <3>2, <3>6
  <2>4. NumbersOut \in SUBSET Nat /\ NumberAt(last) \in NumbersOut
        /\ \A k \in NumbersOut : k <= NumberAt(last)
    BY <1>4, <2>1 DEF NumbersOut
  <2> DEFINE before == Cardinality(Between(NumbersOut, expected))
  <2>5. /\ IsFiniteSet(Between(NumbersOut, expected))
        /\ Cardinality(Between(NumbersOut \cup {n.number}, n.number + 1))
             = before + (n.number - expected)
        /\ Cardinality(Between(NumbersOut \cup {n.number}, n.number + 1)) <= n.number
    BY <1>6, <2>1, <2>3, <2>4, GapIsCounted
  <2>6. before \in Nat
    BY <2>5, FS_CardinalityType
  <2>7. Missing(n) = n.number - expected /\ Missing(n) \in Nat
    <3>1. n.number - expected \in Nat /\ 2 * (n.number - expected) < StatMod
      BY <1>4, <1>6, <2>1, <2>3
    <3> QED
      BY <3>1, SignedFits DEF Missing
  <2>8. blocksLost' = before + (n.number - expected)
    <3> HIDE DEF before
    <3>1. before + (n.number - expected) \in 0..(StatMod - 1)
      BY <1>6, <2>5, <2>6, <2>7
    <3>2. blocksLost' = (before + (n.number - expected)) % StatMod
      BY <1>2, <2>2, <2>7 DEF AddStat, before
    <3> QED
      BY <1>6, <3>1, <3>2
  <2>9. \E top \in DataOut' : /\ expected' = NumberAt(top)' + 1
                              /\ \A i \in DataOut' : NumberAt(i)' <= NumberAt(top)'
    <3>1. PICK top \in DataOut' : top = new
      BY <1>3
    <3>2. NumberAt(top)' = n.number
      BY <1>0, <1>1, <1>2, <3>1 DEF Wrote, NumberAt
    <3>3. \A i \in DataOut' : NumberAt(i)' <= n.number
      <4> TAKE i \in DataOut'
      <4>1. CASE i \in DataOut
        BY <1>4, <1>6, <2>1, <2>3, <4>1
      <4>2. CASE i \notin DataOut
        BY <1>5, <1>6, <4>2
      <4> QED
        BY <4>1, <4>2
    <3> QED
      BY <1>6, <3>2, <3>3
  <2> QED
    BY <1>3, <1>6, <1>7, <2>5, <2>8, <2>9
<1> QED
  BY <1>9, <1>10

LEMMA LossInvStep ==
    ASSUME KeysFit, OrderInv, OnceInv, FreshInv, LossInv, [Next]_vars
    PROVE  LossInv'
<1> USE DEF OrderInv
<1>1. CASE Rests \/ Return
  <2>1. /\ UNCHANGED <<heap, out, dumpFrom, captured, failed, blocksLost, expected>>
        /\ pc' \in {"dump", "idle"} => pc \in {"dump", "idle"}
    BY <1>1 DEF Rests, Return, stats, history
  <2>2. DataOut' = DataOut /\ \A i \in DataOut : NumberAt(i)' = NumberAt(i)
    BY <2>1, NumbersStay
  <2>3. NumbersOut' = NumbersOut /\ Tops' = Tops
    BY <2>1, <2>2 DEF NumbersOut, Tops
  <2> QED
    BY <2>1, <2>2, <2>3 DEF LossInv
<1>2. CASE Activate \/ Stores
  BY <1>2 DEF Activate, Stores, LossInv
<1>3. CASE Starts
  <2> SUFFICES ASSUME dumpFrom' = 0, failed' = {} PROVE LossInv'
    BY DEF LossInv
  <2>1. /\ StartDump /\ dumpFrom' = Len(out) /\ UNCHANGED <<heap, out, failed, blocksLost>>
    BY <1>3 DEF Starts, StartDump
  <2>2. out = << >> /\ DataOut' = {}
    BY <2>1 DEF DataOut, BaseInv, TypeInv, TypeOK, OutputOK
  <2>3. blocksLost' = 0
    BY <2>1, <2>2 DEF FreshInv
  <2>4. \A n \in Tops' : expected' = n.number
    <3>1. CASE heap = {}
      BY <2>1, <3>1 DEF Tops
    <3>2. CASE heap # {}
      <4>1. PICK t \in Tops : expected' = t.number
        BY <2>1, <3>2 DEF StartDump
      <4>2. \A n \in Tops' : n \in Tops
        BY <2>1 DEF Tops
      <4>3. \A n \in Tops : n.number <= t.number /\ t.number <= n.number
        BY DEF Tops
      <4>4. \A n \in Tops : n.number \in Int
        BY NumberTypes DEF Tops
      <4> QED
        BY <4>1, <4>2, <4>3, <4>4
    <3> QED
      BY <3>1, <3>2
  <2> QED
    BY <2>2, <2>3, <2>4 DEF LossInv
<1>4. CASE DumpPop
  BY <1>4, LossInvPop
<1> QED
  BY <1>1, <1>2, <1>3, <1>4, OutputSteps DEF BaseInv

\* When as many numbers were written as frames captured, no number was written twice.
LEMMA AllDifferent ==
    ASSUME OrderInv, OnceInv, Cardinality(NumbersOut) = Len(captured)
    PROVE  \A i, j \in DataOut : NumberAt(i) = NumberAt(j) => i = j
<1> USE DEF OrderInv
<1> DEFINE ids == {out[i].id : i \in DataOut}
           numberOf == [k \in ids |-> captured[k].number]
<1>1. captured \in Seq(Frames) /\ Len(captured) \in Nat /\ Buffered \in Nat
      /\ Buffered <= Len(captured)
  BY BufferedType
<1>2. ids \subseteq 1..Len(captured)
  BY <1>1 DEF IdInv
<1>3. /\ IsFiniteSet(1..Len(captured)) /\ Cardinality(1..Len(captured)) = Len(captured)
  <2>1. ASSUME NEW k \in Nat PROVE IsFiniteSet(1..k) /\ Cardinality(1..k) = k
    <3>1. IsFiniteSet(1..k) /\ Cardinality(1..k) = IF 1 > k THEN 0 ELSE k - 1 + 1
      BY FS_Interval
    <3> QED
      BY <3>1
  <2> QED
    BY <1>1, <2>1
<1>4. IsFiniteSet(ids) /\ Cardinality(ids) <= Len(captured) /\ Cardinality(ids) \in Nat
  BY <1>2, <1>3, FS_Subset, FS_CardinalityType
<1>5. numberOf \in Surjection(ids, NumbersOut)
  <2>1. numberOf \in [ids -> NumbersOut]
    BY DEF NumbersOut, NumberAt
  <2>2. \A k \in NumbersOut : \E id \in ids : numberOf[id] = k
    BY DEF NumbersOut, NumberAt
  <2> QED
    BY <2>1, <2>2 DEF Surjection
<1> HIDE DEF ids, numberOf
<1>6. Cardinality(NumbersOut) <= Cardinality(ids)
  BY <1>4, <1>5, FS_Surjection
<1>7. Cardinality(ids) = Cardinality(NumbersOut)
  BY <1>1, <1>4, <1>6
<1>8. numberOf \in Injection(ids, NumbersOut)
  BY <1>4, <1>5, <1>7, FS_SurjSameCardinalityImpliesInj
<1>9. ASSUME NEW i \in DataOut, NEW j \in DataOut, NumberAt(i) = NumberAt(j) PROVE i = j
  <2>1. out[i].id \in ids /\ out[j].id \in ids
    BY DEF ids
  <2>2. numberOf[out[i].id] = numberOf[out[j].id]
    BY <1>9, <2>1 DEF numberOf, NumberAt
  <2>3. out[i].id = out[j].id
    BY <1>8, <2>1, <2>2 DEF Injection, IsInjective
  <2> QED
    BY <2>3 DEF OnceInv
<1> QED
  BY <1>9

\* The losses counted inside a capture written in one dump, when no frame came twice and
\* no write failed, are exactly the numbers between the least and the greatest that never
\* came; for any number of frames, in any order of arrival, as long as the frame numbers
\* stay clear of the sign bit.
THEOREM LossesAreCounted == ASSUME KeysFit PROVE Spec => []LossesCounted
<1>1. Init => OnceInv /\ FreshInv /\ LossInv
  BY DEF Init, OnceInv, FreshInv, LossInv, DataOut, Tops
<1>2. OrderInv /\ OnceInv /\ LossInv => LossesCounted
  <2> SUFFICES ASSUME OrderInv, OnceInv, LossInv,
                      pc = "idle", Ordered, dumpFrom = 0, failed = {},
                      Cardinality(NumbersOut) = Len(captured), NumbersOut # {}
               PROVE  blocksLost = Cardinality(Between(NumbersOut, expected))
    BY DEF LossesCounted, NumbersOut, Between
  <2>1. \A i, j \in DataOut : NumberAt(i) = NumberAt(j) => i = j
    BY AllDifferent
  <2>2. DataOut # {}
    BY DEF NumbersOut
  <2> QED
    BY <2>1, <2>2 DEF LossInv
<1>3. OrderInv /\ OnceInv /\ FreshInv /\ LossInv /\ [Next]_vars
      => (OnceInv /\ FreshInv /\ LossInv)'
  BY OnceInvStep, FreshInvStep, LossInvStep DEF OrderInv
<1> QED
  BY <1>1, <1>2, <1>3, OrderInvHolds, PTL DEF Spec
===============================================================================

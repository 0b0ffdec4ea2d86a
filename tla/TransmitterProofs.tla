-------------------------- MODULE TransmitterProofs --------------------------
(***************************************************************************)
(* Theorems about Transmitter, for every value of its constants: type      *)
(* correctness, what a stop of an active transmission guarantees, the      *)
(* shape, the numbering and the completeness of what is on the air, and    *)
(* the control frames around it.                                           *)
(***************************************************************************)
EXTENDS Transmitter, FiniteSetTheorems, SequenceTheorems, TLAPS

LEMMA StatRange ==
    ASSUME NEW c \in 0..(StatMod - 1), NEW n \in Int
    PROVE  AddStat(c, n) \in 0..(StatMod - 1)
BY SourceAssumption DEF AddStat

\* The size of a block that was read fits the counter and is no failed read.
LEMMA BlockSizes ==
    ASSUME NEW i \in 1..Len(Source)
    PROVE  Source[i] \in 1..(StatMod - 2) /\ Source[i] # ReadError
<1>1. Source \in Seq(Nat \ {0}) /\ StatMod \in Nat \ {0, 1} /\ i \in DOMAIN Source
  BY SourceAssumption
<1>2. Source[i] \in Nat \ {0} /\ Source[i] < StatMod - 1
  BY <1>1, SourceAssumption
<1> QED
  BY <1>1, <1>2 DEF ReadError

-------------------------------------------------------------------------------
(* Type correctness.                                                       *)

LEMMA InitTypeOK == Init => TypeOK
<1> SUFFICES ASSUME Init PROVE TypeOK
  OBVIOUS
<1>1. air \in Seq(FrameType)
  <2>1. << >> \in Seq(FrameType)
    OBVIOUS
  <2> QED
    BY <2>1 DEF Init
<1>2. LoopOK
  <2>1. ctrlSent \in 0..(Redundant + 1)
    BY SettingAssumption DEF Init
  <2>2. stops \in 0..MaxStops /\ calls \in 0..MaxCalls /\ readErrors \in 0..MaxReadErrors
    BY BoundAssumption DEF Init
  <2> QED
    BY <2>1, <2>2 DEF Init, LoopOK, PCs
<1>3. SourceOK
  <2>1. Len(Source) \in Nat
    BY SourceAssumption
  <2>2. fed = 0 /\ pos = 0 /\ hungUp = FALSE
    BY DEF Init
  <2>3. fed \in 0..Len(Source) /\ pos \in 0..fed
    BY <2>1, <2>2
  <2>4. hungUp \in BOOLEAN /\ (hungUp => fed = Len(Source))
    BY <2>2
  <2> QED
    BY <2>3, <2>4 DEF SourceOK
<1>4. StatsOK
  BY SourceAssumption DEF Init, StatsOK, States
<1> QED
  BY <1>1, <1>2, <1>3, <1>4 DEF TypeOK

LEMMA ControlType ==
    ASSUME TypeOK, NEW kind \in Kinds, SendControl(kind)
    PROVE  air' \in Seq(FrameType)
<1>1. LastNumber \in Nat \cup {Unnumbered}
  BY DEF LastNumber, TypeOK, StatsOK
<1>2. [kind |-> kind, number |-> LastNumber, block |-> 0] \in FrameType
  BY <1>1 DEF FrameType
<1>3. air \in Seq(FrameType)
  BY DEF TypeOK
<1> QED
  BY <1>2, <1>3 DEF SendControl

LEMMA InjectType ==
    ASSUME TypeOK, Inject
    PROVE  /\ air' \in Seq(FrameType) /\ bytesSent' \in 0..(StatMod - 1)
           /\ bytesRead' \in 0..(StatMod - 1) /\ frameCount' \in 0..(StatMod - 1)
           /\ late' \in Nat
<1>1. prevRead \in Int /\ HdrSize + prevRead \in Int
  BY SettingAssumption, SourceAssumption DEF TypeOK, StatsOK
<1>2. bytesRead' \in 0..(StatMod - 1) /\ frameCount' \in 0..(StatMod - 1)
  BY <1>1, StatRange DEF Inject, CountFrame, TypeOK, StatsOK
<1>3. PICK sent \in Injects(prevRead) :
         /\ air' = IF sent
                   THEN Append(air, [kind   |-> "data",
                                     number |-> DataNumber,
                                     block  |-> pos])
                   ELSE air
         /\ bytesSent' = AddStat(bytesSent, IF sent THEN HdrSize + prevRead ELSE -1)
  BY DEF Inject
<1>4. bytesSent' \in 0..(StatMod - 1)
  <2>1. (IF sent THEN HdrSize + prevRead ELSE -1) \in Int
    BY <1>1
  <2> QED
    BY <1>3, <2>1, StatRange DEF TypeOK, StatsOK
<1>5. air' \in Seq(FrameType)
  <2>1. [kind |-> "data", number |-> DataNumber,
         block |-> pos] \in FrameType
    BY DEF DataNumber, FrameType, Kinds, TypeOK, StatsOK, SourceOK
  <2> QED
    BY <1>3, <2>1 DEF TypeOK
<1>6. late' \in Nat
  BY DEF Inject, TypeOK, LoopOK
<1> QED
  BY <1>2, <1>4, <1>5, <1>6

\* send_control_frame never injects more than its redundant frames.
CtrlInv == pc = "preamble" => ctrlSent <= Redundant

TypeInv == TypeOK /\ CtrlInv

LEMMA NextTypeInv == TypeInv /\ [Next]_vars => TypeInv'
<1> SUFFICES ASSUME TypeInv, [Next]_vars PROVE TypeInv'
  OBVIOUS
<1> USE DEF TypeInv
<1>0. Len(Source) \in Nat /\ fed \in 0..Len(Source) /\ pos \in 0..fed
  BY SourceAssumption DEF TypeOK, SourceOK
<1>1. CASE Feed
  <2>1. fed' \in 0..Len(Source) /\ pos' \in 0..fed' /\ UNCHANGED <<hungUp, pos>>
    BY <1>0, <1>1 DEF Feed
  <2>2. hungUp => fed' = Len(Source)
    BY <1>0, <1>1 DEF Feed, TypeOK, SourceOK
  <2> QED
    BY <1>1, <2>1, <2>2 DEF Feed, TypeOK, LoopOK, SourceOK, StatsOK, CtrlInv, stats, history
<1>2. CASE HangUp
  BY <1>2 DEF HangUp, TypeOK, LoopOK, SourceOK, StatsOK, CtrlInv, stats, history
<1>3. CASE Stop
  <2>1. stops' \in 0..MaxStops
    BY <1>3, BoundAssumption DEF Stop, TypeOK, LoopOK
  <2>2. pc' \in PCs /\ CtrlInv'
    BY <1>3 DEF Stop, TypeOK, LoopOK, PCs, CtrlInv
  <2>3. stopped' \in {"no", "lost", "live"} /\ late' \in Nat
    BY <1>3 DEF Stop, TypeOK, LoopOK
  <2> QED
    BY <1>3, <2>1, <2>2, <2>3 DEF Stop, TypeOK, LoopOK, SourceOK, StatsOK, source, stats
<1>4. CASE Start
  <2>1. LoopOK' /\ CtrlInv'
    BY <1>4, BoundAssumption DEF Start, TypeOK, LoopOK, PCs, CtrlInv
  <2>2. fed' \in {0, Len(Source)} /\ pos' = 0 /\ hungUp' \in BOOLEAN /\ (hungUp' => fed' = Len(Source))
    BY <1>4, SettingAssumption DEF Start
  <2>3. SourceOK'
    BY <1>0, <2>2 DEF SourceOK
  <2>4. StatsOK'
    BY <1>4, SourceAssumption DEF Start, StatsOK, States
  <2>5. air' \in Seq(FrameType)
    <3>1. << >> \in Seq(FrameType)
      OBVIOUS
    <3> QED
      BY <1>4, <3>1 DEF Start
  <2> QED
    BY <2>1, <2>3, <2>4, <2>5 DEF TypeOK
<1>5. CASE SetActivated \/ EnterPoll \/ PollReady \/ ContinueLoop \/ EndLoop \/ Leave
  <2>1. ctrlSent' \in 0..(Redundant + 1) /\ CtrlInv'
    BY <1>5, SettingAssumption
    DEF SetActivated, EnterPoll, PollReady, ContinueLoop, EndLoop, Leave, TypeOK, LoopOK, CtrlInv
  <2>2. pc' \in PCs /\ activated' \in BOOLEAN
    BY <1>5 DEF SetActivated, EnterPoll, PollReady, ContinueLoop, EndLoop, Leave, TypeOK, LoopOK, PCs
  <2>3. UNCHANGED <<source, stats, air, stops, calls, history>>
    BY <1>5 DEF SetActivated, EnterPoll, PollReady, ContinueLoop, EndLoop, Leave
  <2> QED
    BY <2>1, <2>2, <2>3 DEF TypeOK, LoopOK, SourceOK, StatsOK, source, stats, history
<1>6. CASE SendPreamble \/ SendEot
  <2>1. ctrlSent \in Nat /\ ctrlSent <= Redundant /\ Redundant \in Nat /\ ctrlSent' = ctrlSent + 1
    BY <1>6, SettingAssumption DEF SendPreamble, SendEot, TypeOK, LoopOK, CtrlInv
  <2>2. ctrlSent' \in 0..(Redundant + 1)
    BY <2>1
  <2>3. pc' \in PCs /\ CtrlInv'
    <3>1. CASE SendEot
      BY <3>1 DEF SendEot, TypeOK, LoopOK, PCs, CtrlInv
    <3>2. CASE SendPreamble
      BY <3>2, <2>1 DEF SendPreamble, TypeOK, LoopOK, PCs, CtrlInv
    <3> QED
      BY <1>6, <3>1, <3>2
  <2>4. air' \in Seq(FrameType)
    BY <1>6, ControlType DEF SendPreamble, SendEot, Kinds
  <2>5. UNCHANGED <<activated, source, stats, stops, calls, history>>
    BY <1>6 DEF SendPreamble, SendEot, SendControl, stats
  <2> QED
    BY <2>2, <2>3, <2>4, <2>5 DEF TypeOK, LoopOK, SourceOK, StatsOK, source, stats, history
<1>7. CASE PollTimeout \/ PollFails
  <2>1. pc' \in PCs /\ activated' \in BOOLEAN /\ txState' \in States /\ CtrlInv'
    BY <1>7 DEF PollTimeout, PollFails, TypeOK, LoopOK, PCs, States, CtrlInv
  <2> QED
    BY <1>7, <2>1 DEF PollTimeout, PollFails, TypeOK, LoopOK, SourceOK, StatsOK, source, history
<1>8. CASE ReadBlock
  <2>1. pos' \in 0..fed /\ pos + 1 \in 1..Len(Source)
    BY <1>0, <1>8 DEF ReadBlock
  <2>2. prevRead' \in 0..(StatMod - 1)
    BY <1>8, <2>1, BlockSizes, SourceAssumption DEF ReadBlock
  <2>3. pc' \in PCs /\ CtrlInv'
    BY <1>8 DEF ReadBlock, PCs, CtrlInv
  <2> QED
    BY <1>8, <2>1, <2>2, <2>3 DEF ReadBlock, TypeOK, LoopOK, SourceOK, StatsOK, history
<1>9. CASE ReadEof
  <2>1. pc' \in PCs /\ CtrlInv' /\ prevRead' \in 0..(StatMod - 1)
    BY <1>9, SourceAssumption DEF ReadEof, PCs, CtrlInv
  <2> QED
    BY <1>9, <2>1 DEF ReadEof, TypeOK, LoopOK, SourceOK, StatsOK, source, history
<1>10. CASE ReadFails
  <2>1. prevRead' \in 0..(StatMod - 1)
    BY <1>10, SourceAssumption DEF ReadFails, ReadError
  <2>2. readErrors' \in 0..MaxReadErrors
    BY <1>10, BoundAssumption DEF ReadFails, TypeOK, LoopOK
  <2>3. pc' \in PCs /\ CtrlInv'
    BY <1>10 DEF ReadFails, PCs, CtrlInv
  <2> QED
    BY <1>10, <2>1, <2>2, <2>3 DEF ReadFails, TypeOK, LoopOK, SourceOK, StatsOK, source
<1>11. CASE Inject
  <2>1. /\ air' \in Seq(FrameType) /\ bytesSent' \in 0..(StatMod - 1)
        /\ bytesRead' \in 0..(StatMod - 1) /\ frameCount' \in 0..(StatMod - 1) /\ late' \in Nat
    BY <1>11, InjectType
  <2>2. pc' \in PCs /\ CtrlInv'
    BY <1>11 DEF Inject, PCs, CtrlInv
  <2> QED
    BY <1>11, <2>1, <2>2 DEF Inject, TypeOK, LoopOK, SourceOK, StatsOK, source
<1>12. CASE Return
  <2>1. pc' \in PCs /\ CtrlInv' /\ txState' \in States
    BY <1>12 DEF Return, PCs, CtrlInv, TypeOK, StatsOK, States
  <2> QED
    BY <1>12, <2>1 DEF Return, TypeOK, LoopOK, SourceOK, StatsOK, source, history
<1>13. CASE UNCHANGED vars
  BY <1>13 DEF vars, TypeOK, LoopOK, SourceOK, StatsOK, CtrlInv, source, stats, history
<1> QED
  BY <1>1, <1>2, <1>3, <1>4, <1>5, <1>6, <1>7, <1>8, <1>9, <1>10, <1>11, <1>12, <1>13
  DEF Next, Transmit, Environment

\* Every variable of the transmitter keeps its type, for every source, setting and
\* behaviour of the user; in particular no failed read or write escapes the counters.
THEOREM TransmitterTypeOK == Spec => []TypeOK
<1>1. Init => TypeInv
  BY InitTypeOK DEF TypeInv, CtrlInv, Init
<1>2. TypeInv => TypeOK
  BY DEF TypeInv
<1> QED
  BY <1>1, <1>2, NextTypeInv, PTL DEF Spec

-------------------------------------------------------------------------------
(* What a stop guarantees.                                                 *)

\* Once a stop has found the transmission active, the flag stays down until the next
\* transmission; a data frame that was on its way is the last one; and by the time the
\* state is reported it is not NORMAL.
StopInv ==
    stopped = "live" =>
        /\ ~activated
        /\ pc # "start"
        /\ late = 0 \/ (late = 1 /\ pc \in {"loop", "eot", "leaving", "idle"})
        /\ pc \in {"leaving", "idle"} => txState # "NORMAL"

LEMMA StopInvStep ==
    ASSUME TypeInv, StopInv, [Next]_vars
    PROVE  StopInv'
<1>1. CASE Feed \/ HangUp
  BY <1>1 DEF Feed, HangUp, StopInv, stats, history
<1>2. CASE Stop
  <2>1. CASE stopped = "live"
    BY <1>2, <2>1 DEF Stop, StopInv, stats
  <2>2. CASE stopped # "live"
    BY <1>2, <2>2 DEF Stop, StopInv
  <2> QED
    BY <2>1, <2>2
<1>3. CASE Start
  BY <1>3 DEF Start, StopInv
<1>4. CASE SetActivated \/ SendPreamble \/ EnterPoll \/ PollReady
  BY <1>4 DEF SetActivated, SendPreamble, SendControl, EnterPoll, PollReady, StopInv, stats, history
<1>5. CASE PollTimeout \/ PollFails
  BY <1>5 DEF PollTimeout, PollFails, StopInv, history
<1>6. CASE ReadBlock \/ ReadEof \/ ReadFails
  BY <1>6 DEF ReadBlock, ReadEof, ReadFails, StopInv, history
<1>7. CASE Inject
  BY <1>7 DEF Inject, StopInv
<1>8. CASE ContinueLoop \/ EndLoop
  BY <1>8 DEF ContinueLoop, EndLoop, Active, StopInv, stats, history
<1>9. CASE SendEot \/ Leave
  BY <1>9 DEF SendEot, SendControl, Leave, StopInv, stats, history
<1>10. CASE Return
  BY <1>10 DEF Return, StopInv, history
<1>11. CASE UNCHANGED vars
  BY <1>11 DEF vars, StopInv, stats, history
<1> QED
  BY <1>1, <1>2, <1>3, <1>4, <1>5, <1>6, <1>7, <1>8, <1>9, <1>10, <1>11
  DEF Next, Transmit, Environment

LEMMA StopInvHolds == Spec => []StopInv
<1>1. Init => TypeInv /\ StopInv
  BY InitTypeOK DEF TypeInv, CtrlInv, Init, StopInv
<1>2. TypeInv /\ StopInv /\ [Next]_vars => StopInv'
  BY StopInvStep
<1> QED
  BY <1>1, <1>2, NextTypeInv, PTL DEF Spec

\* A stop of an active transmission lets at most one more data frame out.
THEOREM TransmitterStopIsPrompt == Spec => []StopIsPrompt
<1>1. StopInv => StopIsPrompt
  BY DEF StopInv, StopIsPrompt
<1> QED
  BY <1>1, StopInvHolds, PTL

\* A stop of an active transmission is reported to the caller.
THEOREM TransmitterStopIsReported == Spec => []StopIsReported
<1>1. StopInv => StopIsReported
  BY DEF StopInv, StopIsReported
<1> QED
  BY <1>1, StopInvHolds, PTL

-------------------------------------------------------------------------------
(* What is on the air.                                                     *)

\* The frames of an extended sequence.
LEMMA AppendFacts ==
    ASSUME NEW S, NEW s \in Seq(S), NEW e \in S
    PROVE  /\ DOMAIN Append(s, e) = DOMAIN s \cup {Len(s) + 1}
           /\ Append(s, e)[Len(s) + 1] = e
           /\ \A k \in DOMAIN s : Append(s, e)[k] = s[k] /\ k <= Len(s) /\ k \in Nat
           /\ Len(s) \in Nat
  OBVIOUS

\* Where the program is, what can be on the air: only preambles before the loop, no EOT
\* before its end, and while a block that was read waits to be injected only blocks
\* before it.
AirInv ==
    /\ AirWellFormed
    /\ \A k \in DOMAIN air : air[k].kind = "data" => air[k].block \in 1..pos
    /\ pc \in {"start", "preamble"} => \A k \in DOMAIN air : air[k].kind = "preamble"
    /\ pc \notin {"eot", "leaving", "idle"} => \A k \in DOMAIN air : air[k].kind # "eot"
    /\ pc = "inject" /\ prevRead # ReadError
       => /\ pos > 0
          /\ \A k \in DOMAIN air : air[k].kind = "data" => air[k].block < pos

\* transmitter.c:474: as long as no read has failed, frame_count is the number of blocks
\* read and dealt with, and every data frame has the number of its place.
NumberInv ==
    readErrors = 0 /\ Len(Source) < StatMod
    => /\ frameCount = IF pc = "inject" THEN pos - 1 ELSE pos
       /\ pc = "inject" => prevRead # ReadError
       /\ \A k \in DOMAIN air : air[k].kind = "data" /\ Numbered => air[k].number = air[k].block - 1

\* The loop ends in state NORMAL with the flag up only behind the end of the source, and
\* every block dealt with is on the air if injections succeed.
CompleteInv ==
    /\ pc = "read" => pos < fed \/ hungUp
    /\ pc = "inject" => prevRead > 0
    /\ \/ pc = "loop" /\ prevRead = 0
       \/ pc = "eot" /\ activated
       \/ pc \in {"leaving", "idle"} /\ calls > 0
       => (txState = "NORMAL" => hungUp /\ pos = Len(Source))
    /\ "inject" \notin Faults
       => \A b \in 1..(IF pc = "inject" /\ prevRead # ReadError THEN pos - 1 ELSE pos) : OnAir(b)

ShapeInv == AirInv /\ NumberInv /\ CompleteInv

\* What one control frame at the end of the air changes: nothing about data frames.
LEMMA ControlKeeps ==
    ASSUME TypeOK, NEW kind \in {"preamble", "eot"}, SendControl(kind), AirWellFormed,
           \A k \in DOMAIN air : Rank[air[k].kind] <= Rank[kind]
    PROVE  /\ AirWellFormed'
           /\ \A k \in DOMAIN air' : air'[k].kind = kind \/ (k \in DOMAIN air /\ air'[k] = air[k])
           /\ \A k \in DOMAIN air : k \in DOMAIN air' /\ air'[k] = air[k]
<1> DEFINE e == [kind |-> kind, number |-> LastNumber, block |-> 0]
<1>1. air \in Seq(FrameType) /\ e \in FrameType
  BY DEF TypeOK, StatsOK, LastNumber, FrameType, Kinds
<1>2. CASE air' = air
  BY <1>2 DEF AirWellFormed
<1>3. CASE air' = Append(air, e)
  <2>1. /\ DOMAIN air' = DOMAIN air \cup {Len(air) + 1} /\ air'[Len(air) + 1] = e
        /\ \A k \in DOMAIN air : air'[k] = air[k] /\ k <= Len(air) /\ k \in Nat
        /\ Len(air) \in Nat
    BY <1>1, <1>3, AppendFacts
  <2>2. e.kind = kind /\ kind # "data" /\ Rank[kind] <= Rank[kind]
    BY DEF Rank
  <2>3. AirWellFormed'
    BY <2>1, <2>2 DEF AirWellFormed
  <2> QED
    BY <2>1, <2>2, <2>3
<1> QED
  BY <1>2, <1>3 DEF SendControl

\* The ranks of the kinds of frames.
LEMMA RankFacts ==
    /\ Rank["preamble"] = 1 /\ Rank["data"] = 2 /\ Rank["eot"] = 3
    /\ \A f \in FrameType : Rank[f.kind] <= 3
  BY DEF Rank, FrameType, Kinds

\* transmitter.c:442.
LEMMA PreambleShape == ASSUME TypeInv, ShapeInv, SendPreamble PROVE ShapeInv'
<1>1. \A k \in DOMAIN air : air[k].kind = "preamble"
  BY DEF ShapeInv, AirInv, SendPreamble
<1>2. /\ AirWellFormed'
      /\ \A k \in DOMAIN air' : air'[k].kind = "preamble"
      /\ \A k \in DOMAIN air : k \in DOMAIN air' /\ air'[k] = air[k]
  BY <1>1, RankFacts, ControlKeeps DEF TypeInv, ShapeInv, AirInv, SendPreamble
<1>3. /\ pc = "preamble" /\ pc' \in {"preamble", "enter"}
      /\ UNCHANGED <<source, frameCount, prevRead, calls, readErrors>>
  BY DEF SendPreamble, SendControl, history
<1>4. AirInv'
  BY <1>2, <1>3 DEF AirInv
<1>5. NumberInv'
  BY <1>2, <1>3 DEF ShapeInv, NumberInv, source
<1>6. CompleteInv'
  BY <1>2, <1>3 DEF ShapeInv, CompleteInv, source, OnAir
<1> QED
  BY <1>4, <1>5, <1>6 DEF ShapeInv

\* transmitter.c:487.
LEMMA EotShape == ASSUME TypeInv, ShapeInv, SendEot PROVE ShapeInv'
<1>1. \A k \in DOMAIN air : Rank[air[k].kind] <= Rank["eot"]
  BY RankFacts DEF TypeInv, TypeOK
<1>2. /\ AirWellFormed'
      /\ \A k \in DOMAIN air' : air'[k].kind = "eot" \/ (k \in DOMAIN air /\ air'[k] = air[k])
      /\ \A k \in DOMAIN air : k \in DOMAIN air' /\ air'[k] = air[k]
  BY <1>1, ControlKeeps DEF TypeInv, ShapeInv, AirInv, SendEot
<1>3. /\ pc = "eot" /\ pc' = "eot"
      /\ UNCHANGED <<source, frameCount, prevRead, calls, readErrors, activated, txState>>
  BY DEF SendEot, SendControl, history
<1>4. AirInv'
  BY <1>2, <1>3 DEF ShapeInv, AirInv, source
<1>5. NumberInv'
  BY <1>2, <1>3 DEF ShapeInv, NumberInv, source
<1>6. CompleteInv'
  BY <1>2, <1>3 DEF ShapeInv, CompleteInv, source, OnAir
<1> QED
  BY <1>4, <1>5, <1>6 DEF ShapeInv

\* transmitter.c:463-476: the block that was read last goes on the air, or is lost.
LEMMA InjectShape == ASSUME TypeInv, ShapeInv, Inject PROVE ShapeInv'
<1> DEFINE e == [kind |-> "data", number |-> DataNumber, block |-> pos]
<1>0. /\ Len(Source) \in Nat /\ pos \in 0..Len(Source) /\ StatMod \in Nat \ {0, 1}
      /\ frameCount \in Nat /\ air \in Seq(FrameType)
  BY SourceAssumption DEF TypeInv, TypeOK, SourceOK, StatsOK
<1>1. /\ pc = "inject" /\ pc' = "loop"
      /\ frameCount' = (frameCount + 1) % StatMod
      /\ UNCHANGED <<pos, fed, hungUp, prevRead, calls, readErrors, activated, txState>>
  BY DEF Inject, CountFrame, AddStat, source
<1>2. prevRead > 0
  BY <1>1 DEF ShapeInv, CompleteInv
<1>3. PICK sent \in Injects(prevRead) : air' = IF sent THEN Append(air, e) ELSE air
  BY DEF Inject
<1>4. readErrors = 0 /\ Len(Source) < StatMod => frameCount = pos - 1 /\ prevRead # ReadError
  BY <1>1 DEF ShapeInv, NumberInv
<1>5. readErrors = 0 /\ Len(Source) < StatMod => frameCount' = pos
  BY <1>0, <1>1, <1>4
<1>6. CASE air' = air /\ (prevRead # ReadError => "inject" \in Faults)
  <2>1. AirInv'
    BY <1>1, <1>6 DEF ShapeInv, AirInv, AirWellFormed
  <2>2. NumberInv'
    BY <1>1, <1>5, <1>6 DEF ShapeInv, NumberInv
  <2>3. CompleteInv'
    BY <1>1, <1>2, <1>6 DEF ShapeInv, CompleteInv, OnAir
  <2> QED
    BY <2>1, <2>2, <2>3 DEF ShapeInv
<1>7. CASE air' = Append(air, e) /\ prevRead # ReadError
  <2>1. e \in FrameType
    BY <1>0 DEF DataNumber, FrameType, Kinds
  <2>2. /\ DOMAIN air' = DOMAIN air \cup {Len(air) + 1} /\ air'[Len(air) + 1] = e
        /\ \A k \in DOMAIN air : air'[k] = air[k] /\ k <= Len(air) /\ k \in Nat
        /\ Len(air) \in Nat
    BY <1>0, <1>7, <2>1, AppendFacts
  <2>3. e.kind = "data" /\ e.block = pos /\ e.number = DataNumber
    OBVIOUS
  <2>4. pos > 0 /\ \A k \in DOMAIN air : air[k].kind = "data" => air[k].block < pos
    BY <1>1, <1>7 DEF ShapeInv, AirInv
  <2>5. \A k \in DOMAIN air : Rank[air[k].kind] <= Rank["data"] /\ air[k].kind # "eot"
    <3>1. \A k \in DOMAIN air : air[k] \in FrameType /\ air[k].kind # "eot"
      BY <1>0, <1>1 DEF ShapeInv, AirInv
    <3> QED
      BY <3>1, RankFacts DEF FrameType, Kinds
  <2>6. AirWellFormed'
    BY <2>2, <2>3, <2>4, <2>5 DEF ShapeInv, AirInv, AirWellFormed
  <2>7. AirInv'
    BY <1>0, <1>1, <2>2, <2>3, <2>4, <2>5, <2>6 DEF ShapeInv, AirInv
  <2>8. NumberInv'
    BY <1>0, <1>1, <1>4, <1>5, <2>2, <2>3 DEF ShapeInv, NumberInv, DataNumber
  <2>9. CompleteInv'
    <3>1. \A b \in 1..pos : (OnAir(b) \/ b = pos) => OnAir(b)'
      BY <2>2, <2>3 DEF OnAir
    <3>2. "inject" \notin Faults => \A b \in 1..(pos - 1) : OnAir(b)
      BY <1>1, <1>7 DEF ShapeInv, CompleteInv
    <3>3. "inject" \notin Faults => \A b \in 1..pos : OnAir(b)'
      BY <1>0, <3>1, <3>2
    <3> QED
      BY <1>1, <1>2, <3>3 DEF CompleteInv
  <2> QED
    BY <2>7, <2>8, <2>9 DEF ShapeInv
<1> QED
  BY <1>3, <1>6, <1>7 DEF Injects, Accepts

\* transmitter.c:462.
LEMMA ReadShape == ASSUME TypeInv, ShapeInv, ReadBlock \/ ReadEof \/ ReadFails PROVE ShapeInv'
<1>0. /\ Len(Source) \in Nat /\ fed \in 0..Len(Source) /\ pos \in 0..fed
      /\ StatMod \in Nat \ {0, 1} /\ readErrors \in Nat
      /\ hungUp => fed = Len(Source)
  BY SourceAssumption, BoundAssumption DEF TypeInv, TypeOK, LoopOK, SourceOK
<1>1. CASE ReadBlock
  <2>1. /\ pc = "read" /\ pc' = "inject" /\ pos' = pos + 1 /\ prevRead' = Source[pos + 1]
        /\ UNCHANGED <<frameCount, air, readErrors, fed, hungUp>>
    BY <1>1 DEF ReadBlock, history
  <2>2. prevRead' \in 1..(StatMod - 2) /\ prevRead' # ReadError
    BY <1>0, <1>1, <2>1, BlockSizes DEF ReadBlock
  <2>3. AirInv'
    BY <1>0, <2>1 DEF ShapeInv, AirInv, AirWellFormed
  <2>4. NumberInv'
    BY <1>0, <2>1, <2>2 DEF ShapeInv, NumberInv
  <2>5. CompleteInv'
    BY <1>0, <2>1, <2>2 DEF ShapeInv, CompleteInv, OnAir
  <2> QED
    BY <2>3, <2>4, <2>5 DEF ShapeInv
<1>2. CASE ReadEof
  <2>1. hungUp /\ pos = Len(Source)
    BY <1>0, <1>2 DEF ReadEof, ShapeInv, CompleteInv
  <2>2. AirInv'
    BY <1>2 DEF ReadEof, source, ShapeInv, AirInv, AirWellFormed
  <2>3. NumberInv'
    BY <1>2 DEF ReadEof, source, history, ShapeInv, NumberInv
  <2>4. CompleteInv'
    BY <1>2, <2>1 DEF ReadEof, source, ShapeInv, CompleteInv, OnAir
  <2> QED
    BY <2>2, <2>3, <2>4 DEF ShapeInv
<1>3. CASE ReadFails
  <2>1. prevRead' = ReadError /\ ReadError' = ReadError /\ ReadError > 0 /\ readErrors' # 0
    BY <1>0, <1>3 DEF ReadFails, ReadError
  <2>2. AirInv'
    BY <1>3, <2>1 DEF ReadFails, source, ShapeInv, AirInv, AirWellFormed
  <2>3. NumberInv'
    BY <2>1 DEF NumberInv
  <2>4. CompleteInv'
    BY <1>3, <2>1 DEF ReadFails, source, ShapeInv, CompleteInv, OnAir
  <2> QED
    BY <2>2, <2>3, <2>4 DEF ShapeInv
<1> QED
  BY <1>1, <1>2, <1>3

\* Every step keeps the air, the numbers and the completeness.
LEMMA ShapeStep == ASSUME TypeInv, ShapeInv, [Next]_vars PROVE ShapeInv'
<1>0. /\ Len(Source) \in Nat /\ fed \in 0..Len(Source) /\ pos \in 0..fed /\ prevRead \in Nat
      /\ hungUp => fed = Len(Source)
  BY SourceAssumption DEF TypeInv, TypeOK, SourceOK, StatsOK
<1> USE DEF ShapeInv
<1>1. CASE Feed \/ HangUp
  <2>1. /\ UNCHANGED <<pc, activated, pos, frameCount, prevRead, txState, air, calls, readErrors>>
        /\ pos < fed \/ hungUp => pos < fed' \/ hungUp'
        /\ hungUp => hungUp'
    BY <1>0, <1>1 DEF Feed, HangUp, stats, history
  <2> QED
    BY <2>1 DEF AirInv, AirWellFormed, NumberInv, CompleteInv, OnAir
<1>2. CASE Stop
  <2>1. /\ UNCHANGED <<fed, hungUp, pos, frameCount, prevRead, txState, air, calls, readErrors>>
        /\ ~activated' /\ (pc' = pc \/ (pc = "poll" /\ pc' = "eintr"))
    BY <1>2 DEF Stop, source, stats
  <2> QED
    BY <2>1 DEF AirInv, AirWellFormed, NumberInv, CompleteInv, OnAir
<1>3. CASE Start
  <2>1. air' = << >> /\ DOMAIN << >> = {} /\ pc' = "start" /\ pos' = 0 /\ frameCount' = 0
    BY <1>3 DEF Start
  <2> QED
    BY <2>1 DEF AirInv, AirWellFormed, NumberInv, CompleteInv
<1>4. CASE SetActivated \/ EnterPoll \/ Leave
  <2>1. /\ UNCHANGED <<fed, hungUp, pos, frameCount, prevRead, txState, air, calls, readErrors>>
        /\ \/ pc = "start" /\ pc' = "preamble"
           \/ pc = "enter" /\ pc' = "poll"
           \/ pc = "leaving" /\ pc' = "idle"
    BY <1>4 DEF SetActivated, EnterPoll, Leave, source, stats, history
  <2> QED
    BY <2>1 DEF AirInv, AirWellFormed, NumberInv, CompleteInv, OnAir
<1>5. CASE SendPreamble
  BY <1>5, PreambleShape
<1>6. CASE PollTimeout \/ PollFails
  <2>1. /\ UNCHANGED <<fed, hungUp, pos, frameCount, prevRead, air, calls, readErrors>>
        /\ pc \in {"poll", "eintr"} /\ pc' = "loop" /\ txState' # "NORMAL"
    BY <1>6 DEF PollTimeout, PollFails, source, history
  <2> QED
    BY <2>1 DEF AirInv, AirWellFormed, NumberInv, CompleteInv, OnAir
<1>7. CASE PollReady
  <2>1. /\ UNCHANGED <<fed, hungUp, pos, frameCount, prevRead, air, calls, readErrors>>
        /\ pc = "poll" /\ pc' = "read" /\ (pos < fed \/ hungUp)
    BY <1>7 DEF PollReady, Readable, source, stats, history
  <2> QED
    BY <2>1 DEF AirInv, AirWellFormed, NumberInv, CompleteInv, OnAir
<1>8. CASE ReadBlock \/ ReadEof \/ ReadFails
  BY <1>8, ReadShape
<1>9. CASE Inject
  BY <1>9, InjectShape
<1>10. CASE ContinueLoop
  <2>1. /\ UNCHANGED <<fed, hungUp, pos, frameCount, prevRead, air, calls, readErrors>>
        /\ pc = "loop" /\ pc' = "enter"
    BY <1>10 DEF ContinueLoop, source, stats, history
  <2> QED
    BY <2>1 DEF AirInv, AirWellFormed, NumberInv, CompleteInv, OnAir
<1>11. CASE EndLoop
  <2>1. /\ UNCHANGED <<activated, fed, hungUp, pos, frameCount, prevRead, txState, air, calls,
                       readErrors>>
        /\ pc = "loop" /\ pc' = "eot" /\ (activated => prevRead = 0)
    BY <1>0, <1>11 DEF EndLoop, Active, source, stats, history
  <2> QED
    BY <2>1 DEF AirInv, AirWellFormed, NumberInv, CompleteInv, OnAir
<1>12. CASE SendEot
  BY <1>12, EotShape
<1>13. CASE Return
  <2>1. /\ UNCHANGED <<fed, hungUp, pos, frameCount, prevRead, air, calls, readErrors>>
        /\ pc = "eot" /\ pc' = "leaving"
        /\ txState' = "NORMAL" => txState = "NORMAL" /\ activated
    BY <1>13 DEF Return, source, history
  <2> QED
    BY <2>1 DEF AirInv, AirWellFormed, NumberInv, CompleteInv, OnAir
<1>14. CASE UNCHANGED vars
  <2>1. UNCHANGED <<pc, activated, fed, hungUp, pos, frameCount, prevRead, txState, air, calls,
                    readErrors>>
    BY <1>14 DEF vars, source, stats, history
  <2> QED
    BY <2>1 DEF AirInv, AirWellFormed, NumberInv, CompleteInv, OnAir
<1> QED
  BY <1>1, <1>2, <1>3, <1>4, <1>5, <1>6, <1>7, <1>8, <1>9, <1>10, <1>11, <1>12, <1>13, <1>14
  DEF Next, Transmit, Environment

\* The invariant of the air holds of every behaviour.
LEMMA ShapeHolds == Spec => [](TypeInv /\ ShapeInv)
<1>1. Init => TypeInv /\ ShapeInv
  <2>1. SUFFICES ASSUME Init PROVE ShapeInv
    BY InitTypeOK DEF TypeInv, CtrlInv, Init
  <2>2. air = << >> /\ DOMAIN << >> = {} /\ pc = "idle" /\ pos = 0 /\ frameCount = 0 /\ calls = 0
    BY <2>1 DEF Init
  <2> QED
    BY <2>2 DEF ShapeInv, AirInv, AirWellFormed, NumberInv, CompleteInv
<1>2. TypeInv /\ ShapeInv /\ [Next]_vars => ShapeInv'
  BY ShapeStep
<1> QED
  BY <1>1, <1>2, NextTypeInv, PTL DEF Spec

\* What is on the air is one well-formed transmission at every instant, whatever cuts it
\* short (transmitter.c:442-487).
THEOREM AirStaysWellFormed == Spec => []AirWellFormed
<1>1. ShapeInv => AirWellFormed
  BY DEF ShapeInv, AirInv
<1> QED
  BY <1>1, ShapeHolds, PTL

\* Frame numbers are places in the source, also behind injections that failed
\* (transmitter.c:469-474), as long as no read has failed.
THEOREM NumbersStayPlaces == Spec => []NumbersArePlaces
<1>1. ShapeInv => NumbersArePlaces
  BY DEF ShapeInv, NumberInv, NumbersArePlaces
<1> QED
  BY <1>1, ShapeHolds, PTL

\* A transmission that reports NORMAL has given every block of its source to pcap
\* (transmitter.c:479-491).
THEOREM NormalIsComplete == Spec => []NormalMeansComplete
<1>1. TypeInv /\ ShapeInv => NormalMeansComplete
  <2>1. Len(Source) \in Nat
    BY SourceAssumption
  <2> QED
    BY <2>1 DEF ShapeInv, CompleteInv, NormalMeansComplete
<1> QED
  BY <1>1, ShapeHolds, PTL

-------------------------------------------------------------------------------
(* The transmitter implements Transmission.                                *)

\* The flag is down in the loop only after a stop that took effect or a timeout, and
\* nothing else is ever reported as DEACTIVATED.
FlagInv ==
    /\ pc \notin {"idle", "start", "loop", "eot", "leaving"} /\ ~activated => stopped = "live"
    /\ pc \in {"loop", "eot"} /\ ~activated => stopped = "live" \/ txState = "TIMED_OUT"
    /\ txState = "DEACTIVATED" => stopped = "live"
    /\ pc # "idle" => calls > 0

LEMMA FlagInvStep ==
    ASSUME TypeInv, FlagInv, [Next]_vars
    PROVE  FlagInv'
<1>0. calls \in Nat
  BY BoundAssumption DEF TypeInv, TypeOK, LoopOK
<1>1. CASE Feed \/ HangUp
  BY <1>1 DEF Feed, HangUp, FlagInv, stats, history
<1>2. CASE Stop
  <2>1. stopped' = "live" \/ (pc \in {"start", "leaving"} /\ stopped' = "lost" /\ stopped # "live")
    BY <1>2 DEF Stop
  <2> QED
    BY <1>2, <2>1 DEF Stop, FlagInv, stats
<1>3. CASE Start
  BY <1>0, <1>3 DEF Start, FlagInv
<1>4. CASE SetActivated \/ SendPreamble \/ EnterPoll \/ PollReady
  BY <1>4 DEF SetActivated, SendPreamble, SendControl, EnterPoll, PollReady, FlagInv, stats, history
<1>5. CASE PollTimeout \/ PollFails
  BY <1>5 DEF PollTimeout, PollFails, FlagInv, history
<1>6. CASE ReadBlock \/ ReadEof \/ ReadFails
  BY <1>6 DEF ReadBlock, ReadEof, ReadFails, FlagInv, history
<1>7. CASE Inject
  BY <1>7 DEF Inject, FlagInv
<1>8. CASE ContinueLoop \/ EndLoop
  BY <1>8 DEF ContinueLoop, EndLoop, Active, FlagInv, stats, history
<1>9. CASE SendEot \/ Leave
  BY <1>9 DEF SendEot, SendControl, Leave, FlagInv, stats, history
<1>10. CASE Return
  BY <1>10 DEF Return, FlagInv, history
<1>11. CASE UNCHANGED vars
  BY <1>11 DEF vars, FlagInv, stats, history
<1> QED
  BY <1>1, <1>2, <1>3, <1>4, <1>5, <1>6, <1>7, <1>8, <1>9, <1>10, <1>11
  DEF Next, Transmit, Environment

ServiceInv == TypeInv /\ StopInv /\ ShapeInv /\ FlagInv

LEMMA ServiceInvHolds == Spec => []ServiceInv
<1>1. Init => FlagInv
  BY DEF Init, FlagInv
<1>2. TypeInv /\ FlagInv /\ [Next]_vars => FlagInv'
  BY FlagInvStep
<1> QED
  BY <1>1, <1>2, ShapeHolds, StopInvHolds, PTL DEF Spec, ServiceInv

\* Nothing of a step inside a transmission can be seen but a stop.
LEMMA InsideUnseen ==
    ASSUME pc \notin {"idle", "start", "leaving"}, pc' \notin {"idle", "start", "leaving"}
    PROVE  /\ Phase = "active" /\ Phase' = "active"
           /\ Outcome' = Outcome /\ Whole' = Whole
BY DEF Phase, Reported, Outcome, Whole

\* start_transmission and stop_transmission, with every fault between, do what the
\* program above them relies on: each step is a step of Transmission or is not seen.
THEOREM TransmitterImplementsTransmission == Spec => ImplementsTransmission
<1>1. Init => Service!Init
  BY DEF Init, Service!Init, Phase, Reported, Outcome, Whole
<1>2. ServiceInv /\ [Next]_vars
      => [Service!Next]_<<Phase, stopped = "live", Outcome, Whole>>
  <2> SUFFICES ASSUME ServiceInv, [Next]_vars
               PROVE  [Service!Next]_<<Phase, stopped = "live", Outcome, Whole>>
    OBVIOUS
  <2>0. calls \in Nat /\ txState \in States
    BY BoundAssumption DEF ServiceInv, TypeInv, TypeOK, LoopOK, StatsOK
  <2>1. CASE Start
    <3>1. Service!Begin
      BY <2>1 DEF Start, Service!Begin, Phase, Reported, Outcome, Whole
    <3> QED
      BY <3>1 DEF Service!Next
  <2>2. CASE SetActivated
    <3>1. Service!Activate
      BY <2>2 DEF SetActivated, Service!Activate, Phase, Reported, Outcome, Whole, stats, history
    <3> QED
      BY <3>1 DEF Service!Next
  <2>3. CASE Stop
    <3>1. UNCHANGED <<Phase, Outcome, Whole>> /\ Phase # "idle"
      BY <2>3 DEF Stop, Phase, Reported, Outcome, Whole, source, stats
    <3>2. (stopped = "live")' = ((stopped = "live") \/ Phase = "active")
      BY <2>3 DEF Stop, Phase
    <3>3. Service!Stop
      BY <3>1, <3>2 DEF Service!Stop
    <3> QED
      BY <3>3 DEF Service!Next
  <2>4. CASE Return
    <3>1. Phase = "active" /\ Phase' = "done" /\ Outcome' = txState' /\ Outcome' \in States
      BY <2>0, <2>4 DEF Return, Phase, Reported, Outcome, States
    <3>2. Whole' \in BOOLEAN /\ UNCHANGED (stopped = "live")
      BY <2>4 DEF Return, Whole, Reported, history
    <3>3. Outcome' = "NORMAL" => Whole' /\ stopped # "live"
      <4>1. ASSUME txState' = "NORMAL" PROVE activated /\ txState = "NORMAL" /\ stopped # "live"
        BY <2>4, <4>1 DEF Return, ServiceInv, StopInv
      <4>2. ASSUME txState' = "NORMAL" PROVE Whole'
        BY <2>4, <4>1, <4>2 DEF Return, ServiceInv, ShapeInv, CompleteInv, FlagInv, Whole, Reported, source
      <4> QED
        BY <3>1, <4>1, <4>2
    <3>4. Outcome' = "DEACTIVATED" => stopped = "live"
      BY <2>4, <3>1 DEF Return, ServiceInv, FlagInv
    <3>5. Service!Finish
      BY <3>1, <3>2, <3>3, <3>4 DEF Service!Finish, Service!Reports
    <3> QED
      BY <3>5 DEF Service!Next
  <2>5. CASE Leave
    <3>1. Service!End
      BY <2>5 DEF Leave, Service!End, Phase, Reported, Outcome, Whole, source, stats, history
    <3> QED
      BY <3>1 DEF Service!Next
  <2>6. CASE Feed \/ HangUp
    BY <2>6 DEF Feed, HangUp, Phase, Reported, Outcome, Whole, stats, history
  <2>7. CASE SendPreamble \/ SendEot \/ EnterPoll \/ PollReady \/ ContinueLoop \/ EndLoop
    <3>1. pc \notin {"idle", "start", "leaving"} /\ pc' \notin {"idle", "start", "leaving"}
      BY <2>7 DEF SendPreamble, SendEot, EnterPoll, PollReady, ContinueLoop, EndLoop
    <3>2. stopped' = stopped
      BY <2>7 DEF SendPreamble, SendEot, SendControl, EnterPoll, PollReady, ContinueLoop, EndLoop,
                  history
    <3> QED
      BY <3>1, <3>2, InsideUnseen
  <2>8. CASE PollTimeout \/ PollFails \/ ReadBlock \/ ReadEof \/ ReadFails \/ Inject
    <3>1. pc \notin {"idle", "start", "leaving"} /\ pc' \notin {"idle", "start", "leaving"}
      BY <2>8 DEF PollTimeout, PollFails, ReadBlock, ReadEof, ReadFails, Inject
    <3>2. stopped' = stopped
      BY <2>8 DEF PollTimeout, PollFails, ReadBlock, ReadEof, ReadFails, Inject, history
    <3> QED
      BY <3>1, <3>2, InsideUnseen
  <2>9. CASE UNCHANGED vars
    BY <2>9 DEF vars, Phase, Reported, Outcome, Whole, source, stats, history
  <2> QED
    BY <2>1, <2>2, <2>3, <2>4, <2>5, <2>6, <2>7, <2>8, <2>9 DEF Next, Transmit, Environment
<1> QED
  BY <1>1, <1>2, ServiceInvHolds, PTL DEF Spec, ImplementsTransmission, Service!Spec
-------------------------------------------------------------------------------
(* The control frames around a transmission.                               *)

\* A frame at the end of the air is one more of its kind.
LEMMA CountAppend ==
    ASSUME TypeOK, NEW f \in FrameType, air' = Append(air, f), NEW kind \in Kinds
    PROVE  Count(kind)' = IF f.kind = kind THEN Count(kind) + 1 ELSE Count(kind)
<1> DEFINE places == {k \in DOMAIN air : air[k].kind = kind}
           places2 == {k \in DOMAIN air' : air'[k].kind = kind}
           last == Len(air) + 1
<1>1. /\ DOMAIN air' = DOMAIN air \cup {last} /\ air'[last] = f /\ last \notin DOMAIN air
      /\ \A k \in DOMAIN air : air'[k] = air[k]
  <2>1. air \in Seq(FrameType)
    BY DEF TypeOK
  <2> QED
    BY <2>1, AppendFacts
<1>2. IsFiniteSet(places) /\ last \notin places
  <2>1. DOMAIN air = 1..Len(air) /\ Len(air) \in Nat
    BY DEF TypeOK
  <2>2. IsFiniteSet(DOMAIN air)
    BY <2>1, FS_Interval
  <2> QED
    BY <1>1, <2>2, FS_Subset
<1>3. places2 = IF f.kind = kind THEN places \cup {last} ELSE places
  BY <1>1
<1>4. Cardinality(places \cup {last}) = Cardinality(places) + 1
  <2> HIDE DEF places, last
  <2> QED
    BY <1>2, FS_AddElement
<1> QED
  BY <1>3, <1>4 DEF Count

\* Nothing on the air, nothing counted.
LEMMA CountNone == ASSUME air = << >>, NEW kind PROVE Count(kind) = 0
<1>1. {k \in DOMAIN air : air[k].kind = kind} = {}
  OBVIOUS
<1> QED
  BY <1>1, FS_EmptySet DEF Count

\* Where the program is, how many control frames are on the air when none of them fails.
BracketInv ==
    "control" \notin Faults =>
        /\ pc = "start" => air = << >>
        /\ pc = "preamble" => Count("preamble") = ctrlSent /\ Count("eot") = 0
        /\ pc \in {"enter", "poll", "eintr", "read", "inject", "loop"}
           => Count("preamble") = Redundant + 1 /\ Count("eot") = 0
        /\ pc = "eot" => Count("preamble") = Redundant + 1 /\ Count("eot") = ctrlSent
        /\ pc = "leaving" \/ (pc = "idle" /\ calls > 0)
           => Count("preamble") = Redundant + 1 /\ Count("eot") = Redundant + 1

\* A control frame that does not fail is one more of its kind.
LEMMA ControlCounts ==
    ASSUME TypeOK, "control" \notin Faults, NEW kind \in {"preamble", "eot"}, SendControl(kind)
    PROVE  \A other \in Kinds :
             Count(other)' = IF other = kind THEN Count(other) + 1 ELSE Count(other)
<1> DEFINE f == [kind |-> kind, number |-> LastNumber, block |-> 0]
<1>1. air' = Append(air, f)
  BY DEF SendControl, Accepts
<1>2. f \in FrameType
  BY SourceAssumption DEF FrameType, Kinds, LastNumber, TypeOK, StatsOK
<1>3. f.kind = kind
  OBVIOUS
<1> HIDE DEF f
<1> QED
  BY <1>1, <1>2, <1>3, CountAppend

LEMMA BracketStep == ASSUME TypeInv, BracketInv, [Next]_vars PROVE BracketInv'
<1> SUFFICES ASSUME "control" \notin Faults PROVE BracketInv'
  BY DEF BracketInv
<1> USE DEF TypeInv
<1>0. Redundant \in Nat /\ ctrlSent \in 0..(Redundant + 1) /\ pc \in PCs
      /\ "preamble" \in Kinds /\ "eot" \in Kinds /\ "data" \in Kinds
  BY SettingAssumption DEF TypeOK, LoopOK, Kinds
<1>1. CASE Start
  BY <1>1 DEF Start, BracketInv
<1>2. CASE SetActivated
  <2>1. air = << >> /\ air' = air /\ pc' = "preamble" /\ ctrlSent' = 0
    BY <1>2 DEF SetActivated, BracketInv
  <2>2. Count("preamble")' = 0 /\ Count("eot")' = 0
    <3>1. Count("preamble") = 0 /\ Count("eot") = 0
      BY <2>1, CountNone
    <3> QED
      BY <2>1, <3>1 DEF Count
  <2> QED
    BY <2>1, <2>2 DEF BracketInv
<1>3. CASE SendPreamble
  <2>1. /\ pc = "preamble" /\ ctrlSent' = ctrlSent + 1
        /\ pc' = IF ctrlSent = Redundant THEN "enter" ELSE pc
    BY <1>3 DEF SendPreamble
  <2>2. Count("preamble")' = Count("preamble") + 1 /\ Count("eot")' = Count("eot")
    BY <1>0, <1>3, ControlCounts DEF SendPreamble
  <2> QED
    BY <2>1, <2>2 DEF BracketInv
<1>4. CASE SendEot
  <2>1. pc = "eot" /\ pc' = pc /\ ctrlSent' = ctrlSent + 1
    BY <1>4 DEF SendEot
  <2>2. Count("eot")' = Count("eot") + 1 /\ Count("preamble")' = Count("preamble")
    BY <1>0, <1>4, ControlCounts DEF SendEot
  <2> QED
    BY <2>1, <2>2 DEF BracketInv
<1>5. CASE Inject
  <2>1. pc = "inject" /\ pc' = "loop"
    BY <1>5 DEF Inject
  <2>2. Count("preamble")' = Count("preamble") /\ Count("eot")' = Count("eot")
    <3>1. CASE air' = air
      BY <3>1 DEF Count
    <3>2. CASE air' # air
      <4> DEFINE f == [kind |-> "data", number |-> DataNumber, block |-> pos]
      <4>1. air' = Append(air, f)
        BY <1>5, <3>2 DEF Inject
      <4>2. f \in FrameType
        BY SourceAssumption DEF FrameType, Kinds, DataNumber, TypeOK, StatsOK, SourceOK
      <4>3. f.kind = "data"
        OBVIOUS
      <4> HIDE DEF f
      <4> QED
        BY <1>0, <4>1, <4>2, <4>3, CountAppend
    <3> QED
      BY <3>1, <3>2
  <2> QED
    BY <2>1, <2>2 DEF BracketInv
<1>6. CASE EnterPoll \/ PollTimeout \/ PollFails \/ PollReady
            \/ ReadBlock \/ ReadEof \/ ReadFails \/ ContinueLoop
  <2>1. /\ pc \in {"enter", "poll", "eintr", "read", "loop"}
        /\ pc' \in {"enter", "poll", "eintr", "read", "inject", "loop"}
        /\ air' = air
    BY <1>6 DEF EnterPoll, PollTimeout, PollFails, PollReady, ReadBlock, ReadEof, ReadFails,
                ContinueLoop
  <2> QED
    BY <2>1 DEF BracketInv, Count
<1>7. CASE EndLoop
  BY <1>7 DEF EndLoop, BracketInv, Count
<1>8. CASE Return
  BY <1>0, <1>8 DEF Return, BracketInv, Count
<1>9. CASE Leave
  BY <1>9 DEF Leave, BracketInv, Count
<1>10. CASE Feed \/ HangUp
  BY <1>10 DEF Feed, HangUp, BracketInv, Count
<1>11. CASE Stop
  <2>1. /\ pc # "idle" /\ pc' = (IF pc = "poll" THEN "eintr" ELSE pc)
        /\ UNCHANGED <<air, ctrlSent>>
    BY <1>11 DEF Stop
  <2> QED
    BY <2>1 DEF BracketInv, Count
<1>12. CASE UNCHANGED vars
  BY <1>12 DEF vars, BracketInv, Count
<1> QED
  BY <1>1, <1>2, <1>3, <1>4, <1>5, <1>6, <1>7, <1>8, <1>9, <1>10, <1>11, <1>12
  DEF Next, Transmit, Environment

\* Every transmission that returned announced its beginning and its end as often as
\* configured, for any source and wherever a stop, a timeout or a failure cut it short.
THEOREM TransmissionIsBracketed == Spec => []Bracketed
<1>1. Init => TypeInv /\ BracketInv
  BY InitTypeOK DEF TypeInv, CtrlInv, Init, BracketInv
<1>2. BracketInv => Bracketed
  BY DEF BracketInv, Bracketed
<1> QED
  BY <1>1, <1>2, NextTypeInv, BracketStep, PTL DEF Spec
===============================================================================

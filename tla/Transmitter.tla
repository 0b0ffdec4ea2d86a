----------------------------- MODULE Transmitter -----------------------------
(***************************************************************************)
(* The transmission engine of libdxwifi/transmitter.c: start_transmission  *)
(* with its control frames, its poll-read-inject loop and its statistics,  *)
(* and stop_transmission, which the SIGINT handler of dxwifi/tx/tx.c runs  *)
(* at any instant of a transmission.                                       *)
(*                                                                         *)
(*   idle -> start -> preamble -> enter -> poll -> read -> inject -> loop  *)
(*                                  ^                                 |    *)
(*                                  +---------------------------------+    *)
(*                                          loop -> eot -> leaving -> idle *)
(* "leaving" is the instant between the last test of the flag and the      *)
(* removal of the signal handler.                                          *)
(*                                                                         *)
(* The source is a sequence of blocks, of which only the sizes matter; a   *)
(* stream's blocks become readable one by one, a file's are all there.     *)
(* The air is the sequence of frames that pcap accepted.                   *)
(***************************************************************************)
EXTENDS Integers, Sequences, FiniteSets

CONSTANTS
    Source,         \* sizes of the blocks that read(2) returns, in order
    IsStream,       \* is the descriptor a stream, or a file?
    Redundant,      \* tx->redundant_ctrl_frames
    HdrSize,        \* bytes of the headers and the FCS around a payload
    Numbered,       \* is attach_frame_number in the preinjection pipeline?
    HasTimeout,     \* is tx->transmit_timeout finite?
    StatMod,        \* 2^32, the range of the uint32_t counters
    Faults,         \* subset of {"poll", "read", "inject", "control"} that may happen
    MaxReadErrors,  \* bound: reads of a transmission that fail
    MaxStops,       \* bound: SIGINTs
    MaxCalls        \* bound: calls of start_transmission

ASSUME SourceAssumption ==
    /\ Source \in Seq(Nat \ {0})
    /\ StatMod \in Nat \ {0, 1}
    /\ \A i \in DOMAIN Source : Source[i] < StatMod - 1
ASSUME SettingAssumption ==
    /\ Redundant \in Nat /\ HdrSize \in Nat
    /\ IsStream \in BOOLEAN /\ Numbered \in BOOLEAN /\ HasTimeout \in BOOLEAN
    /\ Faults \subseteq {"poll", "read", "inject", "control"}
ASSUME BoundAssumption == MaxReadErrors \in Nat /\ MaxStops \in Nat /\ MaxCalls \in Nat

VARIABLES
    pc,             \* where start_transmission is
    activated,      \* tx->__activated
    ctrlSent,       \* control frames injected by this send_control_frame
    fed,            \* blocks of the source that are readable
    hungUp,         \* has the source ended behind them?
    pos,            \* blocks read
    frameCount,     \* stats.frame_count
    bytesRead,      \* stats.total_bytes_read
    bytesSent,      \* stats.total_bytes_sent
    prevRead,       \* stats.prev_bytes_read
    txState,        \* stats.tx_state
    air,            \* frames injected: <<[kind, number, block], ...>>
    stops, calls,   \* how often the bounded events happened
    readErrors,     \* history: reads of this transmission that failed
    stopped,        \* history: was it stopped, and did the stop take effect?
    late            \* history: data frames given to pcap since that stop

stats   == <<frameCount, bytesRead, bytesSent, prevRead, txState>>
source  == <<fed, hungUp, pos>>
history == <<readErrors, stopped, late>>
vars == <<pc, activated, ctrlSent, source, stats, air, stops, calls, history>>

PCs == {"idle", "start", "preamble", "enter", "poll", "eintr", "read", "inject", "loop", "eot",
        "leaving"}
States == {"NORMAL", "TIMED_OUT", "DEACTIVATED", "ERROR"}
Kinds == {"preamble", "data", "eot"}

\* What pcap sends when a frame was never numbered: addr1 is all ones.
Unnumbered == -1

-------------------------------------------------------------------------------
(* Helpers.  A definition named Slip... is a plausible slip in the one that *)
(* follows it: no action uses it, and each property is shown to break when *)
(* the slip takes the place of the definition.                             *)

\* The counter taken for a signed one of any width.
SlipAddStat(counter, n) == counter + n

AddStat(counter, n) == (counter + n) % StatMod

\* Line 479: is there more to transmit?
SlipActiveAfterEnd == activated
SlipActiveAfterStop == prevRead > 0
Active == activated /\ prevRead > 0

\* attach_frame_number: what addr1 of a data frame holds.
DataNumber == IF Numbered THEN frameCount ELSE Unnumbered

\* Line 474: frame_count after an injection that was sent, or not.
SlipCountFrame(sent) == IF sent THEN AddStat(frameCount, 1) ELSE frameCount
CountFrame(sent) == AddStat(frameCount, 1)

\* The result of a read that failed, as its unsigned variable holds it.
ReadError == StatMod - 1

\* What pcap_inject may do with a frame: send it or fail.  It fails for the length
\* that a failed read is mistaken for.
Accepts(fault) == IF fault \in Faults THEN BOOLEAN ELSE {TRUE}
Injects(size) == IF size = ReadError THEN {FALSE} ELSE Accepts("inject")

-------------------------------------------------------------------------------
Init ==
    /\ pc = "idle" /\ activated = FALSE /\ ctrlSent = 0
    /\ fed = 0 /\ hungUp = FALSE /\ pos = 0
    /\ frameCount = 0 /\ bytesRead = 0 /\ bytesSent = 0 /\ prevRead = 0
    /\ txState = "NORMAL"
    /\ air = << >>
    /\ stops = 0 /\ calls = 0
    /\ readErrors = 0 /\ stopped = "no" /\ late = 0

-------------------------------------------------------------------------------
(* The environment: the writer of a stream, and the user.                  *)

Feed ==
    /\ IsStream /\ pc # "idle" /\ fed < Len(Source)
    /\ fed' = fed + 1
    /\ UNCHANGED <<pc, activated, ctrlSent, hungUp, pos, stats, air, stops, calls, history>>

HangUp ==
    /\ IsStream /\ pc # "idle" /\ fed = Len(Source) /\ ~hungUp
    /\ hungUp' = TRUE
    /\ UNCHANGED <<pc, activated, ctrlSent, fed, pos, stats, air, stops, calls, history>>

\* stop_transmission, run by the signal handler while it is installed.
Stop ==
    /\ pc # "idle" /\ stops < MaxStops
    /\ activated' = FALSE
    /\ pc' = IF pc = "poll" THEN "eintr" ELSE pc
    /\ stops' = stops + 1
    /\ IF stopped = "live" THEN UNCHANGED <<stopped, late>>
       ELSE /\ stopped' = IF pc \in {"start", "leaving"} THEN "lost" ELSE "live"
            /\ late' = 0
    /\ UNCHANGED <<ctrlSent, source, stats, air, calls, readErrors>>

-------------------------------------------------------------------------------
(* start_transmission                                                      *)

\* A transmission begins at the start of its source, with fresh statistics.
Start ==
    /\ pc = "idle" /\ calls < MaxCalls
    /\ pc' = "start"
    /\ calls' = calls + 1
    /\ pos' = 0
    /\ fed' = IF IsStream THEN 0 ELSE Len(Source)
    /\ hungUp' = ~IsStream
    /\ frameCount' = 0 /\ bytesRead' = 0 /\ bytesSent' = 0 /\ prevRead' = 0
    /\ txState' = "NORMAL"
    /\ air' = << >>
    /\ readErrors' = 0 /\ stopped' = "no" /\ late' = 0
    /\ UNCHANGED <<activated, ctrlSent, stops>>

\* tx->__activated = true, whatever a stop has just set it to.
SetActivated ==
    /\ pc = "start"
    /\ activated' = TRUE
    /\ ctrlSent' = 0
    /\ pc' = "preamble"
    /\ UNCHANGED <<source, stats, air, stops, calls, history>>

\* What addr1 holds when a control frame leaves: the number of the last data frame.
LastNumber == IF Numbered /\ frameCount > 0 THEN frameCount - 1 ELSE Unnumbered

\* One frame of send_control_frame; its result is only logged.
SendControl(kind) ==
    /\ \E sent \in Accepts("control") :
         air' = IF sent
                THEN Append(air, [kind |-> kind, number |-> LastNumber, block |-> 0])
                ELSE air
    /\ UNCHANGED <<activated, source, frameCount, bytesRead, bytesSent, prevRead,
                   stops, calls, history>>

SendPreamble ==
    /\ pc = "preamble"
    /\ SendControl("preamble")
    /\ ctrlSent' = ctrlSent + 1
    /\ pc' = IF ctrlSent = Redundant THEN "enter" ELSE pc
    /\ UNCHANGED txState

EnterPoll ==
    /\ pc = "enter"
    /\ pc' = "poll"
    /\ UNCHANGED <<activated, ctrlSent, source, stats, air, stops, calls, history>>

Readable == pos < fed \/ hungUp

PollTimeout ==
    /\ pc = "poll" /\ HasTimeout /\ ~Readable
    /\ txState' = "TIMED_OUT"
    /\ activated' = FALSE
    /\ pc' = "loop"
    /\ UNCHANGED <<ctrlSent, source, frameCount, bytesRead, bytesSent, prevRead, air,
                   stops, calls, history>>

\* The failure passes for a stop, or the code that injects a block follows it.
SlipPollFails(state, next) ==
    /\ pc = "eintr" \/ (pc = "poll" /\ "poll" \in Faults)
    /\ txState' = IF activated THEN state ELSE "DEACTIVATED"
    /\ pc' = next
    /\ UNCHANGED <<activated, ctrlSent, source, frameCount, bytesRead, bytesSent, prevRead,
                   air, stops, calls, history>>
SlipPollFailsReinjects == SlipPollFails("ERROR", "inject")
SlipPollFailsStopped   == SlipPollFails("DEACTIVATED", "loop")

\* poll(2) < 0: interrupted by the signal, or failing by itself.
PollFails ==
    /\ pc = "eintr" \/ (pc = "poll" /\ "poll" \in Faults)
    /\ txState' = IF activated THEN "ERROR" ELSE "DEACTIVATED"
    /\ pc' = "loop"
    /\ UNCHANGED <<activated, ctrlSent, source, frameCount, bytesRead, bytesSent, prevRead,
                   air, stops, calls, history>>

PollReady ==
    /\ pc = "poll" /\ Readable
    /\ pc' = "read"
    /\ UNCHANGED <<activated, ctrlSent, source, stats, air, stops, calls, history>>

ReadBlock ==
    /\ pc = "read" /\ pos < fed
    /\ pos' = pos + 1
    /\ prevRead' = Source[pos + 1]
    /\ pc' = "inject"
    /\ UNCHANGED <<activated, ctrlSent, fed, hungUp, frameCount, bytesRead, bytesSent,
                   txState, air, stops, calls, history>>

ReadEof ==
    /\ pc = "read" /\ pos = fed
    /\ prevRead' = 0
    /\ pc' = "loop"
    /\ UNCHANGED <<activated, ctrlSent, source, frameCount, bytesRead, bytesSent, txState,
                   air, stops, calls, history>>

\* The -1 lands in a uint32_t, so it passes for a block of 2^32 - 1 bytes.
ReadFails ==
    /\ pc = "read" /\ "read" \in Faults /\ readErrors < MaxReadErrors
    /\ prevRead' = ReadError
    /\ readErrors' = readErrors + 1
    /\ pc' = "inject"
    /\ UNCHANGED <<activated, ctrlSent, source, frameCount, bytesRead, bytesSent, txState,
                   air, stops, calls, stopped, late>>

\* The pipelines run around pcap_inject; the first packs frame_count into the frame.
\* The statistics count the frame whether or not it was sent.
Inject ==
    /\ pc = "inject"
    /\ \E sent \in Injects(prevRead) :
         /\ air' = IF sent
                   THEN Append(air, [kind   |-> "data",
                                     number |-> DataNumber,
                                     block  |-> pos])
                   ELSE air
         /\ bytesSent' = AddStat(bytesSent, IF sent THEN HdrSize + prevRead ELSE -1)
         /\ frameCount' = CountFrame(sent)
    /\ bytesRead' = AddStat(bytesRead, prevRead)
    /\ late' = IF stopped = "no" THEN 0 ELSE late + 1
    /\ pc' = "loop"
    /\ UNCHANGED <<activated, ctrlSent, source, prevRead, txState, stops, calls, readErrors,
                   stopped>>

ContinueLoop ==
    /\ pc = "loop" /\ Active
    /\ pc' = "enter"
    /\ UNCHANGED <<activated, ctrlSent, source, stats, air, stops, calls, history>>

\* A transmission that was stopped is not ended by EOTs.
SlipEndLoop ==
    /\ pc = "loop" /\ ~Active
    /\ ctrlSent' = 0
    /\ pc' = IF activated THEN "eot" ELSE "leaving"
    /\ UNCHANGED <<activated, source, stats, air, stops, calls, history>>

EndLoop ==
    /\ pc = "loop" /\ ~Active
    /\ ctrlSent' = 0
    /\ pc' = "eot"
    /\ UNCHANGED <<activated, source, stats, air, stops, calls, history>>

SendEot ==
    /\ pc = "eot" /\ ctrlSent <= Redundant
    /\ SendControl("eot")
    /\ ctrlSent' = ctrlSent + 1
    /\ UNCHANGED <<pc, txState>>

\* Lines 489-491.
Return ==
    /\ pc = "eot" /\ ctrlSent > Redundant
    /\ txState' = IF txState = "NORMAL" /\ ~activated THEN "DEACTIVATED" ELSE txState
    /\ pc' = "leaving"
    /\ UNCHANGED <<activated, ctrlSent, source, frameCount, bytesRead, bytesSent, prevRead,
                   air, stops, calls, history>>

\* tx.c:226: the signal handler is removed.
Leave ==
    /\ pc = "leaving"
    /\ pc' = "idle"
    /\ UNCHANGED <<activated, ctrlSent, source, stats, air, stops, calls, history>>

-------------------------------------------------------------------------------
\* The steps the transmitter takes by itself once a transmission has begun.
Transmit ==
    \/ SetActivated \/ SendPreamble
    \/ EnterPoll \/ PollTimeout \/ PollFails \/ PollReady
    \/ ReadBlock \/ ReadEof \/ ReadFails \/ Inject
    \/ ContinueLoop \/ EndLoop \/ SendEot \/ Return \/ Leave

Environment == Feed \/ HangUp \/ Stop

Next == Start \/ Transmit \/ Environment

Spec == Init /\ [][Next]_vars

\* The process is scheduled, and poll(2) reports what is ready or that nothing was: it
\* does not fail by itself for ever.  Nothing is assumed of the writer of a stream or of
\* the user.
FairSpec == Spec /\ WF_vars(Transmit) /\ SF_vars(PollReady \/ PollTimeout)

-------------------------------------------------------------------------------
(* Properties                                                              *)

FrameType == [kind : Kinds, number : Nat \cup {Unnumbered}, block : Nat]

\* Type invariant: the range of every variable of the loop, its source, its statistics
\* and the frames on the air.
LoopOK ==
    /\ pc \in PCs /\ activated \in BOOLEAN /\ ctrlSent \in 0..(Redundant + 1)
    /\ stops \in 0..MaxStops /\ calls \in 0..MaxCalls
    /\ readErrors \in 0..MaxReadErrors /\ stopped \in {"no", "lost", "live"} /\ late \in Nat
SourceOK ==
    /\ fed \in 0..Len(Source) /\ pos \in 0..fed /\ hungUp \in BOOLEAN
    /\ hungUp => fed = Len(Source)
StatsOK ==
    /\ frameCount \in 0..(StatMod - 1) /\ bytesRead \in 0..(StatMod - 1)
    /\ bytesSent \in 0..(StatMod - 1) /\ prevRead \in 0..(StatMod - 1)
    /\ txState \in States
TypeOK == LoopOK /\ SourceOK /\ StatsOK /\ air \in Seq(FrameType)

\* What is on the air is one well-formed transmission at every instant: preambles, then
\* the blocks of the source in order and none twice, then EOTs (transmitter.c:442-487),
\* whichever stop, timeout or failure cut it short.
Rank == [preamble |-> 1, data |-> 2, eot |-> 3]
AirWellFormed ==
    \A i, j \in DOMAIN air : i < j =>
        /\ Rank[air[i].kind] <= Rank[air[j].kind]
        /\ air[i].kind = "data" /\ air[j].kind = "data" => air[i].block < air[j].block

\* A transmission that returns has announced its beginning and its end as often as
\* configured, also when it was stopped or timed out before any data.
Count(kind) == Cardinality({i \in DOMAIN air : air[i].kind = kind})
Bracketed ==
    pc = "idle" /\ calls > 0 /\ "control" \notin Faults
    => Count("preamble") = Redundant + 1 /\ Count("eot") = Redundant + 1

\* The number packed into a frame is the place of its block in the source, on which the
\* receiver relies to sort blocks and to fill gaps, also after injections that failed:
\* frame_count counts those too (transmitter.c:469-474).  A read that fails breaks it.
NumbersArePlaces ==
    \A i \in DOMAIN air :
        air[i].kind = "data" /\ Numbered /\ readErrors = 0 /\ Len(Source) < StatMod
        => air[i].number = air[i].block - 1

\* A transmission that reports NORMAL has read its source to the end and given every
\* block to pcap, which transmit_files takes as leave to go on (tx.c:259, 268).
OnAir(b) == \E i \in DOMAIN air : air[i].kind = "data" /\ air[i].block = b
NormalMeansComplete ==
    pc = "idle" /\ calls > 0 /\ txState = "NORMAL"
    => /\ hungUp /\ pos = Len(Source)
       /\ "inject" \notin Faults => \A b \in 1..Len(Source) : OnAir(b)

\* A stop that finds the transmission active is never reported as NORMAL: otherwise
\* transmit_files would begin the next file (transmitter.c:489-491).
StopIsReported == pc = "idle" /\ stopped = "live" => txState # "NORMAL"

\* A stop that finds the transmission active lets at most one more data frame out.
StopIsPrompt == stopped = "live" => late <= 1

\* A transmission of a file, or of a stream with a timeout, ends, whatever blocks fail
\* to be injected and whenever it is stopped, as long as only so many reads fail: a
\* descriptor every read of which fails keeps the loop going for ever (line 462).
TransmissionEnds == pc = "start" ~> pc = "idle"

\* transmitter.c implements what TxProgram relies on, whatever fails below it.
Phase ==
    CASE pc = "idle" -> "idle" [] pc = "start" -> "begun" [] pc = "leaving" -> "done"
      [] OTHER -> "active"
Reported == pc \in {"leaving", "idle"}
Outcome  == IF Reported THEN txState ELSE "NORMAL"
Whole    == Reported /\ calls > 0 /\ pos = Len(Source)
Service == INSTANCE Transmission WITH
    Outcomes <- States, phase <- Phase, heard <- stopped = "live", outcome <- Outcome,
    whole <- Whole
ImplementsTransmission == Service!Spec

\* As documented (transmitter.h:335-336): after stop_transmission "At most one more
\* packet may be transmitted", also when the handler that calls it ran first.
StopIsPromptAlways == late <= 1
===============================================================================

-------------------------------- MODULE Session --------------------------------
(***************************************************************************)
(* A ground station and a satellite: a sender that transmits files one     *)
(* after the other, the air that loses and doubles frames, and the program *)
(* that receives them.  The sender is what Transmitter shows of            *)
(* start_transmission (AirWellFormed, Bracketed): preambles, the blocks of *)
(* the source in order, and EOTs, with blocks left out when it is stopped. *)
(* Its control frames and the beginnings of transmissions are all that     *)
(* tells the receiver where a file ends.                                   *)
(***************************************************************************)
EXTENDS RxProgram, FiniteSets

CONSTANTS
    Sent,           \* of each transmission, in order: the number of its blocks
    ControlFrames,  \* redundant_ctrl_frames + 1
    RingSize,       \* bound: frames in the kernel of the receiver
    MaxFaults       \* bound: frames lost or doubled, and transmissions stopped

ASSUME SessionAssumption ==
    /\ Sent \in Seq(Nat) /\ ControlFrames \in Nat /\ RingSize \in Nat \ {0}
    /\ MaxFaults \in Nat \ {0}

VARIABLES
    tx, pos,                    \* the transmission, and its next frame
    faults,                     \* how often things went wrong
    announced                   \* history: transmissions with a preamble that was received

sender == <<tx, pos, faults, announced>>

Frame(kind, n, b) == [kind |-> kind, tx |-> n, block |-> b]
Blocks(n) == [b \in 1..Sent[n] |-> Frame("data", n, b)]
Frames(n) ==
    [i \in 1..ControlFrames |-> Frame("preamble", n, 0)] \o Blocks(n)
    \o [i \in 1..ControlFrames |-> Frame("eot", n, 0)]

Transmissions == DOMAIN Sent
Sending == tx \in Transmissions /\ pos <= Len(Frames(tx))
Listening == pc \notin Over \cup {"parse", "setup"}

SessionInit ==
    /\ Init
    /\ tx = 1 /\ pos = 1 /\ faults = 0 /\ announced = {}

Receives(f) ==
    /\ Listening /\ Len(ring) < RingSize
    /\ ring' = Append(ring, f)
    /\ announced' = IF f.kind = "preamble" THEN announced \cup {tx} ELSE announced
    /\ UNCHANGED <<pc, cli, installed, capture, state, output, stops, consumed>>

Deliver ==
    /\ Sending /\ Receives(Frames(tx)[pos])
    /\ pos' = pos + 1
    /\ UNCHANGED <<tx, faults>>

\* The frame arrives, and will arrive again.
Double ==
    /\ Sending /\ faults < MaxFaults /\ Receives(Frames(tx)[pos])
    /\ faults' = faults + 1
    /\ UNCHANGED <<tx, pos>>

\* Sent while nobody listens.
Unheard ==
    /\ Sending /\ ~Listening
    /\ pos' = pos + 1
    /\ faults' = IF faults = 0 THEN 1 ELSE faults
    /\ UNCHANGED <<vars, tx, announced>>

Lose ==
    /\ Sending /\ Listening /\ faults < MaxFaults
    /\ faults' = faults + 1
    /\ pos' = pos + 1
    /\ UNCHANGED <<vars, tx, announced>>

\* stop_transmission: the blocks that are left are not sent, the EOTs are.
Cut ==
    /\ Sending /\ faults < MaxFaults
    /\ pos > ControlFrames /\ pos <= ControlFrames + Sent[tx]
    /\ pos' = ControlFrames + Sent[tx] + 1
    /\ faults' = faults + 1
    /\ UNCHANGED <<vars, tx, announced>>

NextTransmission ==
    /\ tx \in Transmissions /\ ~Sending
    /\ tx' = tx + 1 /\ pos' = 1
    /\ UNCHANGED <<vars, faults, announced>>

Sender == Deliver \/ Unheard \/ NextTransmission
Receiver == (Program \/ Sigint) /\ UNCHANGED sender

Next == Receiver \/ Sender \/ Double \/ Lose \/ Cut

Spec == SessionInit /\ [][Next]_<<vars, sender>>

\* Both processes are scheduled, and a capture with a timeout ends in silence
\* (SilenceEndsCapture of Receiver).
FairSpec == Spec /\ WF_<<vars, sender>>(Program /\ UNCHANGED sender) /\ WF_<<vars, sender>>(Sender)

-------------------------------------------------------------------------------
(* Properties                                                              *)

\* What a file holds beyond what it held before.  A file that is neither new nor appended
\* to keeps its old tail: see the README.
Pristine == args.append \/ \A n \in Numbers : old[n] = << >>
New(n) == SubSeq(disk[n], Len(old[n]) + 1, Len(disk[n]))

\* That, and what the running capture holds for the file.
Held(n) == IF phase = "active" /\ n = File THEN New(n) \o taken ELSE New(n)

\* Nothing is lost or doubled at the seams between captures: cut at the right places, what
\* was received is what each file holds, in the order of their numbers, and what the running
\* capture holds, whatever ended the captures and whenever SIGINT kills the program, which
\* it does only when all is written (rx.c:143-145, 200-204, receiver.c:549).
SeamsLoseNothing ==
    Pristine =>
        /\ \A n \in Numbers : n >= count => New(n) = << >>
        /\ \E cut \in [0..count -> 0..Len(consumed)] :
              /\ cut[0] = 0 /\ cut[count] = Len(consumed)
              /\ \A n \in 1..count :
                    /\ cut[n - 1] <= cut[n]
                    /\ Held(n - 1) = SubSeq(consumed, cut[n - 1] + 1, cut[n])

\* A file holds blocks of two transmissions only if every preamble of the later one, and
\* of all between them, was lost (receiver.c:276-279).
OneSourcePerFile ==
    Pristine => \A n \in Numbers : \A i, j \in DOMAIN New(n) :
        LET a == New(n)[i].tx   b == New(n)[j].tx
        IN  i < j => a <= b /\ announced \cap (a + 1)..b = {}

\* Without a stop, files and transmissions correspond in order: no transmission is spread
\* over two files and no file but the last is empty, although preambles come several times
\* and files without blocks come and go (rx.c:199-204).
OneFilePerTransmission ==
    (Pristine /\ stops = 0) => \A n \in 1..(count - 1) :
        /\ New(n - 1) # << >>
        /\ \A i \in DOMAIN New(n - 1), j \in DOMAIN New(n) : New(n - 1)[i].tx < New(n)[j].tx

\* From end to end: when nothing went wrong and the receiver outlasted the sender, its
\* n-th file holds exactly the blocks of the n-th file that has any.
Earlier(n) == {m \in Transmissions : m < n /\ Sent[m] > 0}
Delivered ==
    (/\ pc = "exited" /\ args.mode = "DIRECTORY" /\ state # "ERROR" /\ stops = 0 /\ Pristine
     /\ faults = 0 /\ ring = << >> /\ tx \notin Transmissions)
    => \A n \in Transmissions : Sent[n] > 0 => New(Cardinality(Earlier(n))) = Blocks(n)

\* A receiver with a timeout exits once the sender has fallen silent, in every mode.
SilenceEndsProgram == (pc = "loop" /\ args.capture_timeout >= 0) ~> pc \in Over
===============================================================================

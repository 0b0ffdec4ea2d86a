----------------------------- MODULE SessionProofs -----------------------------
(***************************************************************************)
(* Theorems about Session, for every number and size of transmissions and  *)
(* whatever the air loses, doubles or cuts off: that the files hold what   *)
(* was received, which transmissions a file holds blocks of, and that what *)
(* is sent without faults is delivered.                                    *)
(***************************************************************************)
EXTENDS Session, SequenceTheorems, FiniteSetTheorems, TLAPS

-------------------------------------------------------------------------------
(* Type correctness, in two parts: the program, and the sender with the    *)
(* air.  Nothing is said of the arguments.                                 *)

Running == {"parse", "setup", "loop", "open", "install", "capture"}
AirFrames == [kind : {"preamble", "data", "eot"}, tx : Transmissions, block : Nat]
DataFrames == {f \in AirFrames : f.kind = "data"}
Contents == AirFrames \cup UNION {Range(file) : file \in OldFiles}

CaptureType ==
    /\ pc \in Running \cup Over /\ stops \in Nat
    /\ phase \in Engine!Phases /\ heard \in BOOLEAN /\ boundary \in BOOLEAN
    /\ taken \in Seq(DataFrames) /\ consumed \in Seq(DataFrames)
DiskType ==
    /\ count \in 0..MaxFiles
    /\ disk \in [Numbers -> Seq(Contents)] /\ old \in [Numbers -> Seq(Contents)]
AirType ==
    /\ ring \in Seq(AirFrames)
    /\ tx \in 1..(Len(Sent) + 1) /\ pos \in Nat \ {0} /\ faults \in Nat
    /\ announced \subseteq Transmissions
    /\ tx = Len(Sent) + 1 => pos = 1

\* Where the program is when it has how many files, and which files are still as they were.
FilesInv ==
    /\ pc = "capture" <=> phase # "idle"
    /\ installed <=> pc = "capture"
    /\ pc \in {"parse", "setup"} => count = 0
    /\ pc \in {"open", "install", "capture"} => count > 0
    /\ phase = "begun" => taken = << >> /\ ~boundary
    /\ phase # "idle" /\ boundary => taken # << >>
    /\ \A n \in Numbers :
          \/ n >= count
          \/ n = File /\ (pc \in {"open", "install"} \/ phase \in {"begun", "active"})
          => disk[n] = old[n]

\* The arguments are not known before they are parsed.
Good == Pristine \/ pc = "parse"

LEMMA FrameParts ==
    ASSUME NEW k, NEW n, NEW b
    PROVE  /\ Frame(k, n, b).kind = k /\ Frame(k, n, b).tx = n /\ Frame(k, n, b).block = b
           /\ k \in {"preamble", "data", "eot"} /\ n \in Transmissions /\ b \in Nat
              => Frame(k, n, b) \in AirFrames
BY DEF Frame, AirFrames

LEMMA SentType == Len(Sent) \in Nat /\ Transmissions = 1..Len(Sent) /\ Sent \in [Transmissions -> Nat]
BY SessionAssumption DEF Transmissions

\* What is sent at each place of a transmission.
LEMMA FramesAre ==
    ASSUME NEW n \in Transmissions
    PROVE  /\ Len(Frames(n)) = ControlFrames + Sent[n] + ControlFrames
           /\ \A i \in 1..Len(Frames(n)) :
                 Frames(n)[i] = IF i <= ControlFrames THEN Frame("preamble", n, 0)
                                ELSE IF i <= ControlFrames + Sent[n]
                                THEN Frame("data", n, i - ControlFrames) ELSE Frame("eot", n, 0)
           /\ Blocks(n) \in Seq(DataFrames) /\ Len(Blocks(n)) = Sent[n]
           /\ \A b \in 1..Sent[n] : Blocks(n)[b] = Frame("data", n, b)
<1> DEFINE c == ControlFrames
           m == Sent[n]
           p == [i \in 1..c |-> Frame("preamble", n, 0)]
           e == [i \in 1..c |-> Frame("eot", n, 0)]
           d == Blocks(n)
<1>1. c \in Nat /\ m \in Nat
  BY SessionAssumption, SentType
<1>2. /\ p \in Seq(AirFrames) /\ Len(p) = c /\ \A i \in 1..c : p[i] = Frame("preamble", n, 0)
      /\ e \in Seq(AirFrames) /\ Len(e) = c /\ \A i \in 1..c : e[i] = Frame("eot", n, 0)
  <2>1. Frame("preamble", n, 0) \in AirFrames /\ Frame("eot", n, 0) \in AirFrames
    BY FrameParts
  <2> QED
    BY <1>1, <2>1
<1>3. d \in Seq(DataFrames) /\ Len(d) = m /\ \A b \in 1..m : d[b] = Frame("data", n, b)
  <2>1. \A b \in 1..m : Frame("data", n, b) \in DataFrames
    BY <1>1, FrameParts DEF DataFrames
  <2> QED
    BY <1>1, <2>1 DEF Blocks
<1>4. d \in Seq(AirFrames)
  <2>1. DataFrames \subseteq AirFrames
    BY DEF DataFrames
  <2> QED
    BY <1>3, <2>1, SeqMonotonic
<1>5. Frames(n) = p \o d \o e
  BY DEF Frames
<1> HIDE DEF p, e, d, m
<1>6. /\ p \o d \in Seq(AirFrames) /\ Len(p \o d) = c + m
      /\ \A i \in 1..(c + m) : (p \o d)[i] = IF i <= c THEN p[i] ELSE d[i - c]
  <2>1. /\ p \o d \in Seq(AirFrames) /\ Len(p \o d) = Len(p) + Len(d)
        /\ \A i \in 1..(Len(p) + Len(d)) : (p \o d)[i] = IF i <= Len(p) THEN p[i] ELSE d[i - Len(p)]
    BY <1>2, <1>4, ConcatProperties
  <2>2. Len(p) = c /\ Len(d) = m
    BY <1>2, <1>3
  <2> QED
    BY <2>1, <2>2
<1>7. /\ Len(p \o d \o e) = c + m + c
      /\ \A i \in 1..(c + m + c) :
            (p \o d \o e)[i] = IF i <= c + m THEN (p \o d)[i] ELSE e[i - (c + m)]
  <2> DEFINE x == p \o d
  <2> HIDE DEF x
  <2>1. x \in Seq(AirFrames) /\ Len(x) = c + m /\ Len(e) = c
    BY <1>2, <1>6 DEF x
  <2>2. /\ Len(x \o e) = Len(x) + Len(e)
        /\ \A i \in 1..(Len(x) + Len(e)) : (x \o e)[i] = IF i <= Len(x) THEN x[i] ELSE e[i - Len(x)]
    BY <1>2, <2>1, ConcatProperties
  <2> QED
    BY <2>1, <2>2 DEF x
<1>8. ASSUME NEW i \in 1..(c + m + c)
      PROVE  (p \o d \o e)[i] = IF i <= c THEN Frame("preamble", n, 0)
                                ELSE IF i <= c + m THEN Frame("data", n, i - c) ELSE Frame("eot", n, 0)
  <2>1. CASE i <= c
    <3>1. i <= c + m /\ i \in 1..(c + m) /\ i \in 1..c
      BY <1>1, <2>1
    <3> QED
      BY <1>2, <1>6, <1>7, <2>1, <3>1
  <2>2. CASE i > c /\ i <= c + m
    <3>1. ~(i <= c) /\ i \in 1..(c + m) /\ i - c \in 1..m
      BY <1>1, <2>2
    <3> QED
      BY <1>3, <1>6, <1>7, <2>2, <3>1
  <2>3. CASE i > c + m
    <3>1. ~(i <= c) /\ ~(i <= c + m) /\ i - (c + m) \in 1..c
      BY <1>1, <2>3
    <3> QED
      BY <1>2, <1>7, <3>1
  <2>4. \/ i <= c \/ (i > c /\ i <= c + m) \/ i > c + m
    BY <1>1
  <2> QED
    BY <2>1, <2>2, <2>3, <2>4
<1> QED
  BY <1>3, <1>5, <1>7, <1>8 DEF d, m

\* The frame that the sender is about to send.
LEMMA NextFrame ==
    ASSUME AirType, Sending
    PROVE  /\ tx \in Transmissions /\ Sent[tx] \in Nat /\ ControlFrames \in Nat
           /\ Frames(tx)[pos] = IF pos <= ControlFrames THEN Frame("preamble", tx, 0)
                                ELSE IF pos <= ControlFrames + Sent[tx]
                                THEN Frame("data", tx, pos - ControlFrames) ELSE Frame("eot", tx, 0)
           /\ Frames(tx)[pos] \in AirFrames
<1>1. tx \in Transmissions /\ Sent[tx] \in Nat /\ ControlFrames \in Nat /\ pos \in Nat \ {0}
  BY SentType, SessionAssumption DEF Sending, AirType
<1>2. pos \in 1..Len(Frames(tx))
  <2>1. Len(Frames(tx)) \in Nat
    BY <1>1, FramesAre
  <2> QED
    BY <1>1, <2>1 DEF Sending
<1>3. Frames(tx)[pos] = IF pos <= ControlFrames THEN Frame("preamble", tx, 0)
                        ELSE IF pos <= ControlFrames + Sent[tx]
                        THEN Frame("data", tx, pos - ControlFrames) ELSE Frame("eot", tx, 0)
  BY <1>1, <1>2, FramesAre
<1>4. CASE pos <= ControlFrames
  BY <1>1, <1>3, <1>4, FrameParts
<1>5. CASE ~(pos <= ControlFrames) /\ pos <= ControlFrames + Sent[tx]
  <2>1. pos - ControlFrames \in Nat
    BY <1>1, <1>5
  <2> QED
    BY <1>1, <1>3, <1>5, <2>1, FrameParts
<1>6. CASE ~(pos <= ControlFrames) /\ ~(pos <= ControlFrames + Sent[tx])
  BY <1>1, <1>3, <1>6, FrameParts
<1> QED
  BY <1>1, <1>3, <1>4, <1>5, <1>6

LEMMA OldType == ASSUME NEW file \in OldFiles PROVE file \in Seq(Contents)
<1>1. file \in Seq(Range(file))
  BY RxAssumption
<1>2. Range(file) \subseteq Contents
  BY DEF Contents
<1> QED
  BY <1>1, <1>2, SeqMonotonic

LEMMA InitTypes == SessionInit => CaptureType /\ DiskType /\ AirType /\ FilesInv
<1> SUFFICES ASSUME SessionInit PROVE CaptureType /\ DiskType /\ AirType /\ FilesInv
  OBVIOUS
<1>1. Init /\ tx = 1 /\ pos = 1 /\ faults = 0 /\ announced = {}
  BY DEF SessionInit
<1>2. << >> \in Seq(DataFrames) /\ << >> \in Seq(AirFrames)
  OBVIOUS
<1>3. CaptureType
  BY <1>1, <1>2 DEF Init, CaptureType, Running, Engine!Init, Engine!Phases
<1>4. DiskType
  <2>1. PICK file \in OldFiles : old = [n \in Numbers |-> file]
    BY <1>1 DEF Init
  <2>2. file \in Seq(Contents) /\ MaxFiles \in Nat
    BY OldType, RxAssumption
  <2> QED
    BY <1>1, <2>1, <2>2 DEF Init, DiskType
<1>5. AirType
  BY <1>1, <1>2, SentType DEF Init, AirType
<1>6. FilesInv
  BY <1>1 DEF Init, FilesInv, Engine!Init
<1> QED
  BY <1>3, <1>4, <1>5, <1>6

\* A frame in the ring is one of the air, and one that is dispatched as data is data.
LEMMA RingHead ==
    ASSUME AirType, ring # << >>
    PROVE  /\ Head(ring) \in AirFrames /\ Tail(ring) \in Seq(AirFrames)
           /\ Head(ring).kind = "data" => Head(ring) \in DataFrames
<1>1. ring \in Seq(AirFrames)
  BY DEF AirType
<1> QED
  BY <1>1, HeadTailProperties DEF DataFrames

LEMMA CaptureTypeStep ==
    ASSUME CaptureType, AirType, [Next]_<<vars, sender>> PROVE CaptureType'
<1> USE DEF CaptureType
<1>1. ASSUME UNCHANGED <<pc, capture, stops, consumed>> PROVE CaptureType'
  BY <1>1 DEF capture
<1>2. ASSUME Deliver \/ Double \/ Unheard \/ Lose \/ Cut \/ NextTransmission PROVE CaptureType'
  BY <1>1, <1>2 DEF Deliver, Double, Receives, Unheard, Lose, Cut, NextTransmission, vars
<1>3. ASSUME UNCHANGED <<vars, sender>> PROVE CaptureType'
  BY <1>1, <1>3 DEF vars
<1>4. ASSUME Sigint PROVE CaptureType'
  <2>1. CASE installed
    BY <1>4, <2>1 DEF Sigint, Engine!Stop
  <2>2. CASE ~installed
    BY <1>4, <2>2 DEF Sigint, Over, capture
  <2> QED
    BY <2>1, <2>2
<1>5. ASSUME ParseOption \/ ParseLast \/ Setup \/ NextFile \/ Close \/ Open \/ OpenFails
      PROVE  CaptureType'
  BY <1>5 DEF ParseOption, ParseLast, Setup, NextFile, Close, Open, OpenFails, Running, Over, capture
<1>6. ASSUME Install \/ Activate \/ Restore PROVE CaptureType'
  <2>1. << >> \in Seq(DataFrames)
    OBVIOUS
  <2> QED
    BY <1>6, <2>1 DEF Install, Activate, Restore, Running, Engine!Begin, Engine!Activate, Engine!End,
       Engine!Phases, output
<1>7. ASSUME Flush PROVE CaptureType'
  BY <1>7 DEF Flush, Engine!Finish, Engine!Phases
<1>8. ASSUME Dispatch PROVE CaptureType'
  <2>1. CASE Head(ring).kind = "data"
    <3>1. Head(ring) \in DataFrames
      BY <1>8, <2>1, RingHead DEF Dispatch
    <3>2. taken' = Append(taken, Head(ring)) /\ consumed' = Append(consumed, Head(ring))
          /\ UNCHANGED <<pc, phase, heard, boundary, stops>>
      BY <1>8, <2>1 DEF Dispatch, Engine!TakeData
    <3> QED
      BY <3>1, <3>2
  <2>2. CASE Head(ring).kind # "data"
    BY <1>8, <2>2 DEF Dispatch, HandleFrameControl, Engine!TakePreamble, capture
  <2> QED
    BY <2>1, <2>2
<1> QED
  BY <1>2, <1>3, <1>4, <1>5, <1>6, <1>7, <1>8 DEF Next, Receiver, Sender, Program

LEMMA WriteType ==
    ASSUME DiskType, CaptureType, NEW n \in Numbers PROVE Write(disk[n], taken) \in Seq(Contents)
<1>1. disk[n] \in Seq(Contents) /\ taken \in Seq(Contents) /\ Len(disk[n]) \in Nat /\ Len(taken) \in Nat
  <2>1. DataFrames \subseteq Contents
    BY DEF DataFrames, Contents
  <2> QED
    BY <2>1, SeqMonotonic DEF DiskType, CaptureType
<1>2. disk[n] \o taken \in Seq(Contents)
  BY <1>1, ConcatProperties
<1>3. SubSeq(disk[n], Len(taken) + 1, Len(disk[n])) \in Seq(Contents)
  BY <1>1, SubSeqProperties
<1>4. taken \o SubSeq(disk[n], Len(taken) + 1, Len(disk[n])) \in Seq(Contents)
  BY <1>1, <1>3, ConcatProperties
<1> QED
  BY <1>2, <1>4 DEF Write

LEMMA FileNumber == ASSUME DiskType, count > 0 PROVE File \in Numbers /\ count = File + 1
BY RxAssumption DEF DiskType, File, Numbers

LEMMA DiskTypeStep ==
    ASSUME CaptureType, DiskType, FilesInv, [Next]_<<vars, sender>> PROVE DiskType'
<1>1. ASSUME UNCHANGED output PROVE DiskType'
  BY <1>1 DEF output, DiskType
<1>2. ASSUME NextFile PROVE DiskType'
  BY <1>2, RxAssumption DEF NextFile, DiskType
<1>3. ASSUME Flush PROVE DiskType'
  <2>1. count > 0
    BY <1>3 DEF Flush, FilesInv
  <2>2. Write(disk[File], taken) \in Seq(Contents)
    BY <2>1, FileNumber, WriteType
  <2>3. disk' = [disk EXCEPT ![File] = Write(disk[File], taken)] /\ UNCHANGED <<count, old>>
    BY <1>3 DEF Flush
  <2> QED
    BY <2>2, <2>3 DEF DiskType
<1>4. ASSUME \/ ParseOption \/ ParseLast \/ Setup \/ Close \/ Open \/ OpenFails
             \/ Install \/ Activate \/ Dispatch \/ Restore \/ Sigint
             \/ Deliver \/ Double \/ Unheard \/ Lose \/ Cut \/ NextTransmission \/ UNCHANGED <<vars, sender>>
      PROVE  DiskType'
  <2>1. UNCHANGED output
    BY <1>4 DEF ParseOption, ParseLast, Setup, Close, Open, OpenFails, Install, Activate, Dispatch,
       Restore, Sigint, Deliver, Double, Receives, Unheard, Lose, Cut, NextTransmission, vars
  <2> QED
    BY <1>1, <2>1
<1> QED
  BY <1>2, <1>3, <1>4 DEF Next, Receiver, Sender, Program

LEMMA AirTypeStep ==
    ASSUME AirType, [Next]_<<vars, sender>> PROVE AirType'
<1>0. /\ Len(Sent) \in Nat /\ Transmissions = 1..Len(Sent) /\ ControlFrames \in Nat
      /\ \A n \in Transmissions : Sent[n] \in Nat
  BY SentType, SessionAssumption
<1>1. ASSUME UNCHANGED <<ring, sender>> PROVE AirType'
  BY <1>1 DEF AirType, sender
<1>2. ASSUME \/ ParseOption \/ ParseLast \/ Setup \/ NextFile \/ Close \/ Open \/ OpenFails
             \/ Install \/ Activate \/ Flush \/ Restore \/ Sigint,
             UNCHANGED sender
      PROVE  AirType'
  BY <1>1, <1>2 DEF ParseOption, ParseLast, Setup, NextFile, Close, Open, OpenFails, Install, Activate,
     Flush, Restore, Sigint
<1>3. ASSUME Dispatch, UNCHANGED sender PROVE AirType'
  <2>1. Tail(ring) \in Seq(AirFrames)
    BY <1>3, RingHead DEF Dispatch
  <2> QED
    BY <1>3, <2>1 DEF Dispatch, AirType, sender
<1>4. ASSUME Deliver \/ Double PROVE AirType'
  <2>1. Sending /\ Receives(Frames(tx)[pos]) /\ tx' = tx /\ pos' \in {pos, pos + 1} /\ faults' \in {faults, faults + 1}
    BY <1>4 DEF Deliver, Double
  <2>2. tx \in Transmissions /\ Frames(tx)[pos] \in AirFrames
    BY <2>1, NextFrame
  <2>3. ring' = Append(ring, Frames(tx)[pos]) /\ announced' \in {announced, announced \cup {tx}}
    BY <2>1 DEF Receives
  <2> QED
    BY <1>0, <2>1, <2>2, <2>3 DEF AirType
<1>5. ASSUME Unheard \/ Lose \/ Cut PROVE AirType'
  <2>1. Sending /\ UNCHANGED <<ring, tx, announced>> /\ pos' \in {pos + 1, ControlFrames + Sent[tx] + 1}
        /\ faults' \in {faults, faults + 1, 1}
    BY <1>5 DEF Unheard, Lose, Cut, vars
  <2>2. tx \in Transmissions
    BY <2>1 DEF Sending
  <2> QED
    BY <1>0, <2>1, <2>2 DEF AirType
<1>6. ASSUME NextTransmission PROVE AirType'
  BY <1>0, <1>6 DEF NextTransmission, AirType, vars
<1>7. ASSUME UNCHANGED <<vars, sender>> PROVE AirType'
  BY <1>1, <1>7 DEF vars
<1> QED
  BY <1>2, <1>3, <1>4, <1>5, <1>6, <1>7 DEF Next, Receiver, Sender, Program

LEMMA FilesStep ==
    ASSUME CaptureType, DiskType, FilesInv, [Next]_<<vars, sender>> PROVE FilesInv'
<1>0. count \in Nat /\ MaxFiles \in Nat /\ phase \in {"idle", "begun", "active", "done"}
  BY RxAssumption DEF DiskType, CaptureType, Engine!Phases
<1>1. ASSUME \/ UNCHANGED <<vars, sender>>
             \/ Deliver \/ Double \/ Unheard \/ Lose \/ Cut \/ NextTransmission
      PROVE  FilesInv'
  <2>1. UNCHANGED <<pc, installed, capture, output>>
    BY <1>1 DEF Deliver, Double, Receives, Unheard, Lose, Cut, NextTransmission, vars
  <2> QED
    BY <2>1 DEF FilesInv, capture, output, File
<1>2. ASSUME Sigint PROVE FilesInv'
  <2>1. CASE installed
    BY <1>2, <2>1 DEF Sigint, Engine!Stop, FilesInv, output, File
  <2>2. CASE ~installed
    BY <1>2, <2>2 DEF Sigint, FilesInv, capture, output, File
  <2> QED
    BY <2>1, <2>2
<1>3. ASSUME ParseOption \/ ParseLast \/ Setup \/ Close \/ Open \/ OpenFails PROVE FilesInv'
  BY <1>3 DEF ParseOption, ParseLast, Setup, Close, Open, OpenFails, FilesInv, capture, output, File
<1>4. ASSUME NextFile PROVE FilesInv'
  <2>1. /\ pc = "loop" /\ pc' \in {"install", "open"} /\ count' = count + 1
        /\ UNCHANGED <<installed, capture, disk, old>>
    BY <1>4 DEF NextFile
  <2>2. phase = "idle"
    BY <1>0, <2>1 DEF FilesInv
  <2>3. \A n \in Numbers : n >= count => disk[n] = old[n]
    BY DEF FilesInv
  <2>4. ASSUME NEW n \in Numbers, n >= count' \/ n = File' PROVE n >= count
    BY <1>0, <2>1, <2>4 DEF Numbers, File
  <2> QED
    BY <1>0, <2>1, <2>2, <2>3, <2>4 DEF FilesInv, capture
<1>5. ASSUME Install PROVE FilesInv'
  BY <1>0, <1>5 DEF Install, Engine!Begin, FilesInv, output, File
<1>6. ASSUME Activate PROVE FilesInv'
  BY <1>0, <1>6 DEF Activate, Engine!Activate, FilesInv, output, File
<1>7. ASSUME Dispatch PROVE FilesInv'
  <2>1. /\ pc = "capture" /\ phase = "active" /\ UNCHANGED <<pc, phase, installed, count, disk, old>>
        /\ boundary' => taken' # << >>
    <3>1. CASE Head(ring).kind = "data"
      BY <1>7, <3>1 DEF Dispatch, Engine!TakeData, output
    <3>2. CASE Head(ring).kind # "data"
      BY <1>7, <3>2 DEF Dispatch, HandleFrameControl, Engine!TakePreamble, output, capture
    <3> QED
      BY <3>1, <3>2
  <2> QED
    BY <2>1 DEF FilesInv, File
<1>8. ASSUME Flush PROVE FilesInv'
  <2>1. /\ pc = "capture" /\ phase = "active" /\ phase' = "done" /\ count > 0
        /\ UNCHANGED <<pc, installed, taken, boundary, count, old>>
        /\ disk' = [disk EXCEPT ![File] = Write(disk[File], taken)]
    BY <1>8 DEF Flush, Engine!Finish, FilesInv
  <2>2. ASSUME NEW n \in Numbers, n >= count PROVE disk'[n] = old[n]
    <3>1. n # File
      BY <1>0, <2>2 DEF Numbers, File
    <3> QED
      BY <2>1, <2>2, <3>1 DEF FilesInv, DiskType
  <2> QED
    BY <2>1, <2>2 DEF FilesInv
<1>9. ASSUME Restore PROVE FilesInv'
  BY <1>0, <1>9 DEF Restore, Engine!End, FilesInv, output, File
<1> QED
  BY <1>1, <1>2, <1>3, <1>4, <1>5, <1>6, <1>7, <1>8, <1>9 DEF Next, Receiver, Sender, Program

BaseInv == CaptureType /\ DiskType /\ AirType /\ FilesInv

LEMMA BaseStep == BaseInv /\ [Next]_<<vars, sender>> => BaseInv'
BY CaptureTypeStep, DiskTypeStep, AirTypeStep, FilesStep DEF BaseInv

-------------------------------------------------------------------------------
(* What a file holds.  It grows by each frame that is taken, and no other  *)
(* step changes it: a flush only writes what the capture already held.     *)

LEMMA NothingNew ==
    ASSUME DiskType, NEW n \in Numbers, disk[n] = old[n] PROVE New(n) = << >>
<1>1. old[n] \in Seq(Contents)
  BY DEF DiskType
<1>2. SubSeq(old[n], Len(old[n]) + 1, Len(old[n])) = << >>
  BY <1>1, SubSeqEmpty
<1> QED
  BY <1>2 DEF New

LEMMA HeldNow ==
    ASSUME BaseInv
    PROVE  /\ phase = "active" => Held(File) = taken /\ New(File) = << >>
           /\ phase = "begun" \/ pc \in {"open", "install"} => Held(File) = << >> /\ New(File) = << >>
           /\ \A n \in Numbers : n >= count => Held(n) = << >> /\ New(n) = << >>
           /\ \A n \in Numbers : phase # "active" \/ n # File => Held(n) = New(n)
<1>1. taken \in Seq(DataFrames) /\ << >> \o taken = taken
  BY ConcatEmptySeq DEF BaseInv, CaptureType
<1>2. ASSUME phase \in {"begun", "active"} \/ pc \in {"open", "install"}
      PROVE  New(File) = << >>
  <2>1. count > 0
    BY <1>2 DEF BaseInv, FilesInv
  <2>2. File \in Numbers
    BY <2>1, FileNumber DEF BaseInv
  <2>3. disk[File] = old[File]
    BY <1>2, <2>2 DEF BaseInv, FilesInv
  <2> QED
    BY <2>2, <2>3, NothingNew DEF BaseInv
<1>3. pc \in {"open", "install"} => phase # "active"
  BY DEF BaseInv, FilesInv
<1>4. ASSUME NEW n \in Numbers, n >= count PROVE n # File /\ New(n) = << >>
  <2>1. disk[n] = old[n]
    BY <1>4 DEF BaseInv, FilesInv
  <2>2. n # File
    BY <1>4, RxAssumption DEF Numbers, File, BaseInv, DiskType
  <2> QED
    BY <2>1, <2>2, NothingNew DEF BaseInv
<1> QED
  BY <1>1, <1>2, <1>3, <1>4 DEF Held

LEMMA FlushKeeps ==
    ASSUME BaseInv, Pristine, Flush PROVE New(File)' = taken
<1>1. /\ phase = "active" /\ count > 0 /\ UNCHANGED <<count, old, taken>>
      /\ disk' = [disk EXCEPT ![File] = Write(disk[File], taken)]
  BY DEF Flush, Engine!Finish, BaseInv, FilesInv
<1>2. File \in Numbers /\ File' = File
  BY <1>1, FileNumber DEF BaseInv, File
<1>3. disk[File] = old[File] /\ old[File] \in Seq(Contents)
  BY <1>1, <1>2 DEF BaseInv, FilesInv, DiskType
<1> DEFINE o == old[File]
           d == Write(disk[File], taken)
<1>4. disk'[File] = d
  BY <1>1, <1>2 DEF BaseInv, DiskType
<1>5. taken \in Seq(Contents)
  <2>1. DataFrames \subseteq Contents
    BY DEF DataFrames, Contents
  <2> QED
    BY <2>1, SeqMonotonic DEF BaseInv, CaptureType
<1>6. d = o \o taken
  <2>1. CASE args.append
    BY <1>3, <2>1 DEF Write
  <2>2. CASE ~args.append
    <3>1. o = << >>
      BY <1>2, <2>2 DEF Pristine
    <3>2. SubSeq(<< >>, Len(taken) + 1, Len(<< >>)) = << >>
      <4>1. Len(<< >>) = 0 /\ Len(taken) \in Nat
        BY <1>5
      <4>2. << >> \in Seq(Contents)
        OBVIOUS
      <4> QED
        BY <4>1, <4>2, SubSeqEmpty
    <3> QED
      BY <1>3, <1>5, <2>2, <3>1, <3>2, ConcatEmptySeq DEF Write
  <2> QED
    BY <2>1, <2>2
<1>7. SubSeq(o \o taken, Len(o) + 1, Len(o \o taken)) = taken
  <2> HIDE DEF o
  <2> DEFINE x == SubSeq(o \o taken, Len(o) + 1, Len(o \o taken))
  <2>1. /\ Len(o \o taken) = Len(o) + Len(taken) /\ o \o taken \in Seq(Contents)
        /\ \A i \in 1..(Len(o) + Len(taken)) :
              (o \o taken)[i] = IF i <= Len(o) THEN o[i] ELSE taken[i - Len(o)]
        /\ Len(o) \in Nat /\ Len(taken) \in Nat
    BY <1>3, <1>5, ConcatProperties DEF o
  <2>2. /\ x \in Seq(Contents) /\ Len(x) = Len(taken)
        /\ \A i \in 1..Len(taken) : x[i] = (o \o taken)[Len(o) + i]
    BY <2>1
  <2> HIDE DEF x
  <2>3. ASSUME NEW i \in 1..Len(taken) PROVE x[i] = taken[i]
    <3>1. Len(o) + i \in 1..(Len(o) + Len(taken)) /\ ~(Len(o) + i <= Len(o)) /\ (Len(o) + i) - Len(o) = i
      BY <2>1
    <3> QED
      BY <2>1, <2>2, <3>1
  <2>4. x = taken
    BY <1>5, <2>2, <2>3, SeqEqual
  <2> QED
    BY <2>4 DEF x
<1>8. New(File)' = SubSeq(d, Len(o) + 1, Len(d))
  <2>1. New(File)' = SubSeq(disk'[File'], Len(old'[File']) + 1, Len(disk'[File']))
    BY DEF New
  <2> QED
    BY <1>1, <1>2, <1>4, <2>1
<1> QED
  BY <1>6, <1>7, <1>8

Takes == Dispatch /\ Head(ring).kind = "data"

LEMMA HeldGrows ==
    ASSUME BaseInv, Takes
    PROVE  /\ pc = "capture" /\ phase = "active" /\ ~boundary /\ ring # << >>
           /\ Head(ring) \in DataFrames /\ ring' = Tail(ring) /\ Tail(ring) \in Seq(AirFrames)
           /\ taken' = Append(taken, Head(ring)) /\ consumed' = Append(consumed, Head(ring))
           /\ UNCHANGED <<pc, args, phase, heard, boundary, report, state, count, old, stops>>
           /\ count > 0 /\ File \in Numbers /\ count = File + 1 /\ Held(File) = taken
           /\ \A n \in Numbers : Held(n)' = IF n = File THEN Append(Held(n), Head(ring)) ELSE Held(n)
<1>1. /\ pc = "capture" /\ phase = "active" /\ ~boundary /\ ring # << >> /\ ring' = Tail(ring)
      /\ taken' = Append(taken, Head(ring)) /\ consumed' = Append(consumed, Head(ring))
      /\ UNCHANGED <<pc, args, phase, heard, boundary, report, state, count, disk, old, stops>>
  BY DEF Takes, Dispatch, Engine!TakeData, output, cli
<1>2. Head(ring) \in DataFrames /\ Tail(ring) \in Seq(AirFrames)
  BY <1>1, RingHead DEF Takes, BaseInv
<1>3. count > 0 /\ File \in Numbers /\ count = File + 1
  BY <1>1, FileNumber DEF BaseInv, FilesInv
<1>4. Held(File) = taken /\ New(File) = << >>
  BY <1>1, HeldNow
<1>5. \A n \in Numbers : New(n)' = New(n)
  BY <1>1 DEF New
<1>6. \A n \in Numbers : Held(n)' = IF n = File THEN New(n) \o taken' ELSE New(n)
  BY <1>1, <1>5 DEF Held, File
<1>7. << >> \o taken' = taken'
  <2>1. taken' \in Seq(DataFrames)
    BY <1>1, <1>2 DEF BaseInv, CaptureType
  <2> QED
    BY <2>1, ConcatEmptySeq
<1>8. \A n \in Numbers : n # File => Held(n) = New(n)
  BY HeldNow
<1> QED
  BY <1>1, <1>2, <1>3, <1>4, <1>6, <1>7, <1>8

LEMMA HeldKept ==
    ASSUME BaseInv, Good', [Next]_<<vars, sender>>, ~Takes
    PROVE  consumed' = consumed /\ \A n \in Numbers : Held(n)' = Held(n)
<1>1. ASSUME UNCHANGED <<phase, taken, output, consumed>>
      PROVE  consumed' = consumed /\ \A n \in Numbers : Held(n)' = Held(n)
  BY <1>1 DEF Held, New, File, output
<1>2. ASSUME UNCHANGED <<disk, old, consumed>>, phase # "active", phase' # "active"
      PROVE  consumed' = consumed /\ \A n \in Numbers : Held(n)' = Held(n)
  BY <1>2 DEF Held, New
<1>3. CASE \/ UNCHANGED <<vars, sender>>
           \/ Deliver \/ Double \/ Unheard \/ Lose \/ Cut \/ NextTransmission
           \/ ParseOption \/ ParseLast \/ Setup \/ Close \/ Open \/ OpenFails
  BY <1>1, <1>3 DEF Deliver, Double, Receives, Unheard, Lose, Cut, NextTransmission, vars,
     ParseOption, ParseLast, Setup, Close, Open, OpenFails, capture
<1>4. CASE Sigint
  <2>1. UNCHANGED <<phase, taken, output, consumed>>
    BY <1>4 DEF Sigint, Engine!Stop, capture
  <2> QED
    BY <1>1, <2>1
<1>5. CASE NextFile
  <2>1. pc = "loop" /\ UNCHANGED <<capture, disk, old, consumed>>
    BY <1>5 DEF NextFile
  <2>2. phase = "idle"
    BY <2>1 DEF BaseInv, FilesInv
  <2> QED
    BY <1>2, <2>1, <2>2 DEF capture
<1>6. CASE Install \/ Restore
  BY <1>2, <1>6 DEF Install, Restore, Engine!Begin, Engine!End, output
<1>7. CASE Activate
  <2>1. phase = "begun" /\ UNCHANGED <<taken, output, consumed>> /\ pc = "capture"
    BY <1>7 DEF Activate, Engine!Activate
  <2>2. /\ New(File) = << >> /\ taken = << >> /\ \A n \in Numbers : Held(n) = New(n)
    BY <2>1, HeldNow DEF BaseInv, FilesInv
  <2>3. \A n \in Numbers : Held(n)' = New(n) \/ (n = File /\ Held(n)' = New(n) \o << >>)
    BY <2>1, <2>2 DEF Held, New, File, output
  <2>4. << >> \o << >> = << >>
    BY ConcatEmptySeq, EmptySeq
  <2> QED
    BY <2>1, <2>2, <2>3, <2>4
<1>8. CASE Dispatch
  <2>1. UNCHANGED <<phase, taken, output, consumed>>
    BY <1>8 DEF Takes, Dispatch, HandleFrameControl, Engine!TakePreamble, capture
  <2> QED
    BY <1>1, <2>1
<1>9. CASE Flush
  <2>1. /\ pc = "capture" /\ phase = "active" /\ phase' = "done"
        /\ UNCHANGED <<pc, args, count, old, consumed>>
        /\ disk' = [disk EXCEPT ![File] = Write(disk[File], taken)]
    BY <1>9 DEF Flush, Engine!Finish, cli
  <2>2. Pristine
    BY <2>1 DEF Good, Pristine
  <2>3. New(File)' = taken /\ Held(File) = taken
    BY <1>9, <2>1, <2>2, FlushKeeps, HeldNow
  <2>4. \A n \in Numbers : n # File => New(n)' = New(n) /\ Held(n) = New(n)
    BY <2>1, HeldNow DEF New, BaseInv, DiskType
  <2>5. \A n \in Numbers : Held(n)' = New(n)'
    BY <2>1 DEF Held
  <2>6. \A n \in Numbers : n = File => New(n)' = New(File)'
    BY <2>1 DEF New, File
  <2> QED
    BY <2>1, <2>3, <2>4, <2>5, <2>6
<1> QED
  BY <1>3, <1>4, <1>5, <1>6, <1>7, <1>8, <1>9 DEF Next, Receiver, Sender, Program

LEMMA GoodBefore ==
    ASSUME BaseInv, [Next]_<<vars, sender>>, Good' PROVE Good
<1>1. ASSUME UNCHANGED <<args, old>>, pc' = "parse" => pc = "parse" PROVE Good
  BY <1>1 DEF Good, Pristine
<1>2. CASE ParseOption \/ ParseLast
  BY <1>2 DEF ParseOption, ParseLast, Good
<1>3. CASE Sigint
  BY <1>1, <1>3 DEF Sigint, cli, output
<1>4. CASE \/ UNCHANGED <<vars, sender>>
           \/ Deliver \/ Double \/ Unheard \/ Lose \/ Cut \/ NextTransmission
           \/ Setup \/ NextFile \/ Close \/ Open \/ OpenFails
           \/ Install \/ Activate \/ Dispatch \/ Flush \/ Restore
  BY <1>1, <1>4 DEF Deliver, Double, Receives, Unheard, Lose, Cut, NextTransmission, vars,
     Setup, NextFile, Close, Open, OpenFails, Install, Activate, Dispatch, Flush, Restore, cli, output
<1> QED
  BY <1>2, <1>3, <1>4 DEF Next, Receiver, Sender, Program

\* What happens to the number of files.
LEMMA CountStep ==
    ASSUME BaseInv, [Next]_<<vars, sender>>
    PROVE  \/ count' = count
           \/ NextFile /\ count' = count + 1 /\ count + 1 <= MaxFiles
<1>1. count \in Nat /\ MaxFiles \in Nat
  BY RxAssumption DEF BaseInv, DiskType
<1>2. CASE \/ UNCHANGED <<vars, sender>>
           \/ Deliver \/ Double \/ Unheard \/ Lose \/ Cut \/ NextTransmission
           \/ ParseOption \/ ParseLast \/ Setup \/ Close \/ Open \/ OpenFails
           \/ Install \/ Activate \/ Dispatch \/ Flush \/ Restore \/ Sigint
  BY <1>2 DEF Deliver, Double, Receives, Unheard, Lose, Cut, NextTransmission, vars,
     ParseOption, ParseLast, Setup, Close, Open, OpenFails, Install, Activate, Dispatch, Flush,
     Restore, Sigint, output
<1>3. CASE NextFile
  BY <1>1, <1>3 DEF NextFile
<1> QED
  BY <1>2, <1>3 DEF Next, Receiver, Sender, Program

-------------------------------------------------------------------------------
(* Nothing is lost between captures: what was received, cut at the right   *)
(* places, is what the files hold.                                         *)

SeamInv ==
    Good => \E cut \in [0..count -> 0..Len(consumed)] :
        /\ cut[0] = 0 /\ cut[count] = Len(consumed)
        /\ \A n \in 1..count : /\ cut[n - 1] <= cut[n]
                              /\ Held(n - 1) = SubSeq(consumed, cut[n - 1] + 1, cut[n])

LEMMA InitSeamInv == SessionInit => SeamInv
<1> SUFFICES ASSUME SessionInit PROVE SeamInv
  OBVIOUS
<1>1. count = 0 /\ consumed = << >> /\ Len(<< >>) = 0
  BY DEF SessionInit, Init
<1> DEFINE cut == [n \in 0..count |-> 0]
<1>2. cut \in [0..count -> 0..Len(consumed)] /\ cut[0] = 0 /\ cut[count] = Len(consumed)
  BY <1>1
<1>3. 1..count = {}
  BY <1>1
<1> HIDE DEF cut
<1> QED
  BY <1>2, <1>3 DEF SeamInv

\* A piece of a sequence, when an element is appended.
LEMMA SubSeqAppend ==
    ASSUME NEW S, NEW s \in Seq(S), NEW e \in S, NEW i \in Nat, NEW j \in Nat, j <= Len(s), i <= j
    PROVE  /\ SubSeq(Append(s, e), i + 1, j) = SubSeq(s, i + 1, j)
           /\ SubSeq(Append(s, e), i + 1, Len(s) + 1) = Append(SubSeq(s, i + 1, Len(s)), e)
<1> DEFINE n == Len(s)
           t == Append(s, e)
<1>1. n \in Nat /\ t \in Seq(S) /\ Len(t) = n + 1 /\ t[n + 1] = e /\ \A k \in 1..n : t[k] = s[k]
  BY AppendProperties
<1> HIDE DEF t
<1>2. SubSeq(t, i + 1, j) = SubSeq(s, i + 1, j)
  <2> DEFINE x == SubSeq(t, i + 1, j)
             y == SubSeq(s, i + 1, j)
  <2>1. /\ x \in Seq(S) /\ Len(x) = j - i /\ \A k \in 1..(j - i) : x[k] = t[i + k]
        /\ y \in Seq(S) /\ Len(y) = j - i /\ \A k \in 1..(j - i) : y[k] = s[i + k]
    BY <1>1
  <2> HIDE DEF x, y
  <2>2. ASSUME NEW k \in 1..(j - i) PROVE x[k] = y[k]
    <3>1. i + k \in 1..n
      BY <1>1
    <3>2. t[i + k] = s[i + k]
      BY <1>1, <3>1
    <3> QED
      BY <2>1, <3>2
  <2>3. x = y
    BY <2>1, <2>2, SeqEqual
  <2> QED
    BY <2>3 DEF x, y
<1>3. SubSeq(t, i + 1, n + 1) = Append(SubSeq(s, i + 1, n), e)
  <2> DEFINE x == SubSeq(t, i + 1, n + 1)
             z == SubSeq(s, i + 1, n)
             y == Append(z, e)
  <2>1. /\ x \in Seq(S) /\ Len(x) = n - i + 1 /\ \A k \in 1..(n - i + 1) : x[k] = t[i + k]
        /\ z \in Seq(S) /\ Len(z) = n - i /\ \A k \in 1..(n - i) : z[k] = s[i + k]
    BY <1>1
  <2> HIDE DEF x, z, n
  <2>2. y \in Seq(S) /\ Len(y) = n - i + 1 /\ y[n - i + 1] = e /\ \A k \in 1..(n - i) : y[k] = z[k]
    BY <2>1, AppendProperties
  <2> HIDE DEF y
  <2>3. ASSUME NEW k \in 1..(n - i + 1) PROVE x[k] = y[k]
    <3>1. CASE k = n - i + 1
      BY <1>1, <2>1, <2>2, <3>1
    <3>2. CASE k # n - i + 1
      <4>1. k \in 1..(n - i) /\ i + k \in 1..n
        BY <1>1, <3>2
      <4> QED
        BY <1>1, <2>1, <2>2, <4>1
    <3> QED
      BY <3>1, <3>2
  <2>4. x = y
    BY <2>1, <2>2, <2>3, SeqEqual
  <2> QED
    BY <2>4 DEF x, y, z
<1> QED
  BY <1>2, <1>3 DEF t, n

LEMMA SeamTakes == ASSUME BaseInv, SeamInv, Good, Takes PROVE SeamInv'
<1> DEFINE f == Head(ring)
           l == Len(consumed)
<1>1. /\ f \in DataFrames /\ consumed' = Append(consumed, f) /\ count' = count
      /\ count > 0 /\ File \in Int /\ count = File + 1
      /\ count \in Nat /\ count <= MaxFiles /\ MaxFiles \in Nat
      /\ \A n \in Numbers : Held(n)' = IF n = File THEN Append(Held(n), f) ELSE Held(n)
  <2>1. MaxFiles \in Nat /\ count \in Nat /\ count <= MaxFiles
    BY RxAssumption DEF BaseInv, DiskType
  <2>2. File \in Int
    BY <2>1 DEF File
  <2> QED
    BY <2>1, <2>2, HeldGrows
<1>2. consumed \in Seq(DataFrames) /\ l \in Nat /\ Len(consumed') = l + 1
  BY <1>1, AppendProperties DEF BaseInv, CaptureType
<1>3. PICK cut \in [0..count -> 0..l] :
         /\ cut[0] = 0 /\ cut[count] = l
         /\ \A n \in 1..count : /\ cut[n - 1] <= cut[n]
                               /\ Held(n - 1) = SubSeq(consumed, cut[n - 1] + 1, cut[n])
  BY DEF SeamInv
<1> DEFINE b == [n \in 0..count |-> IF n = count THEN l + 1 ELSE cut[n]]
<1>4. /\ b \in [0..count -> 0..(l + 1)] /\ b[0] = 0 /\ b[count] = l + 1
      /\ \A n \in 0..(count - 1) : b[n] = cut[n]
  BY <1>1, <1>2, <1>3
<1> HIDE DEF b, f, l
<1>5. ASSUME NEW n \in 1..count
      PROVE  b[n - 1] <= b[n] /\ Held(n - 1)' = SubSeq(consumed', b[n - 1] + 1, b[n])
  <2>0. n - 1 \in 0..(count - 1) /\ n - 1 \in 0..count /\ n \in 0..count /\ n - 1 \in Numbers
    BY <1>1 DEF Numbers
  <2>1. /\ b[n - 1] = cut[n - 1]
        /\ cut[n - 1] \in 0..l /\ cut[n] \in 0..l /\ cut[n - 1] <= cut[n]
        /\ Held(n - 1) = SubSeq(consumed, cut[n - 1] + 1, cut[n])
    BY <1>3, <1>4, <2>0
  <2>2. /\ SubSeq(consumed', cut[n - 1] + 1, cut[n]) = SubSeq(consumed, cut[n - 1] + 1, cut[n])
        /\ SubSeq(consumed', cut[n - 1] + 1, l + 1) = Append(SubSeq(consumed, cut[n - 1] + 1, l), f)
    <3>1. cut[n - 1] \in Nat /\ cut[n] \in Nat /\ cut[n] <= l /\ cut[n - 1] <= cut[n]
      BY <1>2, <2>1
    <3>2. ASSUME NEW i \in Nat, NEW j \in Nat, j <= Len(consumed), i <= j
          PROVE  /\ SubSeq(Append(consumed, f), i + 1, j) = SubSeq(consumed, i + 1, j)
                 /\ SubSeq(Append(consumed, f), i + 1, Len(consumed) + 1)
                    = Append(SubSeq(consumed, i + 1, Len(consumed)), f)
      BY <1>1, <1>2, <3>2, SubSeqAppend
    <3> QED
      BY <1>1, <3>1, <3>2 DEF l
  <2>3. CASE n = count
    <3>1. n - 1 = File /\ b[n] = l + 1 /\ cut[n] = l
      BY <1>1, <1>3, <1>4, <2>3
    <3>2. Held(n - 1)' = Append(Held(n - 1), f)
      BY <1>1, <2>0, <3>1
    <3>3. b[n - 1] <= b[n]
      BY <1>2, <2>1, <3>1
    <3> QED
      BY <2>1, <2>2, <3>1, <3>2, <3>3
  <2>4. CASE n # count
    <3>1. n \in 0..(count - 1) /\ n - 1 # File
      BY <1>1, <2>4
    <3> QED
      BY <1>1, <1>4, <2>0, <2>1, <2>2, <3>1
  <2> QED
    BY <2>3, <2>4
<1>6. /\ b \in [0..count' -> 0..Len(consumed')] /\ b[0] = 0 /\ b[count'] = Len(consumed')
      /\ \A n \in 1..count' : b[n - 1] <= b[n] /\ Held(n - 1)' = SubSeq(consumed', b[n - 1] + 1, b[n])
  BY <1>1, <1>2, <1>4, <1>5
<1> QED
  BY <1>6 DEF SeamInv

LEMMA SeamStep == BaseInv /\ SeamInv /\ [Next]_<<vars, sender>> => SeamInv'
<1> SUFFICES ASSUME BaseInv, SeamInv, [Next]_<<vars, sender>>, Good' PROVE SeamInv'
  BY DEF SeamInv
<1>1. Good
  BY GoodBefore
<1>2. CASE Takes
  BY <1>1, <1>2, SeamTakes
<1>3. CASE ~Takes
  <2> DEFINE l == Len(consumed)
  <2>1. consumed' = consumed /\ \A n \in Numbers : Held(n)' = Held(n)
    BY <1>3, HeldKept
  <2>2. PICK cut \in [0..count -> 0..l] :
           /\ cut[0] = 0 /\ cut[count] = l
           /\ \A n \in 1..count : /\ cut[n - 1] <= cut[n]
                                 /\ Held(n - 1) = SubSeq(consumed, cut[n - 1] + 1, cut[n])
    BY <1>1 DEF SeamInv
  <2>3. consumed \in Seq(DataFrames) /\ l \in Nat /\ count \in Nat /\ count <= MaxFiles /\ MaxFiles \in Nat
    BY RxAssumption DEF BaseInv, CaptureType, DiskType
  <2>4. \A n \in 1..count : n - 1 \in Numbers
    BY <2>3 DEF Numbers
  <2>5. CASE count' = count
    <3>1. \A n \in 1..count' : cut[n - 1] <= cut[n] /\ Held(n - 1)' = SubSeq(consumed', cut[n - 1] + 1, cut[n])
      BY <2>1, <2>2, <2>4, <2>5
    <3>2. cut \in [0..count' -> 0..Len(consumed')] /\ cut[0] = 0 /\ cut[count'] = Len(consumed')
      BY <2>1, <2>2, <2>5
    <3> QED
      BY <3>1, <3>2 DEF SeamInv
  <2>6. CASE count' = count + 1 /\ count + 1 <= MaxFiles
    <3> DEFINE b == [n \in 0..(count + 1) |-> IF n = count + 1 THEN l ELSE cut[n]]
    <3>1. /\ b \in [0..(count + 1) -> 0..l] /\ b[0] = 0 /\ b[count + 1] = l
          /\ \A n \in 0..count : b[n] = cut[n]
      BY <2>2, <2>3
    <3> HIDE DEF b, l
    <3>2. ASSUME NEW n \in 1..(count + 1)
          PROVE  b[n - 1] <= b[n] /\ Held(n - 1)' = SubSeq(consumed', b[n - 1] + 1, b[n])
      <4>1. CASE n = count + 1
        <5>1. n - 1 = count /\ count \in Numbers /\ b[n - 1] = l /\ b[n] = l
          BY <2>2, <2>3, <2>6, <3>1, <4>1 DEF Numbers
        <5>2. Held(count) = << >>
          BY <2>3, <5>1, HeldNow
        <5>3. SubSeq(consumed, l + 1, l) = << >>
          BY <2>3, SubSeqEmpty DEF l
        <5>4. Held(n - 1)' = << >>
          BY <2>1, <5>1, <5>2
        <5> QED
          BY <2>1, <2>3, <5>1, <5>3, <5>4
      <4>2. CASE n # count + 1
        <5>1. n \in 1..count /\ n \in 0..count /\ n - 1 \in 0..count /\ n - 1 \in Numbers
          BY <2>3, <2>4, <4>2
        <5> QED
          BY <2>1, <2>2, <3>1, <5>1
      <4> QED
        BY <4>1, <4>2
    <3>3. /\ b \in [0..count' -> 0..Len(consumed')] /\ b[0] = 0 /\ b[count'] = Len(consumed')
          /\ \A n \in 1..count' : b[n - 1] <= b[n] /\ Held(n - 1)' = SubSeq(consumed', b[n - 1] + 1, b[n])
      BY <2>1, <2>6, <3>1, <3>2 DEF l
    <3> QED
      BY <3>3 DEF SeamInv
  <2> QED
    BY <2>5, <2>6, CountStep
<1> QED
  BY <1>2, <1>3

\* Whatever ends a capture, and whenever SIGINT kills the program, the files hold together,
\* in the order of their numbers and without a gap or a repetition, what was received
\* (rx.c, lines 143-145 and 200-204; receiver.c, line 549).
THEOREM SessionSeams == Spec => []SeamsLoseNothing
<1>1. SessionInit => BaseInv /\ SeamInv
  BY InitTypes, InitSeamInv DEF BaseInv
<1>2. BaseInv /\ SeamInv /\ [Next]_<<vars, sender>> => BaseInv' /\ SeamInv'
  BY BaseStep, SeamStep
<1>3. BaseInv /\ SeamInv => SeamsLoseNothing
  <2> SUFFICES ASSUME BaseInv, SeamInv, Pristine PROVE SeamsLoseNothing
    BY DEF SeamsLoseNothing
  <2>1. \A n \in Numbers : n >= count => New(n) = << >>
    BY HeldNow
  <2>2. Good
    BY DEF Good
  <2> QED
    BY <2>1, <2>2 DEF SeamInv, SeamsLoseNothing
<1> QED
  BY <1>1, <1>2, <1>3, PTL DEF Spec

-------------------------------------------------------------------------------
(* The order of frames: what was sent before is never received after.      *)

Stage(kind) == IF kind = "preamble" THEN 0 ELSE IF kind = "data" THEN 1 ELSE 2
NotAfter(f, g) == f.tx < g.tx \/ (f.tx = g.tx /\ Stage(f.kind) <= Stage(g.kind))

\* The sender is beyond the first place of this frame.
Gone(f) ==
    \/ f.tx < tx
    \/ /\ f.tx = tx
       /\ f.kind = "data" => pos > ControlFrames
       /\ f.kind = "eot" => pos > ControlFrames + Sent[tx]

\* The ring is in the order of sending, and the preambles received after a frame that is in
\* it are in it as well.
RingInv ==
    /\ \A i, j \in 1..Len(ring) : i < j => NotAfter(ring[i], ring[j])
    /\ \A g \in Range(ring) :
          /\ Gone(g)
          /\ \A t \in announced : t > g.tx => \E h \in Range(ring) : h.kind = "preamble" /\ h.tx = t
    /\ announced \subseteq 1..tx

LEMMA FrameType == ASSUME NEW f \in AirFrames PROVE f.tx \in Nat /\ f.tx \in Transmissions
BY SentType DEF AirFrames

LEMMA SenderMoves ==
    ASSUME AirType, [Next]_<<vars, sender>>
    PROVE  (tx' = tx /\ pos' \in Nat /\ pos' >= pos) \/ tx' = tx + 1
<1>0. /\ tx \in Nat /\ pos \in Nat /\ ControlFrames \in Nat /\ \A n \in Transmissions : Sent[n] \in Nat
  BY SentType, SessionAssumption DEF AirType
<1>1. CASE Deliver \/ Double \/ Unheard \/ Lose \/ NextTransmission
  BY <1>0, <1>1 DEF Deliver, Double, Unheard, Lose, NextTransmission
<1>2. CASE Cut
  BY <1>0, <1>2 DEF Cut, Sending
<1>3. CASE UNCHANGED sender
  BY <1>0, <1>3 DEF sender
<1> QED
  BY <1>1, <1>2, <1>3 DEF Next, Receiver, Sender

LEMMA GoneStays ==
    ASSUME AirType, [Next]_<<vars, sender>>, NEW f \in AirFrames, Gone(f) PROVE Gone(f)'
<1>1. f.tx \in Nat /\ f.tx \in Transmissions /\ tx \in Nat /\ pos \in Nat
  BY FrameType DEF AirType
<1>2. ControlFrames \in Nat /\ Sent[f.tx] \in Nat
  BY <1>1, SentType, SessionAssumption
<1>3. CASE tx' = tx /\ pos' \in Nat /\ pos' >= pos
  BY <1>1, <1>2, <1>3 DEF Gone
<1>4. CASE tx' = tx + 1
  BY <1>1, <1>4 DEF Gone
<1> QED
  BY <1>3, <1>4, SenderMoves

LEMMA GoneNotAfter ==
    ASSUME AirType, Sending, NEW g \in AirFrames, Gone(g) PROVE NotAfter(g, Frames(tx)[pos])
<1>1. g.tx \in Nat /\ tx \in Nat /\ pos \in Nat /\ g.kind \in {"preamble", "data", "eot"}
  BY FrameType DEF AirType, AirFrames
<1>2. ControlFrames \in Nat /\ Sent[tx] \in Nat
  BY NextFrame
<1>3. /\ Frames(tx)[pos].tx = tx
      /\ Frames(tx)[pos].kind = IF pos <= ControlFrames THEN "preamble"
                                ELSE IF pos <= ControlFrames + Sent[tx] THEN "data" ELSE "eot"
  BY NextFrame, FrameParts
<1>4. CASE g.tx < tx
  BY <1>3, <1>4 DEF NotAfter
<1>5. CASE ~(g.tx < tx)
  <2>1. /\ g.tx = tx /\ (g.kind = "data" => pos > ControlFrames)
        /\ (g.kind = "eot" => pos > ControlFrames + Sent[tx])
    BY <1>5 DEF Gone
  <2>2. Stage(g.kind) <= Stage(Frames(tx)[pos].kind)
    BY <1>1, <1>2, <1>3, <2>1 DEF Stage
  <2> QED
    BY <1>3, <2>1, <2>2 DEF NotAfter
<1> QED
  BY <1>4, <1>5

LEMMA NotAfterTwice ==
    ASSUME NEW f \in AirFrames, NEW g \in AirFrames, NEW h \in AirFrames,
           NotAfter(f, g), NotAfter(g, h)
    PROVE  NotAfter(f, h)
<1>1. f.tx \in Nat /\ g.tx \in Nat /\ h.tx \in Nat
  BY FrameType
<1>2. Stage(f.kind) \in Nat /\ Stage(g.kind) \in Nat /\ Stage(h.kind) \in Nat
  BY DEF Stage
<1> QED
  BY <1>1, <1>2 DEF NotAfter

LEMMA RangeAppend ==
    ASSUME NEW S, NEW s \in Seq(S), NEW e PROVE Range(Append(s, e)) = Range(s) \cup {e}
<1> DEFINE t == Append(s, e)
<1>1. /\ Len(s) \in Nat /\ DOMAIN s = 1..Len(s) /\ DOMAIN t = (1..Len(s)) \cup {Len(s) + 1}
      /\ t[Len(s) + 1] = e /\ \A i \in 1..Len(s) : t[i] = s[i]
  OBVIOUS
<1> HIDE DEF t
<1>2. Range(t) = Range(s) \cup {e}
  BY <1>1 DEF Range
<1> QED
  BY <1>2 DEF t

LEMMA RangeTail ==
    ASSUME NEW S, NEW s \in Seq(S), s # << >>
    PROVE  /\ Range(s) = Range(Tail(s)) \cup {Head(s)} /\ Range(s) \subseteq S
           /\ Len(s) > 0 /\ Len(Tail(s)) = Len(s) - 1 /\ Head(s) = s[1]
           /\ \A i \in 1..(Len(s) - 1) : Tail(s)[i] = s[i + 1]
<1> DEFINE t == Tail(s)
<1>1. /\ Len(s) \in Nat /\ Len(s) > 0 /\ Len(t) = Len(s) - 1 /\ Head(s) = s[1] /\ t \in Seq(S)
      /\ \A i \in 1..(Len(s) - 1) : t[i] = s[i + 1]
  BY EmptySeq, HeadTailProperties
<1>2. DOMAIN s = 1..Len(s) /\ DOMAIN t = 1..(Len(s) - 1) /\ \A i \in 1..Len(s) : s[i] \in S
  BY <1>1
<1> HIDE DEF t
<1>3. ASSUME NEW x \in Range(s) PROVE x = s[1] \/ x \in Range(t)
  <2>1. PICK i \in 1..Len(s) : s[i] = x
    BY <1>2 DEF Range
  <2>2. CASE i # 1
    <3>1. i - 1 \in 1..(Len(s) - 1) /\ (i - 1) + 1 = i
      BY <1>1, <2>2
    <3>2. t[i - 1] = x
      BY <1>1, <2>1, <3>1
    <3> QED
      BY <1>2, <3>1, <3>2 DEF Range
  <2> QED
    BY <2>1, <2>2
<1>4. ASSUME NEW x \in Range(t) PROVE x \in Range(s)
  <2>1. PICK i \in 1..(Len(s) - 1) : t[i] = x
    BY <1>2 DEF Range
  <2>2. i + 1 \in 1..Len(s) /\ s[i + 1] = x
    BY <1>1, <2>1
  <2> QED
    BY <1>2, <2>2 DEF Range
<1>5. s[1] \in Range(s)
  <2>1. 1 \in 1..Len(s)
    BY <1>1
  <2> QED
    BY <1>2, <2>1 DEF Range
<1>6. Range(s) \subseteq S
  BY <1>2 DEF Range
<1> QED
  BY <1>1, <1>3, <1>4, <1>5, <1>6 DEF t

\* What happens to the ring.
LEMMA RingStep ==
    ASSUME BaseInv, [Next]_<<vars, sender>>
    PROVE  \/ UNCHANGED <<ring, announced>> /\ ~Dispatch
           \/ /\ (Deliver \/ Double) /\ ~Dispatch
              /\ Sending /\ tx' = tx /\ pos' \in {pos, pos + 1} /\ ring' = Append(ring, Frames(tx)[pos])
              /\ announced' = IF Frames(tx)[pos].kind = "preamble" THEN announced \cup {tx} ELSE announced
           \/ Dispatch /\ ring # << >> /\ ring' = Tail(ring) /\ UNCHANGED sender
<1>0. Dispatch => ring # << >> /\ Len(ring') = Len(ring) - 1 /\ Len(ring) \in Nat
  BY HeadTailProperties DEF Dispatch, BaseInv, AirType
<1>1. CASE \/ UNCHANGED <<vars, sender>> \/ Unheard \/ Lose \/ Cut \/ NextTransmission
  <2>1. UNCHANGED <<ring, announced>>
    BY <1>1 DEF Unheard, Lose, Cut, NextTransmission, vars, sender
  <2> QED
    BY <1>0, <2>1
<1>2. CASE Deliver \/ Double
  <2>1. /\ Sending /\ tx' = tx /\ pos' \in {pos, pos + 1} /\ ring' = Append(ring, Frames(tx)[pos])
        /\ announced' = IF Frames(tx)[pos].kind = "preamble" THEN announced \cup {tx} ELSE announced
    BY <1>2 DEF Deliver, Double, Receives
  <2>2. Len(ring') = Len(ring) + 1 /\ Len(ring) \in Nat
    BY <2>1 DEF BaseInv, AirType
  <2> QED
    BY <1>0, <1>2, <2>1, <2>2
<1>3. CASE /\ \/ ParseOption \/ ParseLast \/ Setup \/ NextFile \/ Close \/ Open \/ OpenFails
              \/ Install \/ Activate \/ Flush \/ Restore \/ Sigint
           /\ UNCHANGED sender
  <2>1. UNCHANGED <<ring, announced>>
    BY <1>3 DEF ParseOption, ParseLast, Setup, NextFile, Close, Open, OpenFails, Install, Activate,
       Flush, Restore, Sigint, sender
  <2> QED
    BY <1>0, <2>1
<1>4. CASE Dispatch /\ UNCHANGED sender
  BY <1>4 DEF Dispatch, sender
<1> QED
  BY <1>1, <1>2, <1>3, <1>4 DEF Next, Receiver, Sender, Program

LEMMA RingInvStep ==
    ASSUME BaseInv, RingInv, [Next]_<<vars, sender>> PROVE RingInv'
<1>0. /\ ring \in Seq(AirFrames) /\ Len(ring) \in Nat /\ DOMAIN ring = 1..Len(ring)
      /\ \A i \in 1..Len(ring) : ring[i] \in AirFrames
      /\ Range(ring) \subseteq AirFrames /\ AirType /\ tx \in Nat
  BY DEF BaseInv, AirType, Range
<1>1. \A g \in Range(ring) : Gone(g)'
  BY <1>0, GoneStays DEF RingInv
<1>2. announced \subseteq 1..tx' /\ announced \subseteq 1..tx
  BY <1>0, SenderMoves DEF RingInv
<1>3. CASE UNCHANGED <<ring, announced>>
  <2>1. \A i, j \in 1..Len(ring') : i < j => NotAfter(ring'[i], ring'[j])
    BY <1>3 DEF RingInv
  <2>2. \A g \in Range(ring') :
          /\ Gone(g)'
          /\ \A t \in announced' : t > g.tx => \E h \in Range(ring') : h.kind = "preamble" /\ h.tx = t
    BY <1>1, <1>3 DEF RingInv
  <2>3. announced' \subseteq 1..tx'
    BY <1>2, <1>3
  <2> QED
    BY <2>1, <2>2, <2>3 DEF RingInv
<1>4. CASE /\ Deliver \/ Double
           /\ Sending /\ tx' = tx /\ pos' \in {pos, pos + 1} /\ ring' = Append(ring, Frames(tx)[pos])
           /\ announced' = IF Frames(tx)[pos].kind = "preamble" THEN announced \cup {tx} ELSE announced
  <2> DEFINE n == Len(ring)
  <2>0. PICK f \in AirFrames : f = Frames(tx)[pos]
    BY <1>0, <1>4, NextFrame
  <2>1. /\ f \in AirFrames /\ f.tx = tx /\ tx \in Transmissions
        /\ Sent[tx] \in Nat /\ ControlFrames \in Nat
        /\ f.kind = IF pos <= ControlFrames THEN "preamble"
                    ELSE IF pos <= ControlFrames + Sent[tx] THEN "data" ELSE "eot"
    BY <1>0, <1>4, <2>0, NextFrame, FrameParts
  <2>2. pos \in Nat /\ tx' = tx
    BY <1>0, <1>4 DEF AirType
  <2>3. Gone(f)'
    <3>1. f.kind = "data" => pos' > ControlFrames
      BY <1>4, <2>1, <2>2
    <3>2. f.kind = "eot" => pos' > ControlFrames + Sent[tx]
      BY <1>4, <2>1, <2>2
    <3>3. Gone(f)' <=> \/ f.tx < tx'
                      \/ /\ f.tx = tx' /\ (f.kind = "data" => pos' > ControlFrames)
                         /\ (f.kind = "eot" => pos' > ControlFrames + Sent[tx'])
      BY DEF Gone
    <3> QED
      BY <2>1, <2>2, <3>1, <3>2, <3>3
  <2>4. \A g \in Range(ring) : NotAfter(g, f)
    BY <1>0, <1>4, <2>0, GoneNotAfter DEF RingInv
  <2>5. /\ Len(ring') = n + 1 /\ ring'[n + 1] = f /\ \A i \in 1..n : ring'[i] = ring[i]
        /\ Range(ring') = Range(ring) \cup {f}
    BY <1>0, <1>4, <2>0, RangeAppend
  <2> HIDE DEF n
  <2>6. ASSUME NEW i \in 1..(n + 1), NEW j \in 1..(n + 1), i < j PROVE NotAfter(ring'[i], ring'[j])
    <3>1. i \in 1..n /\ ring[i] \in Range(ring)
      BY <1>0, <2>6 DEF n, Range
    <3>2. CASE j = n + 1
      BY <2>4, <2>5, <3>1, <3>2
    <3>3. CASE j # n + 1
      <4>1. j \in 1..n
        BY <1>0, <3>3 DEF n
      <4> QED
        BY <2>5, <2>6, <3>1, <4>1 DEF RingInv, n
    <3> QED
      BY <3>2, <3>3
  <2>7. ASSUME NEW g \in Range(ring'), NEW t \in announced', t > g.tx
        PROVE  \E h \in Range(ring') : h.kind = "preamble" /\ h.tx = t
    <3>1. CASE t \in announced /\ g \in Range(ring)
      BY <2>5, <2>7, <3>1 DEF RingInv
    <3>2. CASE t \notin announced
      <4>1. t = tx /\ f.kind = "preamble"
        BY <1>4, <2>0, <2>7, <3>2
      <4> QED
        BY <2>1, <2>5, <4>1
    <3>3. CASE t \in announced /\ g = f
      BY <1>0, <1>2, <2>1, <2>7, <3>3
    <3> QED
      BY <2>5, <3>1, <3>2, <3>3
  <2>8. announced' \subseteq 1..tx'
    <3>1. tx \in 1..tx
      BY <1>0, <2>1, SentType
    <3> QED
      BY <1>2, <1>4, <2>0, <3>1
  <2>9. \A g \in Range(ring') : Gone(g)'
    BY <1>1, <2>3, <2>5
  <2>10. \A i, j \in 1..Len(ring') : i < j => NotAfter(ring'[i], ring'[j])
    BY <2>5, <2>6
  <2> QED
    BY <2>7, <2>8, <2>9, <2>10 DEF RingInv
<1>5. CASE Dispatch /\ ring # << >> /\ ring' = Tail(ring) /\ UNCHANGED sender
  <2>1. /\ Range(ring) = Range(Tail(ring)) \cup {Head(ring)}
        /\ Len(ring) > 0 /\ Len(Tail(ring)) = Len(ring) - 1 /\ Head(ring) = ring[1]
        /\ \A i \in 1..(Len(ring) - 1) : Tail(ring)[i] = ring[i + 1]
    BY <1>0, <1>5, RangeTail
  <2>2. announced' = announced /\ Range(ring') \subseteq Range(ring)
    BY <1>5, <2>1 DEF sender
  <2>3. ASSUME NEW i \in 1..Len(ring'), NEW j \in 1..Len(ring'), i < j PROVE NotAfter(ring'[i], ring'[j])
    <3>1. i \in 1..(Len(ring) - 1) /\ j \in 1..(Len(ring) - 1)
      BY <1>5, <2>1
    <3>2. i + 1 \in 1..Len(ring) /\ j + 1 \in 1..Len(ring) /\ i + 1 < j + 1
      BY <1>0, <2>3, <3>1
    <3>3. NotAfter(ring[i + 1], ring[j + 1])
      BY <3>2 DEF RingInv
    <3> QED
      BY <1>5, <2>1, <3>1, <3>3
  <2>4. ASSUME NEW g \in Range(ring'), NEW t \in announced', t > g.tx
        PROVE  \E h \in Range(ring') : h.kind = "preamble" /\ h.tx = t
    <3>1. PICK h \in Range(ring) : h.kind = "preamble" /\ h.tx = t
      BY <2>2, <2>4 DEF RingInv
    <3>2. ASSUME h = Head(ring) PROVE FALSE
      <4>1. PICK i \in 1..Len(ring') : ring'[i] = g
        BY <1>5, HeadTailProperties, <1>0 DEF Range
      <4>2. i \in 1..(Len(ring) - 1) /\ g = ring[i + 1]
        BY <1>5, <2>1, <4>1
      <4>3. 1 \in 1..Len(ring) /\ i + 1 \in 1..Len(ring) /\ 1 < i + 1
        BY <1>0, <2>1, <4>2
      <4>4. NotAfter(h, g)
        BY <2>1, <3>2, <4>2, <4>3 DEF RingInv
      <4>5. g.tx \in Nat /\ h.tx \in Nat /\ t \in Nat
        <5>1. g \in AirFrames /\ h \in AirFrames
          BY <1>0, <2>2
        <5> QED
          BY <3>1, <5>1, FrameType
      <4> QED
        BY <2>4, <3>1, <4>4, <4>5 DEF NotAfter
    <3>3. h \in Range(ring')
      BY <1>5, <2>1, <3>2
    <3> QED
      BY <3>1, <3>3
  <2>5. \A g \in Range(ring') : Gone(g)'
    BY <1>1, <2>2
  <2> QED
    BY <1>2, <2>2, <2>3, <2>4, <2>5 DEF RingInv
<1> QED
  BY <1>3, <1>4, <1>5, RingStep

\* What the files hold was sent before all that is in the ring.
HeldInv ==
    Good => \A n \in Numbers :
        /\ Held(n) \in Seq(DataFrames)
        /\ \A x \in Range(Held(n)) : Gone(x) /\ \A g \in Range(ring) : NotAfter(x, g)

LEMMA InitHeld == ASSUME SessionInit PROVE /\ RingInv /\ \A n \in Numbers : Held(n) = << >>
<1>1. BaseInv /\ count = 0 /\ ring = << >> /\ announced = {}
  BY InitTypes DEF SessionInit, Init, BaseInv
<1>2. \A n \in Numbers : n >= count
  BY <1>1, RxAssumption DEF Numbers
<1>3. Len(ring) = 0 /\ Range(ring) = {}
  BY <1>1 DEF Range
<1> QED
  BY <1>1, <1>2, <1>3, HeldNow DEF RingInv

LEMMA EmptyRange == ASSUME NEW S PROVE << >> \in Seq(S) /\ Range(<< >>) = {} /\ Len(<< >>) = 0
BY DEF Range

LEMMA HeldInvStep ==
    ASSUME BaseInv, RingInv, HeldInv, [Next]_<<vars, sender>> PROVE HeldInv'
<1> SUFFICES ASSUME Good', NEW n \in Numbers
             PROVE  /\ Held(n)' \in Seq(DataFrames)
                    /\ \A x \in Range(Held(n)') : Gone(x)' /\ \A g \in Range(ring') : NotAfter(x, g)
  BY DEF HeldInv
<1>1. Good
  BY GoodBefore
<1>2. /\ Held(n) \in Seq(DataFrames)
      /\ \A x \in Range(Held(n)) : Gone(x) /\ \A g \in Range(ring) : NotAfter(x, g)
  BY <1>1 DEF HeldInv
<1>3. /\ Range(Held(n)) \subseteq AirFrames /\ AirType /\ ring \in Seq(AirFrames)
      /\ DOMAIN ring = 1..Len(ring) /\ Len(ring) \in Nat
  <2>1. DataFrames \subseteq AirFrames
    BY DEF DataFrames
  <2> QED
    BY <1>2, <2>1 DEF Range, BaseInv, AirType
<1>4. \A x \in Range(Held(n)) : Gone(x)'
  BY <1>2, <1>3, GoneStays
<1>5. CASE Takes
  <2>1. PICK f \in DataFrames : f = Head(ring)
    BY <1>5, HeldGrows
  <2>2. /\ ring # << >> /\ ring' = Tail(ring)
        /\ Held(n)' = IF n = File THEN Append(Held(n), f) ELSE Held(n)
    BY <1>5, <2>1, HeldGrows
  <2>3. /\ Range(ring) = Range(Tail(ring)) \cup {f} /\ Len(ring) > 0 /\ Len(Tail(ring)) = Len(ring) - 1
        /\ ring[1] = f /\ \A i \in 1..(Len(ring) - 1) : Tail(ring)[i] = ring[i + 1]
        /\ DOMAIN Tail(ring) = 1..(Len(ring) - 1)
    BY <1>3, <2>1, <2>2, RangeTail
  <2>4. Held(n)' \in Seq(DataFrames) /\ Range(Held(n)') \subseteq Range(Held(n)) \cup {f}
    BY <1>2, <2>2, RangeAppend
  <2>5. Gone(f)'
    <3>1. f \in AirFrames /\ Gone(f)
      BY <2>1, <2>3 DEF RingInv, DataFrames
    <3> QED
      BY <1>3, <3>1, GoneStays
  <2>6. ASSUME NEW g \in Range(ring') PROVE NotAfter(f, g)
    <3>1. PICK i \in 1..(Len(ring) - 1) : ring[i + 1] = g
      BY <2>2, <2>3 DEF Range
    <3>2. 1 \in 1..Len(ring) /\ i + 1 \in 1..Len(ring) /\ 1 < i + 1
      BY <1>3, <2>3
    <3> QED
      BY <2>3, <3>1, <3>2 DEF RingInv
  <2>7. ASSUME NEW x \in Range(Held(n)), NEW g \in Range(ring') PROVE NotAfter(x, g)
    BY <1>2, <2>2, <2>3
  <2> QED
    BY <1>4, <2>4, <2>5, <2>6, <2>7
<1>6. CASE ~Takes
  <2>1. Held(n)' = Held(n)
    BY <1>6, HeldKept
  <2>2. ASSUME NEW x \in Range(Held(n)), NEW g \in Range(ring') PROVE NotAfter(x, g)
    <3>1. CASE UNCHANGED ring
      BY <1>2, <3>1
    <3>2. CASE Sending /\ ring' = Append(ring, Frames(tx)[pos])
      <4>1. g \in Range(ring) \/ g = Frames(tx)[pos]
        BY <1>3, <3>2, RangeAppend
      <4>2. x \in AirFrames /\ Gone(x)
        BY <1>2, <1>3
      <4> QED
        BY <1>2, <1>3, <3>2, <4>1, <4>2, GoneNotAfter
    <3>3. CASE ring # << >> /\ ring' = Tail(ring)
      BY <1>2, <1>3, <3>3, RangeTail
    <3> QED
      BY <3>1, <3>2, <3>3, RingStep
  <2> QED
    BY <1>2, <1>4, <2>1, <2>2
<1> QED
  BY <1>5, <1>6

-------------------------------------------------------------------------------
(* Which transmissions a file holds blocks of.                             *)

\* Between two frames of a file no transmission begins of which a preamble was received.
OneSource(s, seen) ==
    \A i, j \in DOMAIN s : i < j => s[i].tx <= s[j].tx /\ seen \cap (s[i].tx + 1)..s[j].tx = {}

\* The preambles received after a frame that the running capture took are in the ring.
SourceInv ==
    Good => /\ \A n \in Numbers : OneSource(Held(n), announced)
            /\ phase = "active" /\ ~boundary =>
                  \A x \in Range(Held(File)), t \in announced :
                      t > x.tx => \E h \in Range(ring) : h.kind = "preamble" /\ h.tx = t

\* A preamble of a later transmission than that of all frames of a file.
LEMMA SourceSeen ==
    ASSUME NEW s \in Seq(DataFrames), NEW seen, NEW t \in Nat, OneSource(s, seen),
           \A x \in Range(s) : x.tx < t
    PROVE  OneSource(s, seen \cup {t})
<1>1. \A i \in DOMAIN s : s[i].tx < t /\ s[i].tx \in Nat
  <2>1. \A i \in DOMAIN s : s[i] \in Range(s) /\ s[i] \in AirFrames
    BY DEF Range, DataFrames
  <2> QED
    BY <2>1, FrameType
<1>2. ASSUME NEW i \in DOMAIN s, NEW j \in DOMAIN s, i < j
      PROVE  s[i].tx <= s[j].tx /\ (seen \cup {t}) \cap (s[i].tx + 1)..s[j].tx = {}
  <2>1. s[i].tx <= s[j].tx /\ seen \cap (s[i].tx + 1)..s[j].tx = {}
    BY <1>2 DEF OneSource
  <2>2. t \notin (s[i].tx + 1)..s[j].tx
    BY <1>1
  <2> QED
    BY <2>1, <2>2
<1> QED
  BY <1>2 DEF OneSource

LEMMA SourceTakes ==
    ASSUME BaseInv, RingInv, HeldInv, SourceInv, Good, Takes, [Next]_<<vars, sender>> PROVE SourceInv'
<1>1. PICK f \in DataFrames : f = Head(ring)
  BY HeldGrows
<1>2. /\ ring # << >> /\ ring' = Tail(ring) /\ phase = "active" /\ ~boundary
      /\ UNCHANGED <<phase, boundary, count>> /\ File \in Numbers
      /\ \A n \in Numbers : Held(n)' = IF n = File THEN Append(Held(n), f) ELSE Held(n)
  BY <1>1, HeldGrows
<1>3. announced' = announced /\ File' = File
  <2>1. UNCHANGED sender
    BY RingStep DEF Takes
  <2> QED
    BY <1>2, <2>1 DEF File, sender
<1>4. /\ ring \in Seq(AirFrames) /\ f \in AirFrames /\ f.kind = "data" /\ f.tx \in Nat
      /\ announced \subseteq Nat
  BY <1>1, FrameType, SentType DEF BaseInv, AirType, DataFrames
<1>5. /\ Range(ring) = Range(Tail(ring)) \cup {f} /\ Range(ring) \subseteq AirFrames
      /\ \A h \in Range(ring) : h.kind = "preamble" => h \in Range(ring') /\ h.tx \in Nat
  BY <1>1, <1>2, <1>4, RangeTail, FrameType
<1>6. ASSUME NEW x \in Range(Held(File)) PROVE x \in AirFrames /\ x.tx \in Nat /\ NotAfter(x, f)
  <2>1. Held(File) \in Seq(DataFrames) /\ NotAfter(x, f)
    BY <1>2, <1>5, <1>6 DEF HeldInv
  <2>2. x \in AirFrames
    BY <2>1, <1>6 DEF Range, DataFrames
  <2> QED
    BY <2>1, <2>2, FrameType
\* Preambles received after x and before f would be in the ring ahead of f.
<1>7. ASSUME NEW x \in Range(Held(File)), NEW t \in announced PROVE ~(t > x.tx /\ t <= f.tx)
  <2> SUFFICES ASSUME t > x.tx, t <= f.tx PROVE FALSE
    OBVIOUS
  <2>1. PICK h \in Range(ring) : h.kind = "preamble" /\ h.tx = t
    BY <1>2, <1>7 DEF SourceInv
  <2>2. NotAfter(f, h)
    <3>1. h \in Range(Tail(ring))
      BY <1>4, <1>5, <2>1
    <3>2. PICK i \in 1..(Len(ring) - 1) : ring[i + 1] = h
      <4>1. /\ DOMAIN Tail(ring) = 1..(Len(ring) - 1)
            /\ \A i \in 1..(Len(ring) - 1) : Tail(ring)[i] = ring[i + 1]
        BY <1>2, <1>4, RangeTail
      <4> QED
        BY <3>1, <4>1 DEF Range
    <3>3. 1 \in 1..Len(ring) /\ i + 1 \in 1..Len(ring) /\ 1 < i + 1 /\ ring[1] = f
      BY <1>1, <1>2, <1>4, <3>2, RangeTail
    <3> QED
      BY <3>2, <3>3 DEF RingInv
  <2> QED
    BY <1>4, <1>5, <2>1, <2>2 DEF NotAfter, Stage
<1>8. ASSUME NEW n \in Numbers PROVE OneSource(Held(n)', announced')
  <2>1. CASE n # File
    BY <1>2, <1>3, <2>1 DEF SourceInv
  <2>2. CASE n = File
    <3> DEFINE s == Held(File)
               u == Append(s, f)
    <3>1. s \in Seq(DataFrames) /\ OneSource(s, announced)
      BY <1>2 DEF HeldInv, SourceInv
    <3>2. /\ DOMAIN u = 1..(Len(s) + 1) /\ u[Len(s) + 1] = f /\ Len(s) \in Nat /\ DOMAIN s = 1..Len(s)
          /\ \A i \in 1..Len(s) : u[i] = s[i]
      BY <3>1
    <3>3. \A i \in 1..Len(s) : s[i] \in Range(s)
      BY <3>2 DEF Range
    <3> HIDE DEF u
    <3>4. ASSUME NEW i \in 1..(Len(s) + 1), NEW j \in 1..(Len(s) + 1), i < j
          PROVE  u[i].tx <= u[j].tx /\ announced \cap (u[i].tx + 1)..u[j].tx = {}
      <4>1. i \in 1..Len(s) /\ u[i] = s[i]
        BY <3>2, <3>4
      <4>2. CASE j \in 1..Len(s)
        BY <3>1, <3>2, <3>4, <4>1, <4>2 DEF OneSource
      <4>3. CASE j = Len(s) + 1
        <5>1. u[j] = f /\ NotAfter(s[i], f) /\ s[i].tx \in Nat
          BY <1>6, <3>2, <3>3, <4>1, <4>3
        <5>2. s[i].tx <= f.tx
          BY <1>4, <5>1 DEF NotAfter
        <5>3. \A t \in announced : t \in Nat /\ ~(t > s[i].tx /\ t <= f.tx)
          BY <1>4, <1>7, <3>3, <4>1
        <5>4. announced \cap (s[i].tx + 1)..f.tx = {}
          BY <1>4, <5>1, <5>3
        <5> QED
          BY <4>1, <5>1, <5>2, <5>4
      <4> QED
        BY <3>2, <4>2, <4>3
    <3>5. OneSource(u, announced)
      BY <3>2, <3>4 DEF OneSource
    <3> QED
      BY <1>2, <1>3, <2>2, <3>5 DEF u
  <2> QED
    BY <2>1, <2>2
<1>9. ASSUME NEW x \in Range(Held(File)'), NEW t \in announced', t > x.tx
      PROVE  \E h \in Range(ring') : h.kind = "preamble" /\ h.tx = t
  <2>1. x \in Range(Held(File)) \cup {f}
    <3>1. Held(File)' = Append(Held(File), f)
      BY <1>2, <1>3
    <3>2. Held(File) \in Seq(DataFrames)
      BY <1>2 DEF HeldInv
    <3> QED
      BY <1>9, <3>1, <3>2, RangeAppend
  <2>2. PICK h \in Range(ring) : h.kind = "preamble" /\ h.tx = t
    <3>1. CASE x = f
      BY <1>3, <1>5, <1>9, <3>1 DEF RingInv
    <3>2. CASE x \in Range(Held(File))
      BY <1>2, <1>3, <1>9, <3>2 DEF SourceInv
    <3> QED
      BY <2>1, <3>1, <3>2
  <2> QED
    BY <1>5, <2>2
<1> QED
  BY <1>8, <1>9 DEF SourceInv

\* A capture becomes active with nothing taken, and keeps its boundary and its file.
LEMMA ActiveStep ==
    ASSUME BaseInv, [Next]_<<vars, sender>>, phase' = "active"
    PROVE  /\ count' = count
           /\ \/ phase = "active" /\ (boundary => boundary')
              \/ phase = "begun" /\ UNCHANGED boundary /\ ~Dispatch
<1>1. count \in Nat
  BY DEF BaseInv, DiskType
<1>2. CASE \/ UNCHANGED <<vars, sender>>
           \/ Deliver \/ Double \/ Unheard \/ Lose \/ Cut \/ NextTransmission
           \/ ParseOption \/ ParseLast \/ Setup \/ Close \/ Open \/ OpenFails
  BY <1>2 DEF Deliver, Double, Receives, Unheard, Lose, Cut, NextTransmission, vars,
     ParseOption, ParseLast, Setup, Close, Open, OpenFails, capture, output
<1>3. CASE Sigint
  BY <1>3 DEF Sigint, Engine!Stop, capture, output
<1>4. CASE NextFile
  BY <1>4 DEF NextFile, BaseInv, FilesInv, capture
<1>5. CASE Install \/ Flush \/ Restore
  BY <1>5 DEF Install, Engine!Begin, Flush, Engine!Finish, Restore, Engine!End
<1>6. CASE Activate
  BY <1>6 DEF Activate, Engine!Activate, output, Dispatch
<1>7. CASE Dispatch
  <2>1. CASE Head(ring).kind = "data"
    BY <1>7, <2>1 DEF Dispatch, Engine!TakeData, output
  <2>2. CASE Head(ring).kind # "data"
    BY <1>7, <2>2 DEF Dispatch, HandleFrameControl, Engine!TakePreamble, capture, output
  <2> QED
    BY <2>1, <2>2
<1> QED
  BY <1>2, <1>3, <1>4, <1>5, <1>6, <1>7 DEF Next, Receiver, Sender, Program

\* The preamble that is being sent is later than all that files hold.
LEMMA PreambleIsNew ==
    ASSUME BaseInv, HeldInv, Good, Sending, Frames(tx)[pos].kind = "preamble",
           NEW n \in Numbers, NEW x \in Range(Held(n))
    PROVE  x.tx < tx
<1>1. Held(n) \in Seq(DataFrames) /\ Gone(x)
  BY DEF HeldInv
<1>2. x.kind = "data"
  BY <1>1 DEF Range, DataFrames
<1>3. pos <= ControlFrames /\ pos \in Nat /\ ControlFrames \in Nat
  <2>1. pos \in Nat /\ ControlFrames \in Nat
    BY SessionAssumption DEF BaseInv, AirType
  <2>2. pos <= ControlFrames
    BY NextFrame, FrameParts DEF BaseInv
  <2> QED
    BY <2>1, <2>2
<1> QED
  BY <1>1, <1>2, <1>3 DEF Gone

LEMMA SourceStep ==
    ASSUME BaseInv, RingInv, HeldInv, SourceInv, [Next]_<<vars, sender>> PROVE SourceInv'
<1> SUFFICES ASSUME Good' PROVE SourceInv'
  BY DEF SourceInv
<1>1. Good
  BY GoodBefore
<1> SUFFICES ASSUME ~Takes PROVE SourceInv'
  BY <1>1, SourceTakes
<1>2. \A n \in Numbers : Held(n)' = Held(n)
  BY HeldKept
<1>3. /\ ring \in Seq(AirFrames) /\ AirType /\ tx \in Nat
  BY DEF BaseInv, AirType
<1>4. ASSUME NEW n \in Numbers PROVE OneSource(Held(n)', announced')
  <2>1. Held(n) \in Seq(DataFrames) /\ OneSource(Held(n), announced)
    BY <1>1 DEF HeldInv, SourceInv
  <2>2. CASE announced' = announced
    BY <1>2, <2>1, <2>2
  <2>3. CASE Sending /\ Frames(tx)[pos].kind = "preamble" /\ announced' = announced \cup {tx}
    <3>1. \A x \in Range(Held(n)) : x.tx < tx
      BY <1>1, <2>3, PreambleIsNew
    <3> QED
      BY <1>2, <1>3, <2>1, <2>3, <3>1, SourceSeen
  <2> QED
    BY <2>2, <2>3, RingStep DEF sender
<1>5. ASSUME phase' = "active", ~boundary'
      PROVE  \A x \in Range(Held(File)'), t \in announced' :
                 t > x.tx => \E h \in Range(ring') : h.kind = "preamble" /\ h.tx = t
  <2>1. count > 0 /\ File' = File /\ File \in Numbers
    <3>1. count' = count /\ phase \in {"active", "begun"}
      BY <1>5, ActiveStep
    <3>2. count > 0
      BY <3>1 DEF BaseInv, FilesInv
    <3> QED
      BY <3>1, <3>2, FileNumber DEF File, BaseInv
  <2>2. Held(File)' = Held(File)
    BY <1>2, <2>1
  <2>3. CASE Held(File) = << >>
    BY <2>2, <2>3, EmptyRange
  <2>4. CASE Held(File) # << >>
    <3>1. phase = "active" /\ ~boundary
      <4>1. phase # "begun"
        BY <2>4, HeldNow
      <4> QED
        BY <1>5, <4>1, ActiveStep
    <3>2. \A x \in Range(Held(File)), t \in announced :
              t > x.tx => \E h \in Range(ring) : h.kind = "preamble" /\ h.tx = t
      BY <1>1, <3>1 DEF SourceInv
    <3>3. CASE UNCHANGED <<ring, announced>>
      BY <2>2, <3>2, <3>3
    <3>4. CASE /\ Sending /\ ring' = Append(ring, Frames(tx)[pos])
               /\ announced' = IF Frames(tx)[pos].kind = "preamble" THEN announced \cup {tx} ELSE announced
      <4>1. Range(ring') = Range(ring) \cup {Frames(tx)[pos]}
        BY <1>3, <3>4, RangeAppend
      <4>2. Frames(tx)[pos].tx = tx
        BY <1>3, <3>4, NextFrame, FrameParts
      <4> QED
        BY <2>2, <3>2, <3>4, <4>1, <4>2
    <3>5. CASE Dispatch /\ ring # << >> /\ ring' = Tail(ring) /\ UNCHANGED sender
      <4>1. Head(ring).kind # "data"
        BY <3>5 DEF Takes
      <4>2. Held(File) = taken
        BY <3>1, HeldNow
      <4>3. Head(ring).kind # "preamble"
        BY <1>5, <2>4, <3>5, <4>1, <4>2 DEF Dispatch, HandleFrameControl, Engine!TakePreamble
      <4>4. Range(ring) = Range(Tail(ring)) \cup {Head(ring)} /\ announced' = announced
        BY <1>3, <3>5, RangeTail DEF sender
      <4> QED
        BY <2>2, <3>2, <3>5, <4>3, <4>4
    <3> QED
      BY <3>3, <3>4, <3>5, RingStep
  <2> QED
    BY <2>3, <2>4
<1> QED
  BY <1>4, <1>5 DEF SourceInv

LEMMA InitSourceInv == SessionInit => RingInv /\ HeldInv /\ SourceInv
<1> SUFFICES ASSUME SessionInit PROVE RingInv /\ HeldInv /\ SourceInv
  OBVIOUS
<1>1. RingInv /\ \A n \in Numbers : Held(n) = << >>
  BY InitHeld
<1>2. phase = "idle"
  BY DEF SessionInit, Init, Engine!Init
<1>3. OneSource(<< >>, announced)
  BY DEF OneSource
<1>4. HeldInv
  BY <1>1, EmptyRange DEF HeldInv
<1> QED
  BY <1>1, <1>2, <1>3, <1>4 DEF SourceInv

\* What a file was given is all or part of what is held for it.
LEMMA NewOrNothing ==
    ASSUME BaseInv, NEW n \in Numbers PROVE New(n) = Held(n) \/ (New(n) = << >> /\ n = File /\ phase = "active")
BY HeldNow

\* A file holds blocks of two transmissions only if each preamble of the later one, and of
\* all between them, was lost (receiver.c, lines 276-279), whatever the air does and
\* whenever captures are stopped.
THEOREM SessionOneSource == Spec => []OneSourcePerFile
<1>1. SessionInit => BaseInv /\ RingInv /\ HeldInv /\ SourceInv
  BY InitTypes, InitSourceInv DEF BaseInv
<1>2. BaseInv /\ RingInv /\ HeldInv /\ SourceInv /\ [Next]_<<vars, sender>>
      => BaseInv' /\ RingInv' /\ HeldInv' /\ SourceInv'
  BY BaseStep, RingInvStep, HeldInvStep, SourceStep
<1>3. BaseInv /\ SourceInv => OneSourcePerFile
  <2> SUFFICES ASSUME BaseInv, SourceInv, Pristine, NEW n \in Numbers PROVE OneSource(New(n), announced)
    BY DEF OneSourcePerFile, OneSource
  <2>1. OneSource(Held(n), announced)
    BY DEF SourceInv, Good
  <2>2. OneSource(<< >>, announced)
    BY DEF OneSource
  <2> QED
    BY <2>1, <2>2, NewOrNothing
<1> QED
  BY <1>1, <1>2, <1>3, PTL DEF Spec
-------------------------------------------------------------------------------
(* Files and transmissions, as long as nobody stops a capture.             *)

\* A file is closed when all that is still to come, or came after it, is of later
\* transmissions.
Closed(n) ==
    /\ Held(n) # << >>
    /\ \A x \in Range(Held(n)) :
          /\ x.tx < tx
          /\ \A g \in Range(ring) : x.tx < g.tx
          /\ \A m \in Numbers : m > n => \A y \in Range(Held(m)) : x.tx < y.tx

\* A capture that nobody stopped goes on to the next file at a preamble alone, and then its
\* file is closed.
OneFileInv ==
    Good /\ stops = 0 =>
        /\ ~heard
        /\ \A n \in Numbers : n < count - 1 => Closed(n)
        /\ phase # "idle" /\ boundary => Closed(File)
        /\ phase = "done" /\ report = "NORMAL" => boundary
        /\ pc = "loop" /\ state = "NORMAL" /\ count > 0 => Closed(File)

LEMMA ClosedStep ==
    ASSUME BaseInv, HeldInv, Good', [Next]_<<vars, sender>>,
           NEW n \in Numbers, Closed(n), ~(Takes /\ n = File)
    PROVE  Closed(n)'
<1>1. Good
  BY GoodBefore
<1>2. /\ ring \in Seq(AirFrames) /\ AirType /\ tx \in Nat
      /\ \A m \in Numbers : Held(m) \in Seq(DataFrames)
  BY <1>1 DEF BaseInv, AirType, HeldInv
<1>3. Held(n)' = Held(n)
  BY HeldKept, HeldGrows
<1>4. ASSUME NEW x \in Range(Held(n)) PROVE x.tx \in Nat
  <2>1. Held(n) \in Seq(DataFrames)
    BY <1>2
  <2>2. x \in AirFrames
    BY <2>1 DEF Range, DataFrames
  <2> QED
    BY <2>2, FrameType
<1>5. ASSUME NEW x \in Range(Held(n)) PROVE x.tx < tx'
  BY <1>2, <1>4, SenderMoves DEF Closed
<1>6. ASSUME NEW x \in Range(Held(n)), NEW g \in Range(ring') PROVE x.tx < g.tx
  <2>1. CASE UNCHANGED ring
    BY <2>1 DEF Closed
  <2>2. CASE Sending /\ ring' = Append(ring, Frames(tx)[pos])
    <3>1. g \in Range(ring) \/ g = Frames(tx)[pos]
      BY <1>2, <2>2, RangeAppend
    <3>2. Frames(tx)[pos].tx = tx
      BY <1>2, <2>2, NextFrame, FrameParts
    <3> QED
      BY <3>1, <3>2 DEF Closed
  <2>3. CASE ring # << >> /\ ring' = Tail(ring)
    BY <1>2, <2>3, RangeTail DEF Closed
  <2> QED
    BY <2>1, <2>2, <2>3, RingStep
<1>7. ASSUME NEW x \in Range(Held(n)), NEW m \in Numbers, m > n, NEW y \in Range(Held(m)') PROVE x.tx < y.tx
  <2>1. CASE Held(m)' = Held(m)
    BY <1>7, <2>1 DEF Closed
  <2>2. CASE Takes /\ Held(m)' = Append(Held(m), Head(ring))
    <3>1. y \in Range(Held(m)) \/ y = Head(ring)
      BY <1>2, <1>7, <2>2, RangeAppend
    <3>2. Head(ring) \in Range(ring)
      BY <1>2, <2>2, HeldGrows, RangeTail
    <3> QED
      BY <1>7, <3>1, <3>2 DEF Closed
  <2> QED
    BY <2>1, <2>2, HeldKept, HeldGrows
<1> QED
  BY <1>3, <1>5, <1>6, <1>7 DEF Closed

\* All that a file holds is of a transmission earlier than the preamble at the head of the ring.
LEMMA PreambleCloses ==
    ASSUME BaseInv, RingInv, HeldInv, Good, phase = "active", taken # << >>,
           ring # << >>, Head(ring).kind = "preamble"
    PROVE  Closed(File)
<1>1. File \in Numbers /\ count = File + 1 /\ Held(File) = taken
  <2>1. count > 0
    BY DEF BaseInv, FilesInv
  <2> QED
    BY <2>1, FileNumber, HeldNow DEF BaseInv
<1>2. /\ Held(File) \in Seq(DataFrames) /\ ring \in Seq(AirFrames) /\ tx \in Nat
      /\ \A x \in Range(Held(File)) : \A g \in Range(ring) : NotAfter(x, g)
  BY <1>1 DEF HeldInv, BaseInv, AirType
<1>3. PICK f \in AirFrames : f = Head(ring)
  BY RingHead DEF BaseInv
<1>4. /\ f \in Range(ring) /\ f.kind = "preamble" /\ f.tx \in Nat /\ Gone(f) /\ f = ring[1]
      /\ Range(ring) \subseteq AirFrames /\ DOMAIN ring = 1..Len(ring) /\ Len(ring) \in Nat
  <2>1. f \in Range(ring) /\ f = ring[1] /\ Range(ring) \subseteq AirFrames
    BY <1>2, <1>3, RangeTail
  <2> QED
    BY <1>2, <1>3, <2>1, FrameType DEF RingInv
<1>5. f.tx <= tx
  BY <1>2, <1>4 DEF Gone
<1>6. ASSUME NEW x \in Range(Held(File)) PROVE x.tx \in Nat /\ x.tx < f.tx
  <2>1. x \in AirFrames /\ x.kind = "data"
    BY <1>2 DEF Range, DataFrames
  <2>2. NotAfter(x, f) /\ x.tx \in Nat
    BY <1>2, <1>4, <2>1, FrameType
  <2> QED
    BY <1>4, <2>1, <2>2 DEF NotAfter, Stage
<1>7. ASSUME NEW g \in Range(ring) PROVE g.tx \in Nat /\ f.tx <= g.tx
  <2>1. PICK i \in 1..Len(ring) : ring[i] = g
    BY <1>4 DEF Range
  <2>2. g.tx \in Nat
    BY <1>4, FrameType
  <2>3. CASE i = 1
    BY <1>4, <2>1, <2>2, <2>3
  <2>4. CASE i # 1
    <3>1. 1 \in 1..Len(ring) /\ 1 < i
      BY <1>4, <2>4
    <3>2. NotAfter(f, g)
      BY <1>4, <2>1, <3>1 DEF RingInv
    <3> QED
      BY <1>4, <2>2, <3>2 DEF NotAfter
  <2> QED
    BY <2>3, <2>4
<1>8. ASSUME NEW m \in Numbers, m > File PROVE Range(Held(m)) = {}
  <2>1. m >= count
    BY <1>1, <1>8, RxAssumption DEF Numbers
  <2> QED
    BY <2>1, HeldNow, EmptyRange
<1>9. \A x \in Range(Held(File)) : x.tx < tx /\ \A g \in Range(ring) : x.tx < g.tx
  BY <1>2, <1>4, <1>5, <1>6, <1>7
<1> QED
  BY <1>1, <1>8, <1>9 DEF Closed

LEMMA OneFileStep ==
    ASSUME BaseInv, RingInv, HeldInv, OneFileInv, [Next]_<<vars, sender>> PROVE OneFileInv'
<1> SUFFICES ASSUME Good', stops' = 0 PROVE OneFileInv'
  BY DEF OneFileInv
<1>0. /\ Good /\ stops \in Nat /\ count \in Nat /\ MaxFiles \in Nat /\ count <= MaxFiles
      /\ phase \in {"idle", "begun", "active", "done"}
  BY GoodBefore, RxAssumption DEF BaseInv, CaptureType, DiskType, Engine!Phases
<1>1. ~Sigint /\ stops = 0
  <2>1. CASE \/ UNCHANGED <<vars, sender>>
             \/ Deliver \/ Double \/ Unheard \/ Lose \/ Cut \/ NextTransmission
             \/ ParseOption \/ ParseLast \/ Setup \/ NextFile \/ Close \/ Open \/ OpenFails
             \/ Install \/ Activate \/ Dispatch \/ Flush \/ Restore
    <3>1. stops' = stops
      BY <2>1 DEF Deliver, Double, Receives, Unheard, Lose, Cut, NextTransmission, vars,
         ParseOption, ParseLast, Setup, NextFile, Close, Open, OpenFails, Install, Activate, Dispatch,
         Flush, Restore
    <3> QED
      BY <1>0, <3>1 DEF Sigint
  <2>2. CASE Sigint
    BY <1>0, <2>2 DEF Sigint
  <2> QED
    BY <2>1, <2>2 DEF Next, Receiver, Sender, Program
<1>2. /\ ~heard
      /\ \A n \in Numbers : n < count - 1 => Closed(n)
      /\ phase # "idle" /\ boundary => Closed(File)
      /\ phase = "done" /\ report = "NORMAL" => boundary
      /\ pc = "loop" /\ state = "NORMAL" /\ count > 0 => Closed(File)
  BY <1>0, <1>1 DEF OneFileInv
<1>3. ASSUME count' = count
      PROVE  /\ \A n \in Numbers : n < count' - 1 => Closed(n)'
             /\ Closed(File) /\ count > 0 /\ ~Takes => Closed(File)'
  <2>1. ASSUME NEW n \in Numbers, n < count' - 1 PROVE Closed(n)'
    <3>1. n < count - 1 /\ n # File
      BY <1>0, <1>3, <2>1 DEF File, Numbers
    <3> QED
      BY <1>2, <3>1, ClosedStep
  <2>2. ASSUME Closed(File), count > 0, ~Takes PROVE Closed(File)'
    <3>1. File' = File /\ File \in Numbers
      BY <1>3, <2>2, FileNumber DEF File, BaseInv
    <3>2. ASSUME NEW n \in Numbers, Closed(n) PROVE Closed(n)'
      BY <2>2, <3>2, ClosedStep
    <3> QED
      BY <2>2, <3>1, <3>2 DEF Closed
  <2> QED
    BY <2>1, <2>2
<1>4. phase # "idle" => count > 0
  BY DEF BaseInv, FilesInv
<1>5. CASE Takes
  <2>1. /\ pc = "capture" /\ phase = "active" /\ ~boundary
        /\ UNCHANGED <<pc, phase, heard, boundary, report, count>>
    BY <1>5, HeldGrows
  <2> QED
    BY <1>2, <1>3, <2>1 DEF OneFileInv
<1>6. CASE NextFile
  <2>1. /\ pc = "loop" /\ pc' # "loop" /\ count' = count + 1 /\ (count > 0 => state = "NORMAL")
        /\ UNCHANGED <<heard, phase, report, boundary>> /\ ~Takes
    BY <1>0, <1>6 DEF NextFile, More, capture, Takes, Dispatch
  <2>2. phase = "idle"
    BY <1>0, <2>1 DEF BaseInv, FilesInv
  <2>3. ASSUME NEW n \in Numbers, n < count' - 1 PROVE Closed(n)'
    <3>1. n < count - 1 \/ (n = File /\ count > 0)
      BY <1>0, <2>1, <2>3 DEF Numbers, File
    <3>2. Closed(n)
      BY <1>2, <2>1, <3>1
    <3> QED
      BY <2>1, <3>2, ClosedStep
  <2> QED
    BY <1>2, <2>1, <2>2, <2>3 DEF OneFileInv
<1>7. CASE Dispatch /\ ~Takes
  <2>1. CASE Head(ring).kind = "preamble"
    <3>1. /\ pc = "capture" /\ phase = "active" /\ ring # << >> /\ ~boundary
          /\ boundary' = (taken # << >>) /\ UNCHANGED <<pc, phase, heard, report, count>>
      BY <1>7, <2>1 DEF Dispatch, HandleFrameControl, Engine!TakePreamble, output
    <3>2. boundary' => Closed(File)
      BY <1>0, <2>1, <3>1, PreambleCloses
    <3> QED
      BY <1>2, <1>3, <1>4, <1>7, <3>1, <3>2 DEF OneFileInv
  <2>2. CASE Head(ring).kind # "preamble"
    <3>1. /\ pc = "capture" /\ phase = "active"
          /\ UNCHANGED <<pc, phase, heard, report, boundary, count>>
      BY <1>7, <2>2 DEF Takes, Dispatch, HandleFrameControl, capture, output
    <3> QED
      BY <1>2, <1>3, <1>4, <1>7, <3>1 DEF OneFileInv
  <2> QED
    BY <2>1, <2>2
<1>8. CASE Flush
  <2>1. /\ pc = "capture" /\ phase = "active" /\ phase' = "done" /\ UNCHANGED <<pc, heard, boundary, count>>
        /\ (report' = "NORMAL" => heard \/ boundary) /\ ~Takes
    BY <1>8 DEF Flush, Engine!Finish, Engine!Ends, Takes, Dispatch
  <2> QED
    BY <1>2, <1>3, <1>4, <2>1 DEF OneFileInv
<1>9. CASE Restore
  <2>1. /\ phase = "done" /\ phase' = "idle" /\ state' = report /\ UNCHANGED <<heard, boundary, count>> /\ ~Takes
    BY <1>9 DEF Restore, Engine!End, output, Takes, Dispatch
  <2> QED
    BY <1>2, <1>3, <1>4, <2>1 DEF OneFileInv
<1>10. CASE Install
  <2>1. heard' = FALSE /\ boundary' = FALSE /\ phase' = "begun" /\ pc' = "capture" /\ count' = count
    BY <1>10 DEF Install, Engine!Begin, output
  <2> QED
    BY <1>2, <1>3, <2>1 DEF OneFileInv
<1>11. CASE Setup \/ OpenFails
  <2>1. /\ count = 0 \/ state' = "ERROR"
        /\ UNCHANGED <<heard, boundary, phase, report, count>>
        /\ phase = "idle"
    BY <1>0, <1>11 DEF Setup, OpenFails, BaseInv, FilesInv, capture, output
  <2> QED
    BY <1>2, <1>3, <2>1 DEF OneFileInv
<1>12. CASE Activate
  <2>1. /\ phase # "idle" /\ phase' = "active" /\ pc = "capture" /\ ~Takes
        /\ UNCHANGED <<pc, heard, boundary, report, count>>
    BY <1>12 DEF Activate, Engine!Activate, output, Takes, Dispatch
  <2> QED
    BY <1>2, <1>3, <1>4, <2>1 DEF OneFileInv
<1>13. CASE ParseOption \/ ParseLast \/ Close \/ Open
  <2>1. /\ pc' # "loop" /\ UNCHANGED <<heard, boundary, phase, report, count>> /\ phase = "idle"
    BY <1>0, <1>13 DEF ParseOption, ParseLast, Close, Open, BaseInv, FilesInv, capture, output
  <2> QED
    BY <1>2, <1>3, <2>1 DEF OneFileInv
<1>14. CASE UNCHANGED <<vars, sender>> \/ Deliver \/ Double \/ Unheard \/ Lose \/ Cut \/ NextTransmission
  <2>1. UNCHANGED <<pc, state, heard, boundary, phase, report, count>>
    BY <1>14 DEF Deliver, Double, Receives, Unheard, Lose, Cut, NextTransmission, vars, capture, output
  <2>2. ~Takes
    BY <1>14, RingStep DEF Takes, Dispatch, Deliver, Double, Receives, Unheard, Lose, Cut,
       NextTransmission, vars, sender
  <2> QED
    BY <1>2, <1>3, <1>4, <2>1, <2>2 DEF OneFileInv
<1> QED
  BY <1>1, <1>5, <1>6, <1>7, <1>8, <1>9, <1>10, <1>11, <1>12, <1>13, <1>14
  DEF Next, Receiver, Sender, Program, Takes

LEMMA InitOneFile == SessionInit => OneFileInv
<1> SUFFICES ASSUME SessionInit PROVE OneFileInv
  OBVIOUS
<1>1. heard = FALSE /\ count = 0 /\ phase = "idle"
  BY DEF SessionInit, Init, Engine!Init
<1>2. \A n \in Numbers : ~(n < count - 1)
  BY <1>1, RxAssumption DEF Numbers
<1> QED
  BY <1>1, <1>2 DEF OneFileInv

\* Without a stop no transmission is spread over two files and no file but the last is
\* empty (rx.c, lines 199-204), whatever the air loses, doubles or cuts off.
THEOREM SessionOneFile == Spec => []OneFilePerTransmission
<1>1. SessionInit => BaseInv /\ RingInv /\ HeldInv /\ OneFileInv
  BY InitTypes, InitSourceInv, InitOneFile DEF BaseInv
<1>2. BaseInv /\ RingInv /\ HeldInv /\ OneFileInv /\ [Next]_<<vars, sender>>
      => BaseInv' /\ RingInv' /\ HeldInv' /\ OneFileInv'
  BY BaseStep, RingInvStep, HeldInvStep, OneFileStep
<1>3. BaseInv /\ OneFileInv => OneFilePerTransmission
  <2> SUFFICES ASSUME BaseInv, OneFileInv, Pristine, stops = 0, NEW n \in 1..(count - 1)
               PROVE  /\ New(n - 1) # << >>
                      /\ \A i \in DOMAIN New(n - 1), j \in DOMAIN New(n) : New(n - 1)[i].tx < New(n)[j].tx
    BY DEF OneFilePerTransmission
  <2>1. n \in Numbers /\ n - 1 \in Numbers /\ n > n - 1 /\ n - 1 < count - 1 /\ n - 1 # File
    <3>1. count \in Nat /\ count <= MaxFiles /\ MaxFiles \in Nat
      BY RxAssumption DEF BaseInv, DiskType
    <3> QED
      BY <3>1 DEF Numbers, File
  <2>2. Closed(n - 1) /\ New(n - 1) = Held(n - 1)
    BY <2>1, HeldNow DEF OneFileInv, Good
  <2>3. \A i \in DOMAIN New(n - 1) : New(n - 1)[i] \in Range(Held(n - 1))
    BY <2>2 DEF Range
  <2>4. \A j \in DOMAIN New(n) : New(n)[j] \in Range(Held(n))
    <3>1. CASE New(n) = Held(n)
      BY <3>1 DEF Range
    <3>2. CASE New(n) = << >>
      BY <3>2
    <3> QED
      BY <2>1, <3>1, <3>2, NewOrNothing
  <2> QED
    BY <2>1, <2>2, <2>3, <2>4 DEF Closed
<1> QED
  BY <1>1, <1>2, <1>3, PTL DEF Spec
-------------------------------------------------------------------------------
(* What arrives when nothing goes wrong.  The frames in the ring follow    *)
(* the last one that was dispatched as the sender sent them, and from that *)
(* one it is known which files there are and what each of them holds.      *)

Seen == {f \in AirFrames : IF f.kind = "data" THEN f.block \in 1..Sent[f.tx] ELSE f.block = 0}
Start == Frame("eot", 0, 0)

\* Frame g is what a sender sends next after f.
Follows(f, g) ==
    \/ g.kind = "preamble" /\ (f = g \/ f = Frame("eot", g.tx - 1, 0))
    \/ g.kind = "data" /\ f = IF g.block = 1 THEN Frame("preamble", g.tx, 0)
                              ELSE Frame("data", g.tx, g.block - 1)
    \/ g.kind = "eot" /\ \/ f = g
                         \/ f = IF Sent[g.tx] = 0 THEN Frame("preamble", g.tx, 0)
                                ELSE Frame("data", g.tx, Sent[g.tx])

LastSent ==
    IF pos = 1 THEN Frame("eot", tx - 1, 0)
    ELSE IF pos <= ControlFrames + 1 THEN Frame("preamble", tx, 0)
    ELSE IF pos <= ControlFrames + Sent[tx] + 1 THEN Frame("data", tx, pos - 1 - ControlFrames)
    ELSE Frame("eot", tx, 0)

\* The frames from the last one dispatched, u, to the last one sent.
Nth(u, s, i) == IF i = 0 THEN u ELSE s[i]
Linked(u) ==
    /\ \A i \in 1..Len(ring) : ring[i] \in Seen /\ Follows(Nth(u, ring, i - 1), ring[i])
    /\ Nth(u, ring, Len(ring)) = LastSent

\* The number of the file of a transmission, whether u belongs to a file that was begun,
\* and how many files were.
Number(n) == Cardinality(Earlier(n))
Carries(u) == u.tx \in Transmissions /\ u.kind # "preamble" /\ Sent[u.tx] > 0
Filled(u) == Number(u.tx) + (IF Carries(u) THEN 1 ELSE 0)
Got(u) == IF u.kind = "data" THEN u.block ELSE Sent[u.tx]

\* The first b blocks of a transmission.
Begins(s, n, b) == s \in Seq(DataFrames) /\ Len(s) = b /\ \A i \in 1..b : s[i] = Frame("data", n, i)

FilesHold(u) ==
    /\ Filled(u) <= count
    /\ \A m \in Transmissions : m < u.tx /\ Sent[m] > 0 => Begins(Held(Number(m)), m, Sent[m])
    /\ Carries(u) => Begins(Held(Number(u.tx)), u.tx, Got(u))

Counted(u) ==
    /\ pc \in {"parse", "setup"} \/ (pc = "loop" /\ state = "NORMAL") => count = Filled(u) /\ ~Carries(u)
    /\ pc \in {"open", "install"} => count = Filled(u) + 1 /\ ~Carries(u)
    /\ pc = "capture" => /\ count = Filled(u) + (IF taken # << >> THEN 0 ELSE 1)
                         /\ Carries(u) <=> taken # << >> /\ ~boundary

DeliverInv ==
    Good /\ faults = 0 /\ stops = 0 =>
        \E u \in Seen \cup {Start} : Linked(u) /\ FilesHold(u) /\ Counted(u)

LEMMA Counting ==
    /\ \A n \in Nat : Number(n) \in Nat
    /\ Number(0) = 0 /\ Number(1) = 0
    /\ \A n \in Nat : Number(n + 1) = Number(n) + (IF n \in Transmissions /\ Sent[n] > 0 THEN 1 ELSE 0)
    /\ \A m \in Transmissions, n \in Nat : m < n /\ Sent[m] > 0 => Number(m) < Number(n)
<1>1. Transmissions = 1..Len(Sent) /\ Len(Sent) \in Nat /\ IsFiniteSet(Transmissions)
  <2>1. Transmissions = 1..Len(Sent) /\ Len(Sent) \in Nat
    BY SentType
  <2> QED
    BY <2>1, FS_Interval
<1>2. \A n \in Nat : IsFiniteSet(Earlier(n))
  <2>1. \A n \in Nat : Earlier(n) \in SUBSET Transmissions
    BY DEF Earlier
  <2> QED
    BY <1>1, <2>1, FS_Subset
<1>3. \A n \in Nat : Number(n) \in Nat
  BY <1>2, FS_CardinalityType DEF Number
<1>4. Earlier(0) = {} /\ Earlier(1) = {}
  BY <1>1 DEF Earlier
<1>5. ASSUME NEW n \in Nat
      PROVE  Number(n + 1) = Number(n) + (IF n \in Transmissions /\ Sent[n] > 0 THEN 1 ELSE 0)
  <2>1. CASE n \in Transmissions /\ Sent[n] > 0
    <3>1. Earlier(n + 1) = Earlier(n) \cup {n} /\ n \notin Earlier(n)
      BY <1>1, <2>1 DEF Earlier
    <3> QED
      BY <1>2, <2>1, <3>1, FS_AddElement DEF Number
  <2>2. CASE ~(n \in Transmissions /\ Sent[n] > 0)
    <3>1. Earlier(n + 1) = Earlier(n)
      BY <1>1, <2>2 DEF Earlier
    <3> QED
      BY <1>3, <2>2, <3>1 DEF Number
  <2> QED
    BY <2>1, <2>2
<1>6. ASSUME NEW m \in Transmissions, NEW n \in Nat, m < n, Sent[m] > 0 PROVE Number(m) < Number(n)
  <2>1. m \in Nat /\ Earlier(m + 1) \in SUBSET Earlier(n)
    BY <1>1, <1>6 DEF Earlier
  <2>2. Number(m + 1) <= Number(n)
    BY <1>2, <1>6, <2>1, FS_Subset DEF Number
  <2>3. Number(m + 1) = Number(m) + 1
    BY <1>5, <1>6, <2>1
  <2> QED
    BY <1>3, <2>1, <2>2, <2>3
<1>7. Number(0) = 0 /\ Number(1) = 0
  BY <1>4, FS_EmptySet DEF Number
<1> QED
  BY <1>3, <1>5, <1>6, <1>7

LEMMA SeenType ==
    ASSUME NEW u \in Seen \cup {Start}
    PROVE  /\ u.tx \in Nat /\ (u # Start => u.tx \in Transmissions /\ Sent[u.tx] \in Nat)
           /\ u.kind \in {"preamble", "data", "eot"} /\ Filled(u) \in Nat
           /\ Carries(u) => u.tx \in Transmissions /\ Got(u) \in 1..Sent[u.tx] /\ Sent[u.tx] \in Nat
           /\ u = Start => u.tx = 0 /\ ~Carries(u) /\ Filled(u) = 0
<1>1. 0 \notin Transmissions /\ \A n \in Transmissions : Sent[n] \in Nat
  BY SentType
<1>2. CASE u = Start
  <2>1. u.tx = 0 /\ u.kind = "eot"
    BY <1>2, FrameParts DEF Start
  <2>2. ~Carries(u)
    BY <1>1, <2>1 DEF Carries
  <2>3. Filled(u) = 0
    BY <2>1, <2>2, Counting DEF Filled
  <2> QED
    BY <1>2, <2>1, <2>2, <2>3
<1>3. CASE u \in Seen
  <2>1. u \in AirFrames /\ u.tx \in Nat /\ u.tx \in Transmissions /\ u.kind \in {"preamble", "data", "eot"}
    BY <1>3, FrameType DEF Seen, AirFrames
  <2>2. Filled(u) \in Nat
    BY <2>1, Counting DEF Filled
  <2>3. Carries(u) => Got(u) \in 1..Sent[u.tx]
    BY <1>1, <1>3, <2>1 DEF Carries, Got, Seen
  <2>4. u # Start
    BY <1>1, <2>1, FrameParts DEF Start
  <2> QED
    BY <1>1, <2>1, <2>2, <2>3, <2>4
<1> QED
  BY <1>2, <1>3

\* A control frame changes neither how many files there are nor what they hold.
LEMMA ControlFollows ==
    ASSUME NEW u \in Seen \cup {Start}, NEW g \in Seen, Follows(u, g), g.kind # "data"
    PROVE  /\ Filled(g) = Filled(u)
           /\ Carries(g) => Carries(u) /\ u.tx = g.tx /\ Got(u) = Got(g)
           /\ \A m \in Transmissions : m < g.tx /\ Sent[m] > 0
                 => m < u.tx \/ (m = u.tx /\ Carries(u) /\ Got(u) = Sent[m])
           /\ g.kind = "eot" => (Carries(g) <=> Carries(u))
           /\ g.kind = "preamble" => ~Carries(g)
<1>1. /\ g \in AirFrames /\ g.tx \in Nat /\ g.tx \in Transmissions /\ Sent[g.tx] \in Nat
      /\ g.kind \in {"preamble", "eot"} /\ Transmissions = 1..Len(Sent)
  BY FrameType, SentType DEF Seen, AirFrames
<1>2. CASE u = g
  BY <1>1, <1>2 DEF Carries
<1>3. CASE g.kind = "preamble" /\ u = Frame("eot", g.tx - 1, 0)
  <2>1. u.tx = g.tx - 1 /\ u.kind = "eot" /\ u.tx \in Nat /\ g.tx = u.tx + 1
    BY <1>1, <1>3, FrameParts
  <2>2. ~Carries(g)
    BY <1>3 DEF Carries
  <2>3. Carries(u) <=> u.tx \in Transmissions /\ Sent[u.tx] > 0
    BY <2>1 DEF Carries
  <2>4. Number(g.tx) = Number(u.tx) + (IF u.tx \in Transmissions /\ Sent[u.tx] > 0 THEN 1 ELSE 0)
    BY <2>1, Counting
  <2>5. Number(u.tx) \in Nat /\ Number(g.tx) \in Nat
    BY <1>1, <2>1, Counting
  <2>6. Filled(g) = Filled(u)
    BY <2>2, <2>3, <2>4, <2>5 DEF Filled
  <2>7. ASSUME NEW m \in Transmissions, m < g.tx, Sent[m] > 0
        PROVE  m < u.tx \/ (m = u.tx /\ Carries(u) /\ Got(u) = Sent[m])
    <3>1. m < u.tx \/ m = u.tx
      BY <1>1, <2>1, <2>7
    <3> QED
      BY <2>1, <2>3, <2>7, <3>1 DEF Got
  <2> QED
    BY <1>3, <2>2, <2>6, <2>7
<1>4. CASE g.kind = "eot" /\ Sent[g.tx] = 0 /\ u = Frame("preamble", g.tx, 0)
  <2>1. u.tx = g.tx /\ u.kind = "preamble"
    BY <1>4, FrameParts
  <2>2. ~Carries(g) /\ ~Carries(u)
    BY <1>4, <2>1 DEF Carries
  <2> QED
    BY <1>4, <2>1, <2>2 DEF Filled
<1>5. CASE g.kind = "eot" /\ Sent[g.tx] # 0 /\ u = Frame("data", g.tx, Sent[g.tx])
  <2>1. u.tx = g.tx /\ u.kind = "data" /\ u.block = Sent[g.tx]
    BY <1>5, FrameParts
  <2>2. Carries(g) /\ Carries(u) /\ Got(u) = Got(g)
    BY <1>1, <1>5, <2>1 DEF Carries, Got
  <2> QED
    BY <1>5, <2>1, <2>2 DEF Filled
<1> QED
  BY <1>1, <1>2, <1>3, <1>4, <1>5 DEF Follows

\* A block is the first one of its file or comes behind the one before it.
LEMMA DataFollows ==
    ASSUME NEW u \in Seen \cup {Start}, NEW g \in Seen, Follows(u, g), g.kind = "data"
    PROVE  /\ g.tx \in Transmissions /\ u.tx = g.tx /\ Number(g.tx) \in Nat
           /\ Carries(g) /\ Filled(g) = Number(g.tx) + 1 /\ Got(g) = g.block /\ g = Frame("data", g.tx, g.block)
           /\ \/ g.block = 1 /\ ~Carries(u) /\ Filled(u) = Number(g.tx)
              \/ /\ g.block - 1 \in Nat /\ Carries(u) /\ Filled(u) = Number(g.tx) + 1
                 /\ Got(u) = g.block - 1
<1>1. /\ g \in AirFrames /\ g.tx \in Nat /\ g.tx \in Transmissions /\ Sent[g.tx] \in Nat
      /\ g.block \in 1..Sent[g.tx]
  BY FrameType, SentType DEF Seen
<1>2. Number(g.tx) \in Nat
  BY <1>1, Counting
<1>3. Carries(g) /\ Filled(g) = Number(g.tx) + 1 /\ Got(g) = g.block
  BY <1>1 DEF Carries, Filled, Got
<1>4. g = Frame("data", g.tx, g.block)
  BY <1>1 DEF Frame, AirFrames
<1>5. CASE g.block = 1
  <2>1. u.kind = "preamble" /\ u.tx = g.tx
    BY <1>5, FrameParts DEF Follows
  <2>2. ~Carries(u) /\ Filled(u) = Number(g.tx)
    BY <1>2, <2>1 DEF Carries, Filled
  <2> QED
    BY <1>1, <1>2, <1>3, <1>4, <1>5, <2>1, <2>2
<1>6. CASE g.block # 1
  <2>1. u.kind = "data" /\ u.tx = g.tx /\ u.block = g.block - 1
    BY <1>6, FrameParts DEF Follows
  <2>2. Carries(u) /\ Filled(u) = Number(g.tx) + 1 /\ Got(u) = g.block - 1 /\ g.block - 1 \in Nat
    BY <1>1, <1>2, <2>1 DEF Carries, Filled, Got
  <2> QED
    BY <1>1, <1>2, <1>3, <1>4, <2>1, <2>2
<1> QED
  BY <1>5, <1>6
\* Without faults a frame is received, the next transmission begins or the sender waits.
LEMMA FaultlessStep ==
    ASSUME BaseInv, [Next]_<<vars, sender>>, faults' = 0
    PROVE  /\ faults = 0
           /\ \/ Deliver \/ NextTransmission
              \/ UNCHANGED <<ring, sender>> /\ ~Dispatch
              \/ Dispatch /\ ring # << >> /\ ring' = Tail(ring) /\ UNCHANGED sender
<1>1. faults \in Nat
  BY DEF BaseInv, AirType
<1>2. ~(Double \/ Lose \/ Cut \/ Unheard)
  BY <1>1 DEF Double, Lose, Cut, Unheard
<1>3. CASE Deliver \/ NextTransmission
  BY <1>3 DEF Deliver, NextTransmission
<1>4. CASE UNCHANGED sender
  <2>1. faults = 0
    BY <1>4 DEF sender
  <2>2. ~(Deliver \/ Double)
    <3>1. pos' = pos /\ faults' = faults /\ pos \in Nat
      BY <1>4 DEF sender, BaseInv, AirType
    <3> QED
      BY <1>1, <3>1 DEF Deliver, Double
  <2> QED
    BY <1>4, <2>1, <2>2, RingStep
<1>5. \/ Deliver \/ NextTransmission \/ UNCHANGED sender
  BY <1>2 DEF Next, Receiver, Sender, sender
<1> QED
  BY <1>3, <1>4, <1>5

\* What the sender sends follows what it sent last.
LEMMA SentInTurn ==
    ASSUME AirType, Sending, ControlFrames > 0
    PROVE  /\ Frames(tx)[pos] \in Seen /\ Follows(LastSent, Frames(tx)[pos])
           /\ Deliver => LastSent' = Frames(tx)[pos]
<1>1. PICK f : f = Frames(tx)[pos]
  OBVIOUS
<1>2. /\ tx \in Transmissions /\ Sent[tx] \in Nat /\ ControlFrames \in Nat /\ pos \in Nat \ {0}
      /\ f = IF pos <= ControlFrames THEN Frame("preamble", tx, 0)
             ELSE IF pos <= ControlFrames + Sent[tx]
             THEN Frame("data", tx, pos - ControlFrames) ELSE Frame("eot", tx, 0)
      /\ f \in AirFrames
  BY <1>1, NextFrame DEF AirType
<1>3. ASSUME Deliver PROVE LastSent' = f
  <2>1. tx' = tx /\ pos' = pos + 1
    BY <1>3 DEF Deliver
  <2>2. /\ pos' # 1 /\ (pos' <= ControlFrames + 1 <=> pos <= ControlFrames)
        /\ (pos' <= ControlFrames + Sent[tx] + 1 <=> pos <= ControlFrames + Sent[tx])
        /\ pos' - 1 - ControlFrames = pos - ControlFrames
    BY <1>2, <2>1
  <2> QED
    BY <1>2, <2>1, <2>2 DEF LastSent
<1>4. CASE pos <= ControlFrames
  <2>1. f = Frame("preamble", tx, 0) /\ f.kind = "preamble" /\ f.tx = tx /\ f.block = 0
    BY <1>2, <1>4, FrameParts
  <2>2. LastSent = Frame("eot", tx - 1, 0) \/ LastSent = f
    BY <1>2, <1>4, <2>1 DEF LastSent
  <2> QED
    BY <1>1, <1>2, <1>3, <2>1, <2>2 DEF Follows, Seen
<1>5. CASE pos > ControlFrames /\ pos <= ControlFrames + Sent[tx]
  <2>1. /\ f = Frame("data", tx, pos - ControlFrames) /\ f.kind = "data" /\ f.tx = tx
        /\ f.block = pos - ControlFrames /\ pos - ControlFrames \in 1..Sent[tx]
    BY <1>2, <1>5, FrameParts
  <2>2. LastSent = IF f.block = 1 THEN Frame("preamble", tx, 0) ELSE Frame("data", tx, f.block - 1)
    <3>1. CASE pos = ControlFrames + 1
      <4>1. pos # 1 /\ pos <= ControlFrames + 1 /\ f.block = 1
        BY <1>2, <2>1, <3>1
      <4> QED
        BY <4>1 DEF LastSent
    <3>2. CASE pos # ControlFrames + 1
      <4>1. /\ pos # 1 /\ ~(pos <= ControlFrames + 1) /\ pos <= ControlFrames + Sent[tx] + 1
            /\ f.block # 1 /\ pos - 1 - ControlFrames = f.block - 1
        BY <1>2, <1>5, <2>1, <3>2
      <4> QED
        BY <4>1 DEF LastSent
    <3> QED
      BY <3>1, <3>2
  <2> QED
    BY <1>1, <1>2, <1>3, <2>1, <2>2 DEF Follows, Seen
<1>6. CASE pos > ControlFrames + Sent[tx]
  <2>1. f = Frame("eot", tx, 0) /\ f.kind = "eot" /\ f.tx = tx /\ f.block = 0
    BY <1>2, <1>6, FrameParts
  <2>2. CASE pos > ControlFrames + Sent[tx] + 1
    <3>1. pos # 1 /\ ~(pos <= ControlFrames + 1)
      BY <1>2, <2>2
    <3>2. LastSent = f
      BY <1>2, <2>1, <2>2, <3>1 DEF LastSent
    <3> QED
      BY <1>1, <1>2, <1>3, <2>1, <3>2 DEF Follows, Seen
  <2>3. CASE pos = ControlFrames + Sent[tx] + 1 /\ Sent[tx] = 0
    <3>1. pos # 1 /\ pos <= ControlFrames + 1
      BY <1>2, <2>3
    <3>2. LastSent = Frame("preamble", tx, 0)
      BY <3>1 DEF LastSent
    <3> QED
      BY <1>1, <1>2, <1>3, <2>1, <2>3, <3>2 DEF Follows, Seen
  <2>4. CASE pos = ControlFrames + Sent[tx] + 1 /\ Sent[tx] # 0
    <3>1. /\ pos # 1 /\ ~(pos <= ControlFrames + 1) /\ pos <= ControlFrames + Sent[tx] + 1
          /\ pos - 1 - ControlFrames = Sent[tx]
      BY <1>2, <2>4
    <3>2. LastSent = Frame("data", tx, Sent[tx])
      BY <3>1 DEF LastSent
    <3> QED
      BY <1>1, <1>2, <1>3, <2>1, <2>4, <3>2 DEF Follows, Seen
  <2> QED
    BY <1>2, <1>6, <2>2, <2>3, <2>4
<1> QED
  BY <1>2, <1>4, <1>5, <1>6

\* The link from the last frame dispatched to the last one sent holds on.
LEMMA LinkStep ==
    ASSUME BaseInv, [Next]_<<vars, sender>>, faults' = 0, ControlFrames > 0,
           NEW u \in Seen \cup {Start}, Linked(u)
    PROVE  /\ ~Dispatch => Linked(u)'
           /\ Dispatch => \E g \in Seen : g = Head(ring) /\ Follows(u, g) /\ Linked(g)'
<1>0. ring \in Seq(AirFrames) /\ Len(ring) \in Nat /\ AirType
  BY DEF BaseInv, AirType
<1>1. CASE Deliver
  <2>1. PICK f : f = Frames(tx)[pos]
    OBVIOUS
  <2>2. Sending /\ ring' = Append(ring, f) /\ ~Dispatch
    <3>1. Sending /\ ring' = Append(ring, f)
      BY <1>1, <2>1 DEF Deliver, Receives
    <3>2. Len(ring') = Len(ring) + 1
      BY <1>0, <3>1
    <3>3. ~Dispatch
      BY <1>0, <3>2, RingStep
    <3> QED
      BY <3>1, <3>3
  <2>3. f \in Seen /\ Follows(LastSent, f) /\ LastSent' = f
    BY <1>0, <1>1, <2>1, <2>2, SentInTurn
  <2>4. /\ Len(ring') = Len(ring) + 1 /\ ring'[Len(ring) + 1] = f
        /\ \A i \in 1..Len(ring) : ring'[i] = ring[i]
    BY <1>0, <2>2
  <2>5. \A i \in 0..Len(ring) : Nth(u, ring', i) = Nth(u, ring, i)
    BY <1>0, <2>4 DEF Nth
  <2>6. Nth(u, ring', Len(ring) + 1) = f
    BY <1>0, <2>4 DEF Nth
  <2>7. ASSUME NEW i \in 1..(Len(ring) + 1)
        PROVE  ring'[i] \in Seen /\ Follows(Nth(u, ring', i - 1), ring'[i])
    <3>1. CASE i = Len(ring) + 1
      <4>1. i - 1 = Len(ring) /\ Len(ring) \in 0..Len(ring)
        BY <1>0, <3>1
      <4>2. Nth(u, ring', i - 1) = LastSent
        BY <2>5, <4>1 DEF Linked
      <4> QED
        BY <2>3, <2>4, <3>1, <4>2
    <3>2. CASE i # Len(ring) + 1
      <4>1. i \in 1..Len(ring) /\ i - 1 \in 0..Len(ring)
        BY <1>0, <3>2
      <4> QED
        BY <2>4, <2>5, <4>1 DEF Linked
    <3> QED
      BY <3>1, <3>2
  <2> QED
    BY <2>2, <2>3, <2>4, <2>6, <2>7 DEF Linked, Nth
<1>2. CASE NextTransmission
  <2>1. tx \in Transmissions /\ ~Sending /\ tx' = tx + 1 /\ pos' = 1 /\ ring' = ring
    BY <1>2 DEF NextTransmission, vars
  <2>2. Len(Frames(tx)) = ControlFrames + Sent[tx] + ControlFrames /\ Sent[tx] \in Nat /\ ControlFrames \in Nat
    BY <2>1, FramesAre, SentType, SessionAssumption
  <2>3. pos > ControlFrames + Sent[tx] + 1 /\ pos # 1 /\ ~(pos <= ControlFrames + 1) /\ pos \in Nat /\ tx \in Nat
    BY <2>1, <2>2 DEF Sending, BaseInv, AirType
  <2>4. LastSent = Frame("eot", tx, 0)
    BY <2>2, <2>3 DEF LastSent
  <2>5. LastSent' = Frame("eot", tx', 0) \/ LastSent' = Frame("eot", tx' - 1, 0)
    BY <2>1 DEF LastSent
  <2>6. LastSent' = Frame("eot", tx' - 1, 0) /\ tx' - 1 = tx
    BY <2>1, <2>3 DEF LastSent
  <2>7. ~Dispatch
    BY <1>0, <2>1, RingStep, HeadTailProperties DEF sender
  <2> QED
    BY <2>1, <2>4, <2>6, <2>7 DEF Linked, Nth
<1>3. CASE UNCHANGED <<ring, sender>> /\ ~Dispatch
  BY <1>3 DEF Linked, Nth, LastSent, sender
<1>4. CASE Dispatch /\ ring # << >> /\ ring' = Tail(ring) /\ UNCHANGED sender
  <2>1. PICK g : g = Head(ring)
    OBVIOUS
  <2>2. /\ Len(ring) > 0 /\ Len(ring') = Len(ring) - 1 /\ g = ring[1]
        /\ \A i \in 1..(Len(ring) - 1) : ring'[i] = ring[i + 1]
    BY <1>0, <1>4, <2>1, RangeTail
  <2>3. g \in Seen /\ Follows(u, g)
    <3>1. 1 \in 1..Len(ring) /\ Nth(u, ring, 1 - 1) = u
      BY <1>0, <2>2 DEF Nth
    <3> QED
      BY <2>2, <3>1 DEF Linked
  <2>4. \A i \in 0..(Len(ring) - 1) : Nth(g, ring', i) = Nth(u, ring, i + 1)
    BY <1>0, <2>2 DEF Nth
  <2>5. ASSUME NEW i \in 1..Len(ring')
        PROVE  ring'[i] \in Seen /\ Follows(Nth(g, ring', i - 1), ring'[i])
    <3>1. i + 1 \in 1..Len(ring) /\ i - 1 \in 0..(Len(ring) - 1) /\ (i - 1) + 1 = (i + 1) - 1
      BY <1>0, <2>2
    <3>2. ring[i + 1] \in Seen /\ Follows(Nth(u, ring, (i + 1) - 1), ring[i + 1])
      BY <3>1 DEF Linked
    <3>3. Nth(g, ring', i - 1) = Nth(u, ring, (i + 1) - 1) /\ ring'[i] = ring[i + 1]
      BY <2>2, <2>4, <3>1
    <3> QED
      BY <3>2, <3>3
  <2>6. Nth(g, ring', Len(ring')) = LastSent'
    <3>1. LastSent' = LastSent
      BY <1>4 DEF LastSent, sender
    <3>2. Len(ring') \in 0..(Len(ring) - 1) /\ Len(ring') + 1 = Len(ring)
      BY <1>0, <2>2
    <3> QED
      BY <2>4, <3>1, <3>2 DEF Linked
  <2>7. Linked(g)'
    BY <2>5, <2>6 DEF Linked, Nth
  <2> QED
    BY <1>4, <2>1, <2>3, <2>7
<1> QED
  BY <1>1, <1>2, <1>3, <1>4, FaultlessStep
LEMMA FileNumbers ==
    ASSUME BaseInv, NEW u \in Seen \cup {Start}, FilesHold(u)
    PROVE  /\ \A m \in Transmissions : m < u.tx /\ Sent[m] > 0
                 => Number(m) \in Numbers /\ Number(m) < Number(u.tx)
           /\ Carries(u) => Number(u.tx) \in Numbers /\ Filled(u) = Number(u.tx) + 1
           /\ Number(u.tx) \in Nat /\ Number(u.tx) <= count
<1>1. /\ u.tx \in Nat /\ Filled(u) \in Nat /\ Number(u.tx) \in Nat
      /\ count \in Nat /\ count <= MaxFiles /\ MaxFiles \in Nat /\ Filled(u) <= count
  <2>1. u.tx \in Nat /\ Filled(u) \in Nat
    BY SeenType
  <2>2. Number(u.tx) \in Nat
    BY <2>1, Counting
  <2> QED
    BY <2>1, <2>2, RxAssumption DEF BaseInv, DiskType, FilesHold
<1>2. Number(u.tx) <= Filled(u) /\ (Carries(u) => Filled(u) = Number(u.tx) + 1)
  BY <1>1 DEF Filled
<1>3. ASSUME NEW m \in Transmissions, m < u.tx, Sent[m] > 0
      PROVE  Number(m) \in Numbers /\ Number(m) < Number(u.tx)
  <2>1. Number(m) \in Nat /\ Number(m) < Number(u.tx)
    <3>1. m \in Nat
      BY SentType
    <3> QED
      BY <1>1, <1>3, <3>1, Counting
  <2> QED
    BY <1>1, <1>2, <2>1 DEF Numbers
<1>4. Carries(u) => Number(u.tx) \in Numbers
  BY <1>1, <1>2 DEF Numbers
<1> QED
  BY <1>1, <1>2, <1>3, <1>4

\* Only a data frame changes what the files hold.
LEMMA HoldKeeps ==
    ASSUME BaseInv, Good', [Next]_<<vars, sender>>, ~Takes, NEW u \in Seen \cup {Start}, FilesHold(u)
    PROVE  FilesHold(u)'
<1>1. \A n \in Numbers : Held(n)' = Held(n)
  BY HeldKept
<1>2. Filled(u) <= count'
  <2>1. Filled(u) \in Nat /\ count \in Nat /\ Filled(u) <= count
    BY SeenType DEF BaseInv, DiskType, FilesHold
  <2> QED
    BY <2>1, CountStep
<1>3. ASSUME NEW m \in Transmissions, m < u.tx, Sent[m] > 0 PROVE Begins(Held(Number(m)), m, Sent[m])'
  <2>1. PICK k \in Numbers : k = Number(m)
    BY <1>3, FileNumbers
  <2>2. Begins(Held(k), m, Sent[m])
    BY <1>3, <2>1 DEF FilesHold
  <2>3. Held(k)' = Held(k)
    BY <1>1
  <2> QED
    BY <2>1, <2>2, <2>3 DEF Begins
<1>4. ASSUME Carries(u) PROVE Begins(Held(Number(u.tx)), u.tx, Got(u))'
  <2>1. PICK k \in Numbers : k = Number(u.tx)
    BY <1>4, FileNumbers
  <2>2. Begins(Held(k), u.tx, Got(u))
    BY <1>4, <2>1 DEF FilesHold
  <2>3. Held(k)' = Held(k)
    BY <1>1
  <2> QED
    BY <2>1, <2>2, <2>3 DEF Begins
<1> QED
  BY <1>2, <1>3, <1>4 DEF FilesHold

LEMMA HoldControl ==
    ASSUME BaseInv, NEW u \in Seen \cup {Start}, FilesHold(u),
           NEW g \in Seen, Follows(u, g), g.kind # "data"
    PROVE  FilesHold(g)
<1>1. Filled(g) <= count
  BY ControlFollows DEF FilesHold
<1>2. ASSUME NEW m \in Transmissions, m < g.tx, Sent[m] > 0 PROVE Begins(Held(Number(m)), m, Sent[m])
  <2>1. m < u.tx \/ (m = u.tx /\ Carries(u) /\ Got(u) = Sent[m])
    BY <1>2, ControlFollows
  <2> QED
    BY <1>2, <2>1 DEF FilesHold
<1>3. Carries(g) => Begins(Held(Number(g.tx)), g.tx, Got(g))
  BY ControlFollows DEF FilesHold
<1> QED
  BY <1>1, <1>2, <1>3 DEF FilesHold

\* A data frame goes to the end of the file of its transmission.
LEMMA DataStored ==
    ASSUME BaseInv, HeldInv, Good, Takes, NEW u \in Seen \cup {Start}, FilesHold(u), Counted(u),
           NEW g \in Seen, g = Head(ring), Follows(u, g)
    PROVE  FilesHold(g)' /\ Counted(g)'
<1>1. /\ pc = "capture" /\ ~boundary /\ taken' = Append(taken, g) /\ g \in DataFrames /\ g.kind = "data"
      /\ UNCHANGED <<pc, boundary, count>>
      /\ count > 0 /\ File \in Numbers /\ count = File + 1 /\ Held(File) = taken
      /\ \A n \in Numbers : Held(n)' = IF n = File THEN Append(Held(n), g) ELSE Held(n)
  BY HeldGrows DEF Takes
<1>2. /\ count = Filled(u) + (IF taken # << >> THEN 0 ELSE 1) /\ (Carries(u) <=> taken # << >>)
  BY <1>1 DEF Counted
<1>3. /\ g.tx \in Transmissions /\ u.tx = g.tx /\ Number(g.tx) \in Nat /\ g = Frame("data", g.tx, g.block)
      /\ Carries(g) /\ Filled(g) = Number(g.tx) + 1 /\ Got(g) = g.block
      /\ \/ g.block = 1 /\ ~Carries(u) /\ Filled(u) = Number(g.tx)
         \/ g.block - 1 \in Nat /\ Carries(u) /\ Filled(u) = Number(g.tx) + 1 /\ Got(u) = g.block - 1
  BY <1>1, DataFollows
<1>4. PICK k \in Numbers : k = File
  BY <1>1
<1>5. k = Number(g.tx) /\ count = Filled(g)
  <2>1. count \in Nat /\ k \in Int
    BY <1>4 DEF BaseInv, DiskType, Numbers
  <2> QED
    BY <1>1, <1>2, <1>3, <1>4, <2>1
<1>6. taken \in Seq(DataFrames) /\ taken' \in Seq(DataFrames) /\ taken' # << >>
  <2>1. taken \in Seq(DataFrames)
    BY DEF BaseInv, CaptureType
  <2> QED
    BY <1>1, <2>1, AppendProperties
<1>7. Begins(taken', g.tx, g.block)
  <2>1. /\ Len(taken') = Len(taken) + 1 /\ taken'[Len(taken) + 1] = g /\ Len(taken) \in Nat
        /\ \A i \in 1..Len(taken) : taken'[i] = taken[i]
    BY <1>1, <1>6, AppendProperties
  <2>2. Len(taken) = g.block - 1 /\ \A i \in 1..Len(taken) : taken[i] = Frame("data", g.tx, i)
    <3>1. CASE ~Carries(u)
      BY <1>2, <1>3, <3>1
    <3>2. CASE Carries(u)
      BY <1>1, <1>3, <1>4, <1>5, <3>2 DEF FilesHold, Begins
    <3> QED
      BY <3>1, <3>2
  <2>3. g.block = Len(taken) + 1
    <3>1. g.block \in Nat
      BY DEF Seen, AirFrames
    <3> QED
      BY <2>1, <2>2, <3>1
  <2>4. ASSUME NEW i \in 1..g.block PROVE taken'[i] = Frame("data", g.tx, i)
    <3>1. CASE i = Len(taken) + 1
      BY <1>3, <2>1, <2>3, <3>1
    <3>2. CASE i # Len(taken) + 1
      <4>1. i \in 1..Len(taken)
        BY <2>1, <2>3, <3>2
      <4> QED
        BY <2>1, <2>2, <4>1
    <3> QED
      BY <3>1, <3>2
  <2> QED
    BY <1>6, <2>1, <2>3, <2>4 DEF Begins
<1>8. Held(k)' = taken'
  BY <1>1, <1>4
<1>9. ASSUME NEW m \in Transmissions, m < g.tx, Sent[m] > 0 PROVE Begins(Held(Number(m)), m, Sent[m])'
  <2>1. PICK n \in Numbers : n = Number(m) /\ n < Number(u.tx)
    BY <1>3, <1>9, FileNumbers
  <2>2. n # k
    BY <1>3, <1>5, <2>1 DEF Numbers
  <2>3. Held(n)' = Held(n)
    BY <1>1, <1>4, <2>2
  <2>4. Begins(Held(n), m, Sent[m])
    BY <1>3, <1>9, <2>1 DEF FilesHold
  <2> QED
    BY <2>1, <2>3, <2>4 DEF Begins
<1>10. Begins(Held(Number(g.tx)), g.tx, Got(g))'
  BY <1>3, <1>5, <1>7, <1>8 DEF Begins
<1>11. FilesHold(g)'
  <2>1. Filled(g) <= count'
    BY <1>1, <1>5 DEF BaseInv, DiskType
  <2> QED
    BY <1>9, <1>10, <2>1 DEF FilesHold
<1>12. Counted(g)'
  <2>1. count' = Filled(g) + 0
    BY <1>1, <1>3, <1>5
  <2> QED
    BY <1>1, <1>3, <1>6, <2>1 DEF Counted
<1> QED
  BY <1>11, <1>12

\* A preamble behind data ends the file: the number of files stays what it was, and the
\* next one is not begun yet.
LEMMA ControlCounted ==
    ASSUME BaseInv, Dispatch, ~Takes, NEW u \in Seen \cup {Start}, Counted(u),
           NEW g \in Seen, g = Head(ring), Follows(u, g)
    PROVE  g.kind # "data" /\ Counted(g)'
<1>1. g.kind # "data" /\ pc = "capture" /\ UNCHANGED <<pc, taken, count>>
  BY DEF Takes, Dispatch, HandleFrameControl, Engine!TakePreamble, capture, output
<1>2. /\ count = Filled(u) + (IF taken # << >> THEN 0 ELSE 1)
      /\ Carries(u) <=> taken # << >> /\ ~boundary
  BY <1>1 DEF Counted
<1>3. Filled(g) = Filled(u)
  BY <1>1, ControlFollows
<1>4. CASE g.kind = "preamble"
  <2>1. boundary' = (taken # << >>) /\ ~Carries(g)
    BY <1>1, <1>4, ControlFollows DEF Dispatch, HandleFrameControl, Engine!TakePreamble
  <2> QED
    BY <1>1, <1>2, <1>3, <2>1 DEF Counted
<1>5. CASE g.kind = "eot"
  <2>1. boundary' = boundary /\ (Carries(g) <=> Carries(u))
    BY <1>1, <1>5, ControlFollows DEF Dispatch, HandleFrameControl, capture
  <2> QED
    BY <1>1, <1>2, <1>3, <2>1 DEF Counted
<1> QED
  BY <1>1, <1>4, <1>5 DEF Seen, AirFrames

\* A file is begun only when all that were begun have their transmission.
LEMMA CountedKeeps ==
    ASSUME BaseInv, OneFileInv, Good, stops = 0, stops' = 0, [Next]_<<vars, sender>>, ~Dispatch,
           NEW u \in Seen \cup {Start}, FilesHold(u), Counted(u)
    PROVE  Counted(u)'
<1>0. /\ count \in Nat /\ Filled(u) \in Nat /\ Filled(u) <= count
      /\ Carries(u) => Filled(u) > 0
  <2>1. Number(u.tx) \in Nat /\ count \in Nat /\ Filled(u) \in Nat /\ Filled(u) <= count
    BY SeenType, FileNumbers DEF FilesHold, BaseInv, DiskType
  <2> QED
    BY <2>1 DEF Filled
<1>1. CASE UNCHANGED <<vars, sender>> \/ Deliver \/ Double \/ Unheard \/ Lose \/ Cut \/ NextTransmission
  <2>1. UNCHANGED <<pc, state, boundary, taken, count>>
    BY <1>1 DEF Deliver, Double, Receives, Unheard, Lose, Cut, NextTransmission, vars, capture, output
  <2> QED
    BY <2>1 DEF Counted
<1>2. CASE Sigint
  BY <1>2 DEF Sigint
<1>3. CASE NextFile
  <2>1. /\ pc = "loop" /\ pc' \in {"install", "open"} /\ count' = count + 1
        /\ state = "NORMAL" \/ count = 0
    BY <1>3 DEF NextFile, More
  <2>2. count = Filled(u) /\ ~Carries(u)
    <3>1. CASE state = "NORMAL"
      BY <2>1, <3>1 DEF Counted
    <3>2. CASE count = 0
      BY <1>0, <3>2
    <3> QED
      BY <2>1, <3>1, <3>2
  <2> QED
    BY <2>1, <2>2 DEF Counted
<1>4. CASE ParseOption \/ ParseLast \/ Setup \/ Close \/ Open \/ OpenFails
  <2>1. /\ count' = count
        /\ \/ pc \in {"parse", "setup"} /\ pc' \in {"parse", "setup", "usage", "loop", "aborted"}
           \/ pc = "loop" /\ pc' = "exited"
           \/ pc = "open" /\ pc' = "install"
           \/ pc' = "loop" /\ state' = "ERROR"
    BY <1>4 DEF ParseOption, ParseLast, Setup, Close, Open, OpenFails, output
  <2> QED
    BY <2>1 DEF Counted
<1>5. CASE Install
  <2>1. pc = "install" /\ pc' = "capture" /\ taken' = << >> /\ boundary' = FALSE /\ count' = count
    BY <1>5 DEF Install, Engine!Begin, output
  <2>2. count = Filled(u) + 1 /\ ~Carries(u)
    BY <2>1 DEF Counted
  <2> QED
    BY <2>1, <2>2 DEF Counted
<1>6. CASE Activate \/ Flush
  <2>1. pc = "capture" /\ UNCHANGED <<pc, taken, boundary, count>>
    BY <1>6 DEF Activate, Flush, Engine!Activate, Engine!Finish, output
  <2> QED
    BY <2>1 DEF Counted
<1>7. CASE Restore
  <2>1. pc = "capture" /\ phase = "done" /\ pc' = "loop" /\ state' = report /\ count' = count
    BY <1>7 DEF Restore, Engine!End, output
  <2>2. report = "NORMAL" => boundary /\ taken # << >>
    BY <2>1 DEF OneFileInv, BaseInv, FilesInv
  <2>3. report = "NORMAL" => count = Filled(u) /\ ~Carries(u)
    BY <1>0, <2>1, <2>2 DEF Counted
  <2> QED
    BY <2>1, <2>3 DEF Counted
<1> QED
  BY <1>1, <1>2, <1>3, <1>4, <1>5, <1>6, <1>7 DEF Next, Receiver, Sender, Program
LEMMA DeliverStep ==
    ASSUME BaseInv, RingInv, HeldInv, OneFileInv, DeliverInv, ControlFrames > 0, [Next]_<<vars, sender>>
    PROVE  DeliverInv'
<1> SUFFICES ASSUME Good', faults' = 0, stops' = 0
             PROVE  \E u \in Seen \cup {Start} : Linked(u)' /\ FilesHold(u)' /\ Counted(u)'
  BY DEF DeliverInv
<1>1. Good /\ faults = 0 /\ stops = 0
  <2>1. stops \in Nat
    BY DEF BaseInv, CaptureType
  <2>2. stops' = stops \/ stops' = stops + 1
    BY DEF Next, Receiver, Sender, Program, Sigint, Deliver, Double, Receives, Unheard, Lose, Cut,
       NextTransmission, vars, ParseOption, ParseLast, Setup, NextFile, Close, Open, OpenFails, Install,
       Activate, Dispatch, Flush, Restore
  <2> QED
    BY <2>1, <2>2, GoodBefore, FaultlessStep
<1>2. PICK u \in Seen \cup {Start} : Linked(u) /\ FilesHold(u) /\ Counted(u)
  BY <1>1 DEF DeliverInv
<1>3. CASE ~Dispatch
  <2>1. Linked(u)'
    BY <1>2, <1>3, LinkStep
  <2>2. FilesHold(u)'
    BY <1>2, <1>3, HoldKeeps DEF Takes
  <2>3. Counted(u)'
    BY <1>1, <1>2, <1>3, CountedKeeps
  <2> QED
    BY <2>1, <2>2, <2>3
<1>4. CASE Dispatch
  <2>1. PICK g \in Seen : g = Head(ring) /\ Follows(u, g) /\ Linked(g)'
    BY <1>2, <1>4, LinkStep
  <2>2. CASE Takes
    BY <1>1, <1>2, <2>1, <2>2, DataStored
  <2>3. CASE ~Takes
    <3>1. g.kind # "data" /\ Counted(g)'
      BY <1>2, <1>4, <2>1, <2>3, ControlCounted
    <3>2. FilesHold(g)
      BY <1>2, <2>1, <3>1, HoldControl
    <3>3. FilesHold(g)'
      BY <2>1, <2>3, <3>2, HoldKeeps
    <3> QED
      BY <2>1, <3>1, <3>3
  <2> QED
    BY <2>2, <2>3
<1> QED
  BY <1>3, <1>4

LEMMA InitDeliverInv == SessionInit => DeliverInv
<1> SUFFICES ASSUME SessionInit PROVE Linked(Start) /\ FilesHold(Start) /\ Counted(Start)
  BY DEF DeliverInv
<1>1. /\ tx = 1 /\ pos = 1 /\ ring = << >> /\ count = 0 /\ pc = "parse"
  BY DEF SessionInit, Init
<1>2. Start.tx = 0 /\ ~Carries(Start) /\ Filled(Start) = 0
  BY SeenType
<1>3. Linked(Start)
  <2>1. Len(ring) = 0
    BY <1>1
  <2>2. LastSent = Start
    BY <1>1 DEF LastSent, Start
  <2> QED
    BY <2>1, <2>2 DEF Linked, Nth
<1>4. FilesHold(Start)
  <2>1. \A m \in Transmissions : ~(m < 0)
    BY SentType
  <2> QED
    BY <1>1, <1>2, <2>1 DEF FilesHold
<1>5. Counted(Start)
  BY <1>1, <1>2 DEF Counted
<1> QED
  BY <1>3, <1>4, <1>5

\* When the receiver outlasted the sender, the last frame that was sent was dispatched.
LEMMA AllDelivered == ASSUME BaseInv, DeliverInv PROVE Delivered
<1> SUFFICES ASSUME pc = "exited", stops = 0, Pristine, faults = 0, ring = << >>, tx \notin Transmissions,
                    NEW n \in Transmissions, Sent[n] > 0
             PROVE  New(Cardinality(Earlier(n))) = Blocks(n)
  BY DEF Delivered
<1>1. PICK u \in Seen \cup {Start} : Linked(u) /\ FilesHold(u)
  BY DEF DeliverInv, Good
<1>2. Len(Sent) \in Nat /\ Transmissions = 1..Len(Sent) /\ n \in 1..Len(Sent) /\ Sent[n] \in Nat
  BY SentType
<1>3. tx = Len(Sent) + 1 /\ pos = 1
  BY <1>2 DEF BaseInv, AirType
<1>4. u = Frame("eot", tx - 1, 0)
  <2>1. Len(ring) = 0
    OBVIOUS
  <2> QED
    BY <1>1, <1>3, <2>1 DEF Linked, Nth, LastSent
<1>5. u.tx = Len(Sent) /\ u.kind = "eot"
  BY <1>2, <1>3, <1>4, FrameParts
<1>6. Number(n) \in Numbers /\ Begins(Held(Number(n)), n, Sent[n])
  <2>1. CASE n < u.tx
    BY <1>1, <2>1, FileNumbers DEF FilesHold
  <2>2. CASE n = u.tx
    <3>1. Carries(u) /\ Got(u) = Sent[n]
      BY <1>5, <2>2 DEF Carries, Got
    <3> QED
      BY <1>1, <2>2, <3>1, FileNumbers DEF FilesHold
  <2> QED
    BY <1>2, <1>5, <2>1, <2>2
<1>7. New(Number(n)) = Held(Number(n))
  <2>1. phase # "active"
    BY DEF BaseInv, FilesInv
  <2> QED
    BY <1>6, <2>1, HeldNow
<1>8. Held(Number(n)) = Blocks(n)
  <2>1. /\ Blocks(n) \in Seq(DataFrames) /\ Len(Blocks(n)) = Sent[n]
        /\ \A b \in 1..Sent[n] : Blocks(n)[b] = Frame("data", n, b)
    BY FramesAre
  <2> QED
    BY <1>6, <2>1, SeqEqual DEF Begins
<1> QED
  BY <1>7, <1>8 DEF Number

\* From end to end: with at least one preamble and EOT per transmission, a receiver that
\* outlasts the sender holds each file that has blocks, in a file of its own and in order,
\* when nothing went wrong on the way (transmitter.c, lines 287-299; rx.c, lines 199-204).
THEOREM SessionDelivered == ASSUME ControlFrames > 0 PROVE Spec => []Delivered
<1>1. SessionInit => BaseInv /\ RingInv /\ HeldInv /\ OneFileInv /\ DeliverInv
  BY InitTypes, InitSourceInv, InitOneFile, InitDeliverInv DEF BaseInv
<1>2. BaseInv /\ RingInv /\ HeldInv /\ OneFileInv /\ DeliverInv /\ [Next]_<<vars, sender>>
      => BaseInv' /\ RingInv' /\ HeldInv' /\ OneFileInv' /\ DeliverInv'
  BY BaseStep, RingInvStep, HeldInvStep, OneFileStep, DeliverStep
<1>3. BaseInv /\ DeliverInv => Delivered
  BY AllDelivered
<1> QED
  BY <1>1, <1>2, <1>3, PTL DEF Spec
===============================================================================

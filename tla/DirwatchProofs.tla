---------------------------- MODULE DirwatchProofs ----------------------------
(***************************************************************************)
(* Theorems about Dirwatch, for every value of its constants: type         *)
(* correctness, the bound on what is processed after a stop, and that the  *)
(* files of orderly writers are announced once and in order.               *)
(***************************************************************************)
EXTENDS Dirwatch, SequenceTheorems, TLAPS

-------------------------------------------------------------------------------
(* Type correctness, in three parts: the loop, its events, the writers.    *)

LoopType ==
    /\ pc \in PCs /\ listen \in BOOLEAN
    /\ watchfiles \in [1..Slots -> Files \cup {NoName}]
    /\ stops \in 0..MaxStops
    /\ stopped \in {"no", "lost", "live"} /\ late \in Nat
EventType ==
    /\ buffer \in Seq(Events) /\ Len(buffer) <= BufferMax
    /\ queue \in Seq(Events)
    /\ announced \in Seq(Files)
    /\ pc = "handler" => buffer # << >>
WorldType ==
    /\ files \in [Files \cup Dirs -> FileStates]
    /\ events \in 0..MaxEvents /\ orderly \in BOOLEAN
    /\ completed \in Seq(Files)

LEMMA TypeParts == TypeOK <=> LoopType /\ EventType /\ WorldType
BY DEF TypeOK, LoopType, EventType, WorldType

LEMMA InitType == Init => TypeOK
<1> SUFFICES ASSUME Init PROVE TypeOK
  OBVIOUS
<1>1. /\ << >> \in Seq(Events) /\ Len(<< >>) = 0 /\ << >> \in Seq(Files)
  OBVIOUS
<1>2. LoopType
  <2>1. watchfiles \in [1..Slots -> Files \cup {NoName}]
    BY DEF Init
  <2>2. stops \in 0..MaxStops
    BY BoundAssumption DEF Init
  <2> QED
    BY <2>1, <2>2 DEF Init, LoopType, PCs
<1>3. EventType
  BY <1>1, SizeAssumption DEF Init, EventType
<1>4. WorldType
  BY <1>1, BoundAssumption DEF Init, WorldType, FileStates
<1> QED
  BY <1>2, <1>3, <1>4, TypeParts

\* The event at next is one that the writers cause; a file's is about a file.
LEMMA HeadIsEvent ==
    ASSUME TypeOK, buffer # << >>
    PROVE  /\ Head(buffer) \in Events /\ Tail(buffer) \in Seq(Events)
           /\ Len(Tail(buffer)) = Len(buffer) - 1
<1>1. buffer \in Seq(Events)
  BY DEF TypeOK
<1> QED
  BY <1>1, HeadTailProperties

LEMMA AboutFile ==
    ASSUME TypeOK, NEW n, NEW kind \in {"create", "close"}, At(kind, n)
    PROVE  n \in Files
<1>1. [kind |-> kind, name |-> n] \in Events
  BY HeadIsEvent DEF At
<1> QED
  BY <1>1 DEF Events

LEMMA PutType ==
    ASSUME TypeOK, NEW kind, NEW n, [kind |-> kind, name |-> n] \in Events, Put(kind, n)
    PROVE  queue' \in Seq(Events)
BY DEF Put, TypeOK

\* What one read takes from the queue fits the buffer.
LEMMA ReadType ==
    ASSUME TypeOK, ReadEvents
    PROVE  /\ buffer' \in Seq(Events) /\ queue' \in Seq(Events)
           /\ Len(buffer') <= BufferMax
<1>1. PICK k \in 1..BufferMax :
         /\ k <= Len(queue)
         /\ buffer' = SubSeq(queue, 1, k)
         /\ queue' = SubSeq(queue, k + 1, Len(queue))
  BY DEF ReadEvents
<1>2. queue \in Seq(Events) /\ Len(queue) \in Nat /\ BufferMax \in Nat
  BY SizeAssumption DEF TypeOK
<1>3. \A j \in 1..k : j \in 1..Len(queue)
  BY <1>1, <1>2
<1>4. buffer' \in Seq(Events) /\ Len(buffer') = k
  BY <1>1, <1>2, <1>3, SubSeqProperties
<1>5. queue' \in Seq(Events)
  BY <1>1, <1>2, SubSeqProperties
<1> QED
  BY <1>1, <1>2, <1>4, <1>5

-------------------------------------------------------------------------------
LEMMA LoopTypeStep == TypeOK /\ [Next]_vars => LoopType'
<1> SUFFICES ASSUME TypeOK, [Next]_vars PROVE LoopType'
  OBVIOUS
<1>0. LoopType /\ Count(late) \in Nat
  BY TypeParts DEF LoopType, Count
<1>1. ASSUME NEW n \in Files \cup Dirs,
             Create(n) \/ MakeDir(n) \/ Reopen(n) \/ CloseWrite(n) \/ Delete(n)
      PROVE  LoopType'
  BY <1>0, <1>1 DEF Create, MakeDir, Reopen, CloseWrite, Delete, Happens, LoopType, history
<1>2. ASSUME Stop \/ StopTransmission PROVE LoopType'
  <2>1. stops' \in 0..MaxStops
    BY <1>0, <1>2, BoundAssumption DEF Stop, StopTransmission, LoopType
  <2> QED
    BY <1>0, <1>2, <2>1 DEF Stop, StopTransmission, LoopType, history, PCs
<1>3. ASSUME \/ Watch \/ SetListen \/ ContinueLoop \/ EnterPoll \/ PollTimeout \/ PollFails
             \/ ReadEvents \/ EndBuffer \/ EndLoop
      PROVE  LoopType'
  BY <1>0, <1>3 DEF Watch, SetListen, ContinueLoop, EnterPoll, PollTimeout, PollFails,
     ReadEvents, EndBuffer, EndLoop, LoopType, history, PCs
<1>4. ASSUME NEW n \in Files \cup Dirs, ProcessCreate(n) PROVE LoopType'
  <2>1. n \in Files
    BY <1>4, AboutFile DEF ProcessCreate
  <2>2. Fill(n) \in [1..Slots -> Files \cup {NoName}]
    BY <1>0, <2>1 DEF Fill, LoopType
  <2> QED
    BY <1>0, <1>4, <2>2 DEF ProcessCreate, LoopType
<1>5. ASSUME NEW n \in Files \cup Dirs, ProcessOther(n) \/ ProcessClose(n) \/ CompareNull(n)
      PROVE  LoopType'
  BY <1>0, <1>5 DEF ProcessOther, ProcessClose, CompareNull, LoopType, history, PCs
<1>6. ASSUME HandlerReturns PROVE LoopType'
  BY <1>0, <1>6 DEF HandlerReturns, Freed, LoopType, history, PCs
<1>7. ASSUME Close PROVE LoopType'
  BY <1>0, <1>7 DEF Close, LoopType, history, PCs
<1>8. ASSUME UNCHANGED vars PROVE LoopType'
  BY <1>0, <1>8 DEF vars, history, LoopType
<1> QED
  BY <1>1, <1>2, <1>3, <1>4, <1>5, <1>6, <1>7, <1>8 DEF Next, Program, Environment

LEMMA EventTypeStep == TypeOK /\ [Next]_vars => EventType'
<1> SUFFICES ASSUME TypeOK, [Next]_vars PROVE EventType'
  OBVIOUS
<1>0. EventType
  BY TypeParts
<1>1. ASSUME NEW n \in Files \cup Dirs, Create(n) \/ MakeDir(n) \/ CloseWrite(n)
      PROVE  EventType'
  <2>1. queue' \in Seq(Events)
    <3>1. CASE Create(n)
      BY <3>1, PutType DEF Create, Events
    <3>2. CASE MakeDir(n)
      BY <3>2, PutType DEF MakeDir, Events
    <3>3. CASE CloseWrite(n)
      BY <3>3, PutType DEF CloseWrite, Events
    <3> QED
      BY <1>1, <3>1, <3>2, <3>3
  <2>2. Happens
    BY <1>1 DEF Create, MakeDir, CloseWrite
  <2> QED
    BY <1>0, <2>1, <2>2 DEF Happens, EventType, history
<1>2. ASSUME NEW n \in Files \cup Dirs, Reopen(n) \/ Delete(n) PROVE EventType'
  BY <1>0, <1>2 DEF Reopen, Delete, Happens, EventType, history
<1>3. ASSUME Stop \/ StopTransmission PROVE EventType'
  BY <1>0, <1>3 DEF Stop, StopTransmission, EventType, world, history
<1>4. ASSUME \/ Watch \/ SetListen \/ ContinueLoop \/ EnterPoll \/ PollTimeout \/ PollFails
             \/ EndBuffer \/ EndLoop
      PROVE  EventType'
  BY <1>0, <1>4 DEF Watch, SetListen, ContinueLoop, EnterPoll, PollTimeout, PollFails,
     EndBuffer, EndLoop, EventType, world, history
<1>5. ASSUME ReadEvents PROVE EventType'
  BY <1>0, <1>5, ReadType DEF ReadEvents, EventType, history
<1>6. ASSUME NEW n \in Files \cup Dirs, ProcessCreate(n) \/ ProcessOther(n) PROVE EventType'
  <2>1. buffer # << >> /\ buffer' = Tail(buffer) /\ pc = "events"
    BY <1>6 DEF ProcessCreate, ProcessOther, At
  <2>2. buffer' \in Seq(Events) /\ Len(buffer') <= BufferMax
    BY <1>0, <2>1, HeadIsEvent, SizeAssumption DEF EventType
  <2> QED
    BY <1>0, <1>6, <2>1, <2>2 DEF ProcessCreate, ProcessOther, EventType, world
<1>7. ASSUME NEW n \in Files \cup Dirs, ProcessClose(n) PROVE EventType'
  <2>1. n \in Files /\ buffer # << >>
    BY <1>7, AboutFile DEF ProcessClose, At
  <2>2. announced' \in Seq(Files)
    BY <1>0, <1>7, <2>1 DEF ProcessClose, EventType
  <2> QED
    BY <1>0, <1>7, <2>1, <2>2 DEF ProcessClose, EventType, world
<1>8. ASSUME NEW n \in Files \cup Dirs, CompareNull(n) PROVE EventType'
  BY <1>0, <1>8 DEF CompareNull, EventType, world, history
<1>9. ASSUME HandlerReturns PROVE EventType'
  <2>1. buffer # << >> /\ buffer' = Tail(buffer) /\ pc' = "events"
    BY <1>0, <1>9 DEF HandlerReturns, EventType
  <2>2. buffer' \in Seq(Events) /\ Len(buffer') <= BufferMax
    BY <1>0, <2>1, HeadIsEvent, SizeAssumption DEF EventType
  <2> QED
    BY <1>0, <1>9, <2>1, <2>2 DEF HandlerReturns, EventType, world, history
<1>10. ASSUME Close PROVE EventType'
  <2>1. << >> \in Seq(Events)
    OBVIOUS
  <2> QED
    BY <1>0, <1>10, <2>1 DEF Close, EventType, history
<1>11. ASSUME UNCHANGED vars PROVE EventType'
  BY <1>0, <1>11 DEF vars, world, history, EventType
<1> QED
  BY <1>1, <1>2, <1>3, <1>4, <1>5, <1>6, <1>7, <1>8, <1>9, <1>10, <1>11
  DEF Next, Program, Environment

LEMMA WorldTypeStep == TypeOK /\ [Next]_vars => WorldType'
<1> SUFFICES ASSUME TypeOK, [Next]_vars PROVE WorldType'
  OBVIOUS
<1>0. WorldType
  BY TypeParts
<1>1. ASSUME NEW n \in Files \cup Dirs,
             Create(n) \/ MakeDir(n) \/ Reopen(n) \/ CloseWrite(n) \/ Delete(n)
      PROVE  WorldType'
  <2>1. events' \in 0..MaxEvents
    BY <1>0, <1>1, BoundAssumption
    DEF Create, MakeDir, Reopen, CloseWrite, Delete, Happens, WorldType
  <2>2. files' \in [Files \cup Dirs -> FileStates]
    BY <1>0, <1>1 DEF Create, MakeDir, Reopen, CloseWrite, Delete, WorldType, FileStates
  <2>3. orderly' \in BOOLEAN
    <3>1. CASE Create(n)
      BY <3>1 DEF Create
    <3> QED
      BY <1>0, <1>1, <3>1 DEF MakeDir, Reopen, CloseWrite, Delete, WorldType
  <2>4. completed' \in Seq(Files)
    <3>1. CASE CloseWrite(n)
      BY <1>0, <3>1 DEF CloseWrite, WorldType
    <3> QED
      BY <1>0, <1>1, <3>1 DEF Create, MakeDir, Reopen, Delete, WorldType
  <2> QED
    BY <2>1, <2>2, <2>3, <2>4 DEF WorldType
<1>2. ASSUME \/ Stop \/ StopTransmission
             \/ Watch \/ SetListen \/ ContinueLoop \/ EnterPoll \/ PollTimeout \/ PollFails
             \/ ReadEvents \/ HandlerReturns \/ EndBuffer \/ EndLoop \/ Close
      PROVE  WorldType'
  BY <1>0, <1>2 DEF Stop, StopTransmission, Watch, SetListen, ContinueLoop, EnterPoll,
     PollTimeout, PollFails, ReadEvents, HandlerReturns, EndBuffer, EndLoop, Close,
     WorldType, world
<1>3. ASSUME NEW n \in Files \cup Dirs,
             ProcessCreate(n) \/ ProcessOther(n) \/ ProcessClose(n) \/ CompareNull(n)
      PROVE  WorldType'
  BY <1>0, <1>3 DEF ProcessCreate, ProcessOther, ProcessClose, CompareNull, WorldType, world
<1>4. ASSUME UNCHANGED vars PROVE WorldType'
  BY <1>0, <1>4 DEF vars, world, WorldType
<1> QED
  BY <1>1, <1>2, <1>3, <1>4 DEF Next, Program, Environment

LEMMA TypeStep == TypeOK /\ [Next]_vars => TypeOK'
<1>1. LoopType' /\ EventType' /\ WorldType' => TypeOK'
  BY DEF TypeOK, LoopType, EventType, WorldType
<1> QED
  BY <1>1, LoopTypeStep, EventTypeStep, WorldTypeStep

\* Every variable of the watch stays in its range: the table keeps its size and holds
\* names of files only, and a read never returns more than the buffer holds (dirwatch.c,
\* lines 290-327).
THEOREM DirwatchTypeOK == Spec => []TypeOK
<1>1. Init => TypeOK
  BY InitType
<1>2. TypeOK /\ [Next]_vars => TypeOK'
  BY TypeStep
<1> QED
  BY <1>1, <1>2, PTL DEF Spec

-------------------------------------------------------------------------------
(* A stop.                                                                 *)

\* What is left of the buffer once the event being handled is done with.
Rest == Len(buffer) - (IF pc = "handler" THEN 1 ELSE 0)

\* After a stop that took effect the flag stays down.  The loop may be past its test; as
\* long as it waits in poll nothing was processed since, and once it has read a buffer,
\* what is left of it bounds what is still to come.
StopInv ==
    /\ pc \in {"idle", "start"} => stopped # "live"
    /\ stopped # "live" => late = 0
    /\ stopped = "live" =>
          /\ ~listen
          /\ pc \in {"enter", "poll"} => late = 0
          /\ pc = "intr" => late = 0
          /\ pc \in {"events", "handler"} => late + Rest <= BufferMax
          /\ late <= BufferMax

LEMMA InitStopInv == Init => StopInv
BY SizeAssumption DEF Init, StopInv

LEMMA NextStopInv == TypeOK /\ StopInv /\ [Next]_vars => StopInv'
<1> SUFFICES ASSUME TypeOK, StopInv, [Next]_vars PROVE StopInv'
  OBVIOUS
<1>0. /\ late \in Nat /\ BufferMax \in Nat /\ Len(buffer) \in Nat /\ Len(buffer) <= BufferMax
      /\ stopped \in {"no", "lost", "live"} /\ pc \in PCs
      /\ pc = "handler" => buffer # << >>
  BY SizeAssumption DEF TypeOK
<1>1. ASSUME NEW n \in Files \cup Dirs,
             Create(n) \/ MakeDir(n) \/ Reopen(n) \/ CloseWrite(n) \/ Delete(n)
      PROVE  StopInv'
  BY <1>1 DEF Create, MakeDir, Reopen, CloseWrite, Delete, Happens, StopInv, Rest, history
<1>2. ASSUME Stop PROVE StopInv'
  <2>1. CASE stopped = "live"
    BY <1>0, <1>2, <2>1 DEF Stop, StopInv, Rest
  <2>2. CASE stopped # "live"
    <3>1. late' = 0 /\ ~listen' /\ buffer' = buffer
      BY <1>2, <2>2 DEF Stop, StopInv
    <3>2. Len(buffer) \in Nat /\ Len(buffer) <= BufferMax /\ BufferMax \in Nat
      BY <1>0
    <3>3. late' + Rest' <= BufferMax /\ late' <= BufferMax
      <4>1. late' = 0 /\ buffer' = buffer
        BY <3>1
      <4> QED
        BY <3>2, <4>1 DEF Rest
    <3>4. pc' \in {"idle", "start"} => stopped' # "live"
      BY <1>2 DEF Stop
    <3> QED
      BY <3>1, <3>3, <3>4 DEF StopInv
  <2> QED
    BY <2>1, <2>2
<1>3. ASSUME StopTransmission PROVE StopInv'
  BY <1>3 DEF StopTransmission, StopInv, Rest, history
<1>4. ASSUME \/ Watch \/ SetListen \/ ContinueLoop \/ EnterPoll \/ PollTimeout \/ PollFails
             \/ EndLoop \/ Close
      PROVE  StopInv'
  BY <1>0, <1>4 DEF Watch, SetListen, ContinueLoop, EnterPoll, PollTimeout, PollFails,
     EndLoop, Close, StopInv, Rest, history
<1>5. ASSUME ReadEvents PROVE StopInv'
  <2>1. Len(buffer') \in Nat /\ Len(buffer') <= BufferMax
    BY <1>5, ReadType
  <2>2. pc = "poll" /\ pc' = "events" /\ UNCHANGED <<listen, stopped, late>>
    BY <1>5 DEF ReadEvents, history
  <2> QED
    BY <1>0, <2>1, <2>2 DEF StopInv, Rest
<1>6. ASSUME NEW n \in Files \cup Dirs, ProcessCreate(n) \/ ProcessOther(n) PROVE StopInv'
  <2>1. /\ pc = "events" /\ pc' = "events" /\ UNCHANGED <<listen, stopped>>
        /\ buffer # << >> /\ buffer' = Tail(buffer) /\ late' = Count(late)
    BY <1>6 DEF ProcessCreate, ProcessOther, At
  <2>2. Len(buffer') = Len(buffer) - 1
    BY <2>1, HeadIsEvent
  <2>3. Len(buffer) > 0
    BY <2>1, EmptySeq DEF TypeOK
  <2> QED
    BY <1>0, <2>1, <2>2, <2>3 DEF StopInv, Rest, Count
<1>7. ASSUME NEW n \in Files \cup Dirs, ProcessClose(n) PROVE StopInv'
  <2>1. /\ pc = "events" /\ pc' = "handler" /\ UNCHANGED <<listen, stopped, buffer>>
        /\ buffer # << >> /\ late' = Count(late)
    BY <1>7 DEF ProcessClose, At
  <2>2. Len(buffer) > 0
    BY <2>1, EmptySeq DEF TypeOK
  <2> QED
    BY <1>0, <2>1, <2>2 DEF StopInv, Rest, Count
<1>8. ASSUME NEW n \in Files \cup Dirs, CompareNull(n) PROVE StopInv'
  BY <1>8 DEF CompareNull, StopInv, history
<1>9. ASSUME HandlerReturns PROVE StopInv'
  <2>1. /\ pc = "handler" /\ pc' = "events" /\ UNCHANGED <<listen, stopped, late>>
        /\ buffer' = Tail(buffer)
    BY <1>9 DEF HandlerReturns, history
  <2>2. Len(buffer') = Len(buffer) - 1
    BY <1>0, <2>1, HeadIsEvent
  <2> QED
    BY <1>0, <2>1, <2>2 DEF StopInv, Rest
<1>10. ASSUME EndBuffer PROVE StopInv'
  BY <1>0, <1>10 DEF EndBuffer, StopInv, Rest, history
<1>11. ASSUME UNCHANGED vars PROVE StopInv'
  BY <1>11 DEF vars, history, StopInv, Rest
<1> QED
  BY <1>1, <1>2, <1>3, <1>4, <1>5, <1>6, <1>7, <1>8, <1>9, <1>10, <1>11
  DEF Next, Program, Environment

LEMMA StopInvBounds == TypeOK /\ StopInv => StopWithinBuffer
BY SizeAssumption DEF TypeOK, StopInv, StopWithinBuffer

\* After dirwatch_stop has taken effect no more events are processed than one read returns
\* (dirwatch.c, lines 278-336), for every size of the buffer and the table, and for every
\* order in which files are created and closed.
THEOREM DirwatchStopWithinBuffer == Spec => []StopWithinBuffer
<1>1. Init => TypeOK /\ StopInv
  BY InitType, InitStopInv
<1>2. TypeOK /\ StopInv /\ [Next]_vars => TypeOK' /\ StopInv'
  BY TypeStep, NextStopInv
<1>3. TypeOK /\ StopInv => StopWithinBuffer
  BY StopInvBounds
<1> QED
  BY <1>1, <1>2, <1>3, PTL DEF Spec

-------------------------------------------------------------------------------
(* Orderly writers.  A name is open to the watcher while slot 1 holds it,  *)
(* and to the writers while its file is new.  The events ahead lead from   *)
(* what is open to the watcher to what is open to the writers.             *)

Names == Files \cup {NoName}

\* This event opens the name, if nothing is open, or closes the one that is.
Follows(u, e, v) ==
    \/ e.kind = "mkdir" /\ v = u
    \/ e.kind = "create" /\ u = NoName /\ v = e.name /\ v \in Matching
    \/ e.kind = "close" /\ u = e.name /\ v = NoName

\* A sequence of events, step by step.
Leads(u, s, v) ==
    \E w \in [0..Len(s) -> Names] :
        /\ w[0] = u /\ w[Len(s)] = v
        /\ \A i \in 1..Len(s) : Follows(w[i - 1], s[i], w[i])

LEMMA LeadsNowhere == ASSUME NEW u \in Names PROVE Leads(u, << >>, u)
<1> DEFINE w == [i \in 0..Len(<< >>) |-> u]
<1>1. Len(<< >>) = 0
  OBVIOUS
<1>2. w \in [0..Len(<< >>) -> Names] /\ w[0] = u /\ w[Len(<< >>)] = u
  BY <1>1
<1>3. \A i \in 1..Len(<< >>) : Follows(w[i - 1], << >>[i], w[i])
  BY <1>1
<1> HIDE DEF w
<1> QED
  BY <1>2, <1>3 DEF Leads

LEMMA LeadsAppend ==
    ASSUME NEW s \in Seq(Events), NEW e \in Events, NEW u, NEW v, NEW x \in Names,
           Leads(u, s, v), Follows(v, e, x)
    PROVE  Leads(u, Append(s, e), x)
<1> DEFINE n == Len(s)
           t == Append(s, e)
<1>1. n \in Nat /\ Len(t) = n + 1 /\ t[n + 1] = e /\ \A i \in 1..n : t[i] = s[i]
  BY AppendProperties
<1>2. PICK w \in [0..n -> Names] :
         /\ w[0] = u /\ w[n] = v
         /\ \A i \in 1..n : Follows(w[i - 1], s[i], w[i])
  BY DEF Leads
<1> DEFINE y == [i \in 0..(n + 1) |-> IF i = n + 1 THEN x ELSE w[i]]
<1> HIDE DEF n, t
<1>3. y \in [0..(n + 1) -> Names] /\ y[n + 1] = x /\ \A i \in 0..n : y[i] = w[i]
  BY <1>1, <1>2
<1> HIDE DEF y
<1>4. ASSUME NEW i \in 1..(n + 1) PROVE Follows(y[i - 1], t[i], y[i])
  <2>1. CASE i = n + 1
    <3>1. y[i - 1] = v /\ t[i] = e /\ y[i] = x
      BY <1>1, <1>2, <1>3, <2>1
    <3> QED
      BY <3>1
  <2>2. CASE i # n + 1
    <3>1. i \in 1..n /\ i - 1 \in 0..n /\ i \in 0..n
      BY <1>1, <2>2
    <3>2. y[i - 1] = w[i - 1] /\ t[i] = s[i] /\ y[i] = w[i]
      BY <1>1, <1>3, <3>1
    <3> QED
      BY <1>2, <3>1, <3>2
  <2> QED
    BY <2>1, <2>2
<1>5. y[0] = u
  BY <1>1, <1>2, <1>3
<1> QED
  BY <1>1, <1>3, <1>4, <1>5 DEF Leads, t

\* The first event of a sequence, and the last one.
LEMMA LeadsFirst ==
    ASSUME NEW s \in Seq(Events), s # << >>, NEW u, NEW v, Leads(u, s, v)
    PROVE  \E x \in Names : Follows(u, Head(s), x) /\ Leads(x, Tail(s), v)
<1> DEFINE n == Len(s)
           t == Tail(s)
<1>1. n \in Nat \ {0} /\ Len(t) = n - 1 /\ Head(s) = s[1] /\ \A i \in 1..(n - 1) : t[i] = s[i + 1]
  BY EmptySeq, HeadTailProperties
<1>2. PICK w \in [0..n -> Names] :
         /\ w[0] = u /\ w[n] = v
         /\ \A i \in 1..n : Follows(w[i - 1], s[i], w[i])
  BY DEF Leads
<1> DEFINE y == [i \in 0..(n - 1) |-> w[i + 1]]
<1> HIDE DEF n, t
<1>3. y \in [0..(n - 1) -> Names] /\ \A i \in 0..(n - 1) : y[i] = w[i + 1]
  BY <1>1, <1>2
<1> HIDE DEF y
<1>4. ASSUME NEW i \in 1..(n - 1) PROVE Follows(y[i - 1], t[i], y[i])
  <2>1. i + 1 \in 1..n /\ i - 1 \in 0..(n - 1) /\ i \in 0..(n - 1)
    BY <1>1
  <2>2. y[i - 1] = w[(i + 1) - 1] /\ t[i] = s[i + 1] /\ y[i] = w[i + 1]
    BY <1>1, <1>3, <2>1
  <2>3. Follows(w[(i + 1) - 1], s[i + 1], w[i + 1])
    BY <1>2, <2>1
  <2> QED
    BY <2>2, <2>3
<1>5. y[0] = w[1] /\ y[n - 1] = v
  BY <1>1, <1>2, <1>3
<1>6. Leads(w[1], t, v)
  BY <1>1, <1>3, <1>4, <1>5 DEF Leads
<1>7. Follows(u, Head(s), w[1])
  <2>1. 1 \in 1..n /\ 1 - 1 = 0
    BY <1>1
  <2> QED
    BY <1>1, <1>2, <2>1
<1>8. w[1] \in Names
  BY <1>1, <1>2
<1> QED
  BY <1>6, <1>7, <1>8 DEF t

LEMMA LeadsLast ==
    ASSUME NEW s \in Seq(Events), s # << >>, NEW u, NEW v, Leads(u, s, v)
    PROVE  \E x \in Names : Follows(x, Last(s), v)
<1> DEFINE n == Len(s)
<1>1. n \in Nat \ {0} /\ Last(s) = s[n]
  BY EmptySeq DEF Last
<1>2. PICK w \in [0..n -> Names] :
         /\ w[0] = u /\ w[n] = v
         /\ \A i \in 1..n : Follows(w[i - 1], s[i], w[i])
  BY DEF Leads
<1>3. n \in 1..n /\ n - 1 \in 0..n
  BY <1>1
<1> QED
  BY <1>1, <1>2, <1>3

\* The same of the names that are closed.
LEMMA ClosesNothing == ClosesAre(<< >>, << >>)
<1> DEFINE at == [k \in {} |-> k]
<1>1. DOMAIN << >> = {} /\ at \in [{} -> {}] /\ Range(at) = {}
  BY DEF Range
<1> HIDE DEF at
<1> QED
  BY <1>1 DEF ClosesAre

LEMMA ClosesAppend ==
    ASSUME NEW s \in Seq(Events), NEW e \in Events, NEW names \in Seq(Files),
           ClosesAre(s, names)
    PROVE  /\ e.kind = "close" => ClosesAre(Append(s, e), Append(names, e.name))
           /\ e.kind # "close" => ClosesAre(Append(s, e), names)
<1> DEFINE n == Len(s)
           m == Len(names)
           t == Append(s, e)
           l == Append(names, e.name)
<1>1. /\ n \in Nat /\ DOMAIN s = 1..n /\ DOMAIN t = 1..(n + 1)
      /\ t[n + 1] = e /\ \A i \in 1..n : t[i] = s[i]
  OBVIOUS
<1>2. /\ m \in Nat /\ DOMAIN names = 1..m /\ DOMAIN l = 1..(m + 1)
      /\ l[m + 1] = e.name /\ \A i \in 1..m : l[i] = names[i]
  OBVIOUS
<1> HIDE DEF n, m, t, l
<1>3. PICK at \in [1..m -> 1..n] :
         /\ \A j, k \in 1..m : j < k => at[j] < at[k]
         /\ Range(at) = {i \in 1..n : s[i].kind = "close"}
         /\ \A k \in 1..m : s[at[k]].name = names[k]
  BY <1>1, <1>2 DEF ClosesAre
<1>4. CASE e.kind # "close"
  <2>1. at \in [1..m -> 1..(n + 1)]
    BY <1>1, <1>3
  <2>2. Range(at) = {i \in 1..(n + 1) : t[i].kind = "close"}
    <3>1. 1..(n + 1) = (1..n) \cup {n + 1}
      BY <1>1
    <3> QED
      BY <1>1, <1>3, <1>4, <3>1
  <2>3. \A k \in 1..m : t[at[k]].name = names[k]
    BY <1>1, <1>3
  <2> QED
    BY <1>1, <1>2, <1>3, <1>4, <2>1, <2>2, <2>3 DEF ClosesAre, t
<1>5. CASE e.kind = "close"
  <2> DEFINE b == [k \in 1..(m + 1) |-> IF k = m + 1 THEN n + 1 ELSE at[k]]
  <2>1. /\ b \in [1..(m + 1) -> 1..(n + 1)] /\ b[m + 1] = n + 1
        /\ \A k \in 1..m : b[k] = at[k]
    BY <1>1, <1>2, <1>3
  <2>2. 1..(n + 1) = (1..n) \cup {n + 1} /\ 1..(m + 1) = (1..m) \cup {m + 1}
    BY <1>1, <1>2
  <2> HIDE DEF b
  <2>3. ASSUME NEW j \in 1..(m + 1), NEW k \in 1..(m + 1), j < k PROVE b[j] < b[k]
    <3>1. j \in 1..m
      BY <1>2, <2>3
    <3>2. CASE k = m + 1
      BY <1>1, <1>3, <2>1, <3>1, <3>2
    <3>3. CASE k # m + 1
      <4>1. k \in 1..m
        BY <1>2, <3>3
      <4> QED
        BY <1>3, <2>1, <2>3, <3>1, <4>1
    <3> QED
      BY <3>2, <3>3
  <2>4. Range(b) = {i \in 1..(n + 1) : t[i].kind = "close"}
    <3>1. Range(b) = Range(at) \cup {n + 1}
      <4>1. DOMAIN b = (1..m) \cup {m + 1} /\ DOMAIN at = 1..m
        BY <1>3, <2>1, <2>2
      <4> QED
        BY <2>1, <4>1 DEF Range
    <3>2. {i \in 1..(n + 1) : t[i].kind = "close"} = {i \in 1..n : s[i].kind = "close"} \cup {n + 1}
      BY <1>1, <1>5, <2>2
    <3> QED
      BY <1>3, <3>1, <3>2
  <2>5. ASSUME NEW k \in 1..(m + 1) PROVE t[b[k]].name = l[k]
    <3>1. CASE k = m + 1
      BY <1>1, <1>2, <2>1, <3>1
    <3>2. CASE k \in 1..m
      BY <1>1, <1>2, <1>3, <2>1, <3>2
    <3> QED
      BY <2>2, <3>1, <3>2
  <2>6. /\ b \in [DOMAIN l -> DOMAIN t]
        /\ \A j, k \in DOMAIN l : j < k => b[j] < b[k]
        /\ Range(b) = {i \in DOMAIN t : t[i].kind = "close"}
        /\ \A k \in DOMAIN l : t[b[k]].name = l[k]
    BY <1>1, <1>2, <2>1, <2>3, <2>4, <2>5
  <2>7. ClosesAre(t, l)
    BY <2>6 DEF ClosesAre
  <2> QED
    BY <1>5, <2>7 DEF t, l
<1> QED
  BY <1>4, <1>5

LEMMA ClosesTail ==
    ASSUME NEW s \in Seq(Events), s # << >>, NEW names \in Seq(Files), ClosesAre(s, names)
    PROVE  /\ Head(s).kind = "close" =>
                 names # << >> /\ Head(names) = Head(s).name /\ ClosesAre(Tail(s), Tail(names))
           /\ Head(s).kind # "close" => ClosesAre(Tail(s), names)
<1> DEFINE n == Len(s)
           m == Len(names)
           t == Tail(s)
           l == Tail(names)
<1>1. /\ n \in Nat \ {0} /\ DOMAIN s = 1..n /\ DOMAIN t = 1..(n - 1)
      /\ Head(s) = s[1] /\ \A i \in 1..(n - 1) : t[i] = s[i + 1]
  BY EmptySeq, HeadTailProperties
<1>2. m \in Nat /\ DOMAIN names = 1..m
  OBVIOUS
<1>3. /\ names # << >> <=> m > 0
      /\ m > 0 => /\ Head(names) = names[1] /\ DOMAIN l = 1..(m - 1)
                  /\ \A i \in 1..(m - 1) : l[i] = names[i + 1]
  BY EmptySeq, HeadTailProperties
<1> HIDE DEF n, m, t, l
<1>4. PICK at \in [1..m -> 1..n] :
         /\ \A j, k \in 1..m : j < k => at[j] < at[k]
         /\ Range(at) = {i \in 1..n : s[i].kind = "close"}
         /\ \A k \in 1..m : s[at[k]].name = names[k]
  BY <1>1, <1>2 DEF ClosesAre
<1>5. /\ \A k \in 1..m : s[at[k]].kind = "close"
      /\ \A i \in 1..n : s[i].kind = "close" => \E k \in 1..m : at[k] = i
  BY <1>4 DEF Range
<1>6. CASE s[1].kind = "close"
  <2>1. PICK k0 \in 1..m : at[k0] = 1
    BY <1>1, <1>5, <1>6
  <2>2. m > 0 /\ 1 \in 1..m
    BY <1>2, <2>1
  <2>3. at[1] = 1
    <3>1. at[1] \in 1..n /\ (1 < k0 => at[1] < 1)
      BY <1>4, <2>1, <2>2
    <3> QED
      BY <1>1, <2>1, <3>1
  <2> DEFINE b == [k \in 1..(m - 1) |-> at[k + 1] - 1]
  <2>4. ASSUME NEW k \in 1..(m - 1)
        PROVE  k + 1 \in 1..m /\ at[k + 1] \in 2..n /\ b[k] = at[k + 1] - 1 /\ b[k] \in 1..(n - 1)
    <3>1. k + 1 \in 1..m /\ 1 < k + 1
      BY <1>2
    <3>2. at[1] < at[k + 1] /\ at[k + 1] \in 1..n
      BY <1>4, <2>2, <3>1
    <3>3. at[k + 1] \in 2..n
      BY <1>1, <2>3, <3>2
    <3> QED
      BY <1>1, <3>1, <3>3
  <2>5. b \in [1..(m - 1) -> 1..(n - 1)]
    BY <2>4
  <2> HIDE DEF b
  <2>6. ASSUME NEW j \in 1..(m - 1), NEW k \in 1..(m - 1), j < k PROVE b[j] < b[k]
    <3>1. at[j + 1] < at[k + 1]
      BY <1>2, <1>4, <2>4, <2>6
    <3> QED
      BY <1>1, <2>4, <3>1
  <2>7. ASSUME NEW i \in 1..(n - 1)
        PROVE  t[i].kind = "close" <=> \E k \in 1..(m - 1) : b[k] = i
    <3>1. i + 1 \in 1..n /\ t[i] = s[i + 1]
      BY <1>1
    <3>2. ASSUME t[i].kind = "close" PROVE \E k \in 1..(m - 1) : b[k] = i
      <4>1. PICK k \in 1..m : at[k] = i + 1
        BY <1>5, <3>1, <3>2
      <4>2. k - 1 \in 1..(m - 1) /\ (k - 1) + 1 = k
        BY <1>2, <2>3, <4>1
      <4>3. b[k - 1] = at[k] - 1
        BY <2>4, <4>2
      <4> QED
        BY <4>1, <4>2, <4>3
    <3>3. ASSUME NEW k \in 1..(m - 1), b[k] = i PROVE t[i].kind = "close"
      <4>1. k + 1 \in 1..m /\ at[k + 1] = i + 1
        BY <1>1, <2>4, <3>3
      <4> QED
        BY <1>5, <3>1, <4>1
    <3> QED
      BY <3>2, <3>3
  <2>8. ASSUME NEW k \in 1..(m - 1) PROVE t[b[k]].name = l[k]
    <3>1. t[b[k]] = s[at[k + 1]]
      BY <1>1, <2>4
    <3> QED
      BY <1>3, <1>4, <2>2, <2>4, <3>1
  <2>9. /\ b \in [DOMAIN l -> DOMAIN t]
        /\ \A j, k \in DOMAIN l : j < k => b[j] < b[k]
        /\ Range(b) = {i \in DOMAIN t : t[i].kind = "close"}
        /\ \A k \in DOMAIN l : t[b[k]].name = l[k]
    <3>1. DOMAIN l = 1..(m - 1) /\ DOMAIN t = 1..(n - 1) /\ DOMAIN b = 1..(m - 1)
      BY <1>1, <1>3, <2>2, <2>5
    <3>2. Range(b) = {i \in 1..(n - 1) : t[i].kind = "close"}
      BY <2>5, <2>7, <3>1 DEF Range
    <3> QED
      BY <2>5, <2>6, <2>8, <3>1, <3>2
  <2>10. ClosesAre(t, l)
    BY <2>9 DEF ClosesAre
  <2>11. Head(names) = Head(s).name
    BY <1>1, <1>3, <1>4, <2>2, <2>3
  <2> QED
    BY <1>1, <1>3, <1>6, <2>2, <2>10, <2>11 DEF t, l
<1>7. CASE s[1].kind # "close"
  <2> DEFINE b == [k \in 1..m |-> at[k] - 1]
  <2>1. ASSUME NEW k \in 1..m
        PROVE  at[k] \in 2..n /\ b[k] = at[k] - 1 /\ b[k] \in 1..(n - 1)
    <3>1. at[k] \in 1..n /\ at[k] # 1
      BY <1>4, <1>5, <1>7
    <3> QED
      BY <1>1, <3>1
  <2>2. b \in [1..m -> 1..(n - 1)]
    BY <2>1
  <2> HIDE DEF b
  <2>3. ASSUME NEW j \in 1..m, NEW k \in 1..m, j < k PROVE b[j] < b[k]
    <3>1. at[j] < at[k]
      BY <1>4, <2>3
    <3> QED
      BY <1>1, <2>1, <3>1
  <2>4. ASSUME NEW i \in 1..(n - 1)
        PROVE  t[i].kind = "close" <=> \E k \in 1..m : b[k] = i
    <3>1. i + 1 \in 1..n /\ t[i] = s[i + 1]
      BY <1>1
    <3>2. ASSUME NEW k \in 1..m PROVE at[k] = i + 1 <=> b[k] = i
      BY <1>1, <2>1
    <3> QED
      BY <1>5, <3>1, <3>2
  <2>5. ASSUME NEW k \in 1..m PROVE t[b[k]].name = names[k]
    <3>1. t[b[k]] = s[at[k]]
      BY <1>1, <2>1
    <3> QED
      BY <1>4, <3>1
  <2>6. /\ b \in [DOMAIN names -> DOMAIN t]
        /\ \A j, k \in DOMAIN names : j < k => b[j] < b[k]
        /\ Range(b) = {i \in DOMAIN t : t[i].kind = "close"}
        /\ \A k \in DOMAIN names : t[b[k]].name = names[k]
    <3>1. DOMAIN names = 1..m /\ DOMAIN t = 1..(n - 1) /\ DOMAIN b = 1..m
      BY <1>1, <1>2, <2>2
    <3>2. Range(b) = {i \in 1..(n - 1) : t[i].kind = "close"}
      BY <2>2, <2>4, <3>1 DEF Range
    <3> QED
      BY <2>2, <2>3, <2>5, <3>1, <3>2
  <2>7. ClosesAre(t, names)
    BY <2>6 DEF ClosesAre
  <2> QED
    BY <1>1, <1>7, <2>7 DEF t
<1> QED
  BY <1>6, <1>7

\* How a sequence of two parts begins, ends and grows.
LEMMA Joined ==
    ASSUME NEW S, NEW b \in Seq(S), NEW q \in Seq(S), NEW e \in S
    PROVE  /\ b \o q \in Seq(S)
           /\ b \o Append(q, e) = Append(b \o q, e)
           /\ b # << >> => /\ b \o q # << >> /\ Head(b \o q) = Head(b)
                          /\ Tail(b \o q) = Tail(b) \o q
           /\ q # << >> => b \o q # << >> /\ Last(b \o q) = Last(q)
<1>1. /\ b \o q \in Seq(S) /\ Len(b \o q) = Len(b) + Len(q)
      /\ \A i \in 1..(Len(b) + Len(q)) : (b \o q)[i] = IF i <= Len(b) THEN b[i] ELSE q[i - Len(b)]
      /\ Len(b) \in Nat /\ Len(q) \in Nat
      /\ b # << >> => Len(b) > 0
      /\ q # << >> => Len(q) > 0
  BY ConcatProperties, EmptySeq
<1>2. b \o Append(q, e) = Append(b \o q, e)
  <2>1. Append(q, e) = q \o << e >> /\ Append(b \o q, e) = (b \o q) \o << e >>
    BY <1>1, AppendIsConcat
  <2>2. << e >> \in Seq(S)
    OBVIOUS
  <2> QED
    BY <2>1, <2>2, ConcatAssociative
<1>3. ASSUME b # << >>
      PROVE  b \o q # << >> /\ Head(b \o q) = Head(b) /\ Tail(b \o q) = Tail(b) \o q
  <2>1. Len(b) > 0 /\ Len(b \o q) > 0 /\ Len(<< >>) = 0
    BY <1>1, <1>3
  <2>2. b \o q # << >>
    BY <1>1, <2>1
  <2>3. Head(b \o q) = Head(b)
    <3>1. Head(b \o q) = (b \o q)[1] /\ Head(b) = b[1]
      BY <1>1, <1>3, <2>2, HeadTailProperties
    <3>2. (b \o q)[1] = b[1]
      BY <1>1, <2>1
    <3> QED
      BY <3>1, <3>2
  <2>4. Tail(b \o q) = Tail(b) \o q
    <3> DEFINE x == Tail(b \o q)
               y == Tail(b) \o q
    <3>1. /\ x \in Seq(S) /\ Len(x) = Len(b) + Len(q) - 1
          /\ \A i \in 1..(Len(b) + Len(q) - 1) : x[i] = (b \o q)[i + 1]
      BY <1>1, <2>2, HeadTailProperties
    <3>2. /\ Tail(b) \in Seq(S) /\ Len(Tail(b)) = Len(b) - 1
          /\ \A i \in 1..(Len(b) - 1) : Tail(b)[i] = b[i + 1]
      BY <1>3, HeadTailProperties
    <3>3. /\ y \in Seq(S) /\ Len(y) = Len(b) + Len(q) - 1
          /\ \A i \in 1..(Len(b) + Len(q) - 1) :
                y[i] = IF i <= Len(b) - 1 THEN Tail(b)[i] ELSE q[i - (Len(b) - 1)]
      BY <1>1, <3>2, ConcatProperties
    <3> HIDE DEF x, y
    <3>4. ASSUME NEW i \in 1..(Len(b) + Len(q) - 1) PROVE x[i] = y[i]
      <4>1. CASE i <= Len(b) - 1
        <5>1. i \in 1..(Len(b) - 1) /\ i + 1 <= Len(b) /\ i + 1 \in 1..(Len(b) + Len(q))
          BY <1>1, <4>1
        <5> QED
          BY <1>1, <3>1, <3>2, <3>3, <4>1, <5>1
      <4>2. CASE i > Len(b) - 1
        <5>1. /\ ~(i + 1 <= Len(b)) /\ i + 1 \in 1..(Len(b) + Len(q)) /\ ~(i <= Len(b) - 1)
              /\ (i + 1) - Len(b) = i - (Len(b) - 1)
          BY <1>1, <4>2
        <5>2. x[i] = q[(i + 1) - Len(b)]
          BY <1>1, <3>1, <5>1
        <5>3. y[i] = q[i - (Len(b) - 1)]
          BY <3>3, <5>1
        <5> QED
          BY <5>1, <5>2, <5>3
      <4> QED
        BY <1>1, <4>1, <4>2
    <3> QED
      BY <3>1, <3>3, <3>4, SeqEqual DEF x, y
  <2> QED
    BY <2>2, <2>3, <2>4
<1>4. ASSUME q # << >> PROVE b \o q # << >> /\ Last(b \o q) = Last(q)
  <2>1. Len(q) > 0 /\ Len(b \o q) > 0 /\ Len(<< >>) = 0
    BY <1>1, <1>4
  <2>2. Len(b \o q) \in 1..(Len(b) + Len(q)) /\ ~(Len(b \o q) <= Len(b))
    BY <1>1, <2>1
  <2>3. Len(b \o q) - Len(b) = Len(q)
    BY <1>1
  <2> QED
    BY <1>1, <2>1, <2>2, <2>3 DEF Last
<1> QED
  BY <1>1, <1>2, <1>3, <1>4

-------------------------------------------------------------------------------
(* What holds while writers are orderly.                                   *)

\* The name that the table answers to, next.
Table == IF pc = "handler" THEN NoName ELSE watchfiles[1]

\* What was read waits while events are processed, and only then.
BusyInv == buffer # << >> => pc \in {"events", "handler", "crashed"}

\* Files that are open are new, since the watch began, and match; the handler is called with
\* the name in the first slot, which the search for a name finds first.
FileInv ==
    /\ pc # "crashed"
    /\ \A f \in Files : files[f] # "open" /\ (files[f] = "new" => f \in Matching /\ pc # "idle")
    /\ pc = "handler" => watchfiles[1] = Head(buffer).name

\* The events ahead lead from the name in the table to the file that is open.
LeadInv ==
    pc # "closed" => \E v \in Names : /\ Leads(Table, Ahead, v)
                                     /\ \A f \in Files : files[f] = "new" <=> f = v

\* The closes ahead are those of the files completed and not announced.
CloseInv ==
    pc # "closed" => \E pending \in Seq(Files) :
                        announced \o pending = completed /\ ClosesAre(Ahead, pending)

OrderInv == BusyInv /\ (orderly => FileInv /\ LeadInv /\ CloseInv)

LEMMA InitOrderInv == Init => OrderInv
<1> SUFFICES ASSUME Init PROVE OrderInv
  OBVIOUS
<1>1. BusyInv
  BY DEF Init, BusyInv
<1>2. FileInv
  BY DEF Init, FileInv
<1>3. Table = NoName /\ Ahead = << >>
  <2>1. 1 \in 1..Slots
    BY SizeAssumption
  <2>2. << >> \o << >> = << >>
    BY ConcatEmptySeq, EmptySeq
  <2> QED
    BY <2>1, <2>2 DEF Init, Table, Ahead
<1>4. LeadInv
  <2>1. NoName \in Names
    BY DEF Names
  <2>2. Leads(NoName, << >>, NoName)
    BY <2>1, LeadsNowhere
  <2>3. \A f \in Files : files[f] = "new" <=> f = NoName
    BY NameAssumption DEF Init
  <2> QED
    BY <1>3, <2>1, <2>2, <2>3 DEF LeadInv
<1>5. CloseInv
  <2>1. << >> \in Seq(Files) /\ << >> \o << >> = << >>
    BY ConcatEmptySeq, EmptySeq
  <2> QED
    BY <1>3, <2>1, ClosesNothing DEF Init, CloseInv
<1> QED
  BY <1>1, <1>2, <1>4, <1>5 DEF OrderInv

LEMMA AheadType == TypeOK => Ahead \in Seq(Events)
<1> SUFFICES ASSUME TypeOK PROVE Ahead \in Seq(Events)
  OBVIOUS
<1>1. buffer \in Seq(Events) /\ queue \in Seq(Events) /\ (pc = "handler" => buffer # << >>)
  BY DEF TypeOK
<1>2. pc = "handler" => Tail(buffer) \in Seq(Events)
  BY <1>1, HeadIsEvent
<1> QED
  BY <1>1, <1>2, ConcatProperties DEF Ahead

\* Steps that change neither the events ahead nor what they lead from and to.
LEMMA NothingAhead ==
    ASSUME OrderInv, orderly' => orderly, pc # "closed", BusyInv',
           Table' = Table, Ahead' = Ahead, UNCHANGED <<announced, completed>>,
           \A f \in Files : files'[f] = files[f] \/ (files[f] = "closed" /\ files'[f] = "absent"),
           orderly' => FileInv'
    PROVE  OrderInv'
<1> SUFFICES ASSUME orderly' PROVE LeadInv' /\ CloseInv'
  BY DEF OrderInv
<1>1. LeadInv /\ CloseInv
  BY DEF OrderInv
<1>2. PICK v \in Names : Leads(Table, Ahead, v) /\ \A f \in Files : files[f] = "new" <=> f = v
  BY <1>1 DEF LeadInv
<1>3. Leads(Table, Ahead, v)'
  BY <1>2
<1>4. \A f \in Files : files'[f] = "new" <=> f = v
  BY <1>2
<1>5. LeadInv'
  BY <1>3, <1>4 DEF LeadInv
<1>6. CloseInv'
  BY <1>1 DEF CloseInv
<1> QED
  BY <1>5, <1>6

-------------------------------------------------------------------------------
(* The writers.                                                            *)

\* An event that the kernel queues comes last.
LEMMA PutAhead ==
    ASSUME TypeOK, NEW kind, NEW n, [kind |-> kind, name |-> n] \in Events, Put(kind, n),
           UNCHANGED <<pc, buffer>>
    PROVE  \/ Ahead' = Append(Ahead, [kind |-> kind, name |-> n])
           \/ Ahead' = Ahead /\ ~Watched
           \/ Ahead' = Ahead /\ Ahead # << >> /\ Last(Ahead) = [kind |-> kind, name |-> n]
<1> DEFINE e == [kind |-> kind, name |-> n]
           b == IF pc = "handler" THEN Tail(buffer) ELSE buffer
<1>1. e \in Events /\ queue \in Seq(Events)
  BY DEF TypeOK
<1>2. b \in Seq(Events)
  BY HeadIsEvent DEF TypeOK
<1>3. Ahead = b \o queue /\ Ahead' = b \o queue'
  BY DEF Ahead
<1> HIDE DEF b, e
<1>4. /\ b \o Append(queue, e) = Append(b \o queue, e)
      /\ queue # << >> => b \o queue # << >> /\ Last(b \o queue) = Last(queue)
  BY <1>1, <1>2, Joined
<1>5. queue' = IF ~Watched \/ (queue # << >> /\ Last(queue) = e) THEN queue ELSE Append(queue, e)
  BY DEF Put, e
<1> QED
  BY <1>3, <1>4, <1>5 DEF e

LEMMA CreateOrder == ASSUME TypeOK, OrderInv, NEW n, Create(n) PROVE OrderInv'
<1> DEFINE e == [kind |-> "create", name |-> n]
<1>1. /\ n \in Files /\ e \in Events /\ Put("create", n) /\ Ahead \in Seq(Events)
      /\ UNCHANGED <<pc, buffer, watchfiles, announced, completed>>
      /\ files' = [files EXCEPT ![n] = IF Watched THEN "new" ELSE "open"]
      /\ files \in [Files \cup Dirs -> FileStates] /\ NoName \notin Files
  BY AheadType, NameAssumption DEF Create, Happens, history, Events, TypeOK
<1>2. BusyInv'
  BY <1>1 DEF OrderInv, BusyInv
<1> SUFFICES ASSUME orderly' PROVE FileInv' /\ LeadInv' /\ CloseInv'
  BY <1>2 DEF OrderInv
<1>3. orderly /\ Watched /\ n \in Matching /\ \A f \in Files : files[f] \in {"absent", "closed"}
  BY DEF Create
<1>4. FileInv /\ LeadInv /\ CloseInv /\ pc # "closed" /\ pc # "idle"
  BY <1>3 DEF OrderInv, Watched
<1>5. \A f \in Files : files'[f] = IF f = n THEN "new" ELSE files[f]
  BY <1>1, <1>3
<1>6. Leads(Table, Ahead, NoName)
  <2>1. PICK v \in Names : Leads(Table, Ahead, v) /\ \A f \in Files : files[f] = "new" <=> f = v
    BY <1>4 DEF LeadInv
  <2>2. v = NoName
    BY <1>3, <2>1 DEF Names
  <2> QED
    BY <2>1, <2>2
<1>7. Ahead' = Append(Ahead, e)
  <2>1. ASSUME Ahead # << >>, Last(Ahead) = e PROVE FALSE
    <3>1. PICK x \in Names : Follows(x, e, NoName)
      BY <1>1, <1>6, <2>1, LeadsLast
    <3> QED
      BY <1>1, <3>1 DEF Follows
  <2> QED
    BY <1>1, <1>3, <2>1, PutAhead
<1>8. Leads(Table, Append(Ahead, e), n)
  <2>1. Follows(NoName, e, n) /\ n \in Names
    BY <1>1, <1>3 DEF Follows, Names
  <2> QED
    BY <1>1, <1>6, <2>1, LeadsAppend
<1>9. FileInv'
  <2>1. \A f \in Files : files'[f] # "open" /\ (files'[f] = "new" => f \in Matching /\ pc # "idle")
    BY <1>3, <1>4, <1>5 DEF FileInv
  <2> QED
    BY <1>1, <1>4, <2>1 DEF FileInv
<1>10. LeadInv'
  <2>1. Leads(Table, Ahead, n)'
    BY <1>1, <1>7, <1>8 DEF Table
  <2>2. n \in Names /\ \A f \in Files : files'[f] = "new" <=> f = n
    BY <1>1, <1>3, <1>5 DEF Names
  <2> QED
    BY <2>1, <2>2 DEF LeadInv
<1>11. CloseInv'
  <2>1. PICK pending \in Seq(Files) : announced \o pending = completed /\ ClosesAre(Ahead, pending)
    BY <1>4 DEF CloseInv
  <2>2. ClosesAre(Append(Ahead, e), pending)
    BY <1>1, <2>1, ClosesAppend
  <2>3. ClosesAre(Ahead, pending)'
    BY <1>7, <2>2
  <2>4. (announced \o pending = completed)'
    BY <1>1, <2>1
  <2> QED
    BY <2>3, <2>4 DEF CloseInv
<1> QED
  BY <1>9, <1>10, <1>11

LEMMA MakeDirOrder == ASSUME TypeOK, OrderInv, NEW n, MakeDir(n) PROVE OrderInv'
<1> DEFINE e == [kind |-> "mkdir", name |-> n]
<1>1. /\ n \in Dirs /\ e \in Events /\ Put("mkdir", n) /\ Ahead \in Seq(Events)
      /\ UNCHANGED <<pc, buffer, watchfiles, announced, completed, orderly>>
      /\ \A f \in Files : files'[f] = files[f]
  BY AheadType, NameAssumption DEF MakeDir, Happens, history, Events, TypeOK
<1>2. BusyInv'
  BY <1>1 DEF OrderInv, BusyInv
<1> SUFFICES ASSUME orderly PROVE FileInv' /\ LeadInv' /\ CloseInv'
  BY <1>1, <1>2 DEF OrderInv
<1>3. FileInv /\ LeadInv /\ CloseInv
  BY DEF OrderInv
<1>4. FileInv'
  BY <1>1, <1>3 DEF FileInv
<1>5. Ahead' = Ahead \/ Ahead' = Append(Ahead, e)
  BY <1>1, PutAhead
<1>6. LeadInv'
  <2> SUFFICES ASSUME pc # "closed"
               PROVE  \E v \in Names : /\ Leads(Table, Ahead, v)'
                                      /\ \A f \in Files : files'[f] = "new" <=> f = v
    BY <1>1 DEF LeadInv
  <2>1. PICK v \in Names : Leads(Table, Ahead, v) /\ \A f \in Files : files[f] = "new" <=> f = v
    BY <1>3 DEF LeadInv
  <2>2. Leads(Table, Append(Ahead, e), v)
    <3>1. Follows(v, e, v)
      BY DEF Follows
    <3> QED
      BY <1>1, <2>1, <3>1, LeadsAppend
  <2>3. Leads(Table, Ahead, v)'
    BY <1>1, <1>5, <2>1, <2>2 DEF Table
  <2> QED
    BY <1>1, <2>1, <2>3
<1>7. CloseInv'
  <2> SUFFICES ASSUME pc # "closed"
               PROVE  \E pending \in Seq(Files) :
                         (announced \o pending = completed)' /\ ClosesAre(Ahead, pending)'
    BY <1>1 DEF CloseInv
  <2>1. PICK pending \in Seq(Files) : announced \o pending = completed /\ ClosesAre(Ahead, pending)
    BY <1>3 DEF CloseInv
  <2>2. ClosesAre(Append(Ahead, e), pending)
    BY <1>1, <2>1, ClosesAppend
  <2>3. ClosesAre(Ahead, pending)'
    BY <1>5, <2>1, <2>2
  <2>4. (announced \o pending = completed)'
    BY <1>1, <2>1
  <2> QED
    BY <2>3, <2>4
<1> QED
  BY <1>4, <1>6, <1>7

LEMMA CloseOrder == ASSUME TypeOK, OrderInv, NEW n, CloseWrite(n) PROVE OrderInv'
<1> DEFINE e == [kind |-> "close", name |-> n]
<1>1. /\ n \in Files /\ e \in Events /\ Put("close", n) /\ Ahead \in Seq(Events)
      /\ UNCHANGED <<pc, buffer, watchfiles, announced, orderly>>
      /\ files[n] \in {"new", "open"} /\ files' = [files EXCEPT ![n] = "closed"]
      /\ completed' = IF Watched /\ files[n] = "new" /\ n \in Matching
                      THEN Append(completed, n) ELSE completed
      /\ files \in [Files \cup Dirs -> FileStates] /\ NoName \notin Files
      /\ announced \in Seq(Files) /\ completed \in Seq(Files)
  BY AheadType, NameAssumption DEF CloseWrite, Happens, history, Events, TypeOK
<1>2. BusyInv'
  BY <1>1 DEF OrderInv, BusyInv
<1> SUFFICES ASSUME orderly PROVE FileInv' /\ LeadInv' /\ CloseInv'
  BY <1>1, <1>2 DEF OrderInv
<1>3. FileInv /\ LeadInv /\ CloseInv
  BY DEF OrderInv
<1>4. files[n] = "new" /\ n \in Matching /\ pc # "idle"
  BY <1>1, <1>3 DEF FileInv
<1>5. \A f \in Files : files'[f] = IF f = n THEN "closed" ELSE files[f]
  BY <1>1
<1>6. FileInv'
  <2>1. \A f \in Files : files'[f] # "open" /\ (files'[f] = "new" => f \in Matching /\ pc # "idle")
    BY <1>3, <1>5 DEF FileInv
  <2> QED
    BY <1>1, <1>3, <2>1 DEF FileInv
<1> SUFFICES ASSUME pc # "closed" PROVE LeadInv' /\ CloseInv'
  BY <1>1, <1>6 DEF LeadInv, CloseInv
<1>7. Watched /\ completed' = Append(completed, n)
  BY <1>1, <1>4 DEF Watched
<1>8. Leads(Table, Ahead, n) /\ \A f \in Files : files[f] = "new" <=> f = n
  <2>1. PICK v \in Names : Leads(Table, Ahead, v) /\ \A f \in Files : files[f] = "new" <=> f = v
    BY <1>3 DEF LeadInv
  <2>2. v = n
    BY <1>1, <1>4, <2>1
  <2> QED
    BY <2>1, <2>2
<1>9. Ahead' = Append(Ahead, e)
  <2>1. ASSUME Ahead # << >>, Last(Ahead) = e PROVE FALSE
    <3>1. PICK x \in Names : Follows(x, e, n)
      BY <1>1, <1>8, <2>1, LeadsLast
    <3> QED
      BY <1>1, <3>1 DEF Follows
  <2> QED
    BY <1>1, <1>7, <2>1, PutAhead
<1>10. Leads(Table, Append(Ahead, e), NoName)
  <2>1. Follows(n, e, NoName) /\ NoName \in Names
    BY DEF Follows, Names
  <2> QED
    BY <1>1, <1>8, <2>1, LeadsAppend
<1>11. LeadInv'
  <2>1. Leads(Table, Ahead, NoName)'
    BY <1>1, <1>9, <1>10 DEF Table
  <2>2. NoName \in Names /\ \A f \in Files : files'[f] = "new" <=> f = NoName
    BY <1>1, <1>5, <1>8 DEF Names
  <2> QED
    BY <2>1, <2>2 DEF LeadInv
<1>12. CloseInv'
  <2>1. PICK pending \in Seq(Files) : announced \o pending = completed /\ ClosesAre(Ahead, pending)
    BY <1>3 DEF CloseInv
  <2> DEFINE p == Append(pending, n)
  <2>2. ClosesAre(Append(Ahead, e), p)
    BY <1>1, <2>1, ClosesAppend
  <2>3. ClosesAre(Ahead, p)'
    BY <1>9, <2>2
  <2>4. announced \o p = completed'
    BY <1>1, <1>7, <2>1, Joined
  <2>5. p \in Seq(Files)
    BY <1>1
  <2> HIDE DEF p
  <2>6. (announced \o p = completed)'
    BY <1>1, <2>4
  <2> QED
    BY <2>3, <2>5, <2>6 DEF CloseInv
<1> QED
  BY <1>11, <1>12

-------------------------------------------------------------------------------
(* The program.                                                            *)

\* One read moves events from the queue to the buffer, and they stay ahead in order.
LEMMA ReadAhead == ASSUME TypeOK, OrderInv, ReadEvents PROVE Ahead' = Ahead
<1>1. PICK k \in 1..BufferMax :
         /\ k <= Len(queue)
         /\ buffer' = SubSeq(queue, 1, k)
         /\ queue' = SubSeq(queue, k + 1, Len(queue))
  BY DEF ReadEvents
<1>2. /\ queue \in Seq(Events) /\ Len(queue) \in Nat /\ BufferMax \in Nat
      /\ pc = "poll" /\ pc' = "events" /\ buffer = << >>
  BY SizeAssumption DEF TypeOK, ReadEvents, OrderInv, BusyInv
<1>3. SubSeq(queue, 1, k) \o SubSeq(queue, k + 1, Len(queue)) = SubSeq(queue, 1, Len(queue))
  <2>1. 1 \in 1..(Len(queue) + 1) /\ k \in (1 - 1)..Len(queue) /\ Len(queue) \in k..Len(queue)
    BY <1>1, <1>2
  <2> QED
    BY <1>2, <2>1, ConcatAdjacentSubSeq
<1>4. SubSeq(queue, 1, Len(queue)) = queue /\ << >> \o queue = queue
  BY <1>2, SubSeqFull, ConcatEmptySeq
<1> QED
  BY <1>1, <1>2, <1>3, <1>4 DEF Ahead

\* Steps of the loop that process no event.
LEMMA LoopOrder ==
    ASSUME TypeOK, OrderInv,
           \/ Watch \/ SetListen \/ ContinueLoop \/ EnterPoll \/ PollTimeout \/ PollFails
           \/ ReadEvents \/ EndBuffer \/ EndLoop \/ Stop \/ StopTransmission
    PROVE  OrderInv'
<1>1. /\ UNCHANGED <<watchfiles, files, orderly, announced, completed>>
      /\ pc # "closed" /\ (pc' # "handler" => pc # "handler")
      /\ pc' = "handler" => pc = "handler" /\ buffer' = buffer
      /\ pc' # "idle" /\ (pc # "crashed" => pc' # "crashed")
  BY DEF Watch, SetListen, ContinueLoop, EnterPoll, PollTimeout, PollFails, ReadEvents,
     EndBuffer, EndLoop, Stop, StopTransmission, world, history
<1>2. Table' = Table
  BY <1>1 DEF Table
<1>3. Ahead' = Ahead
  <2>1. CASE ReadEvents
    BY <2>1, ReadAhead
  <2>2. CASE ~ReadEvents
    BY <1>1, <2>2 DEF Watch, SetListen, ContinueLoop, EnterPoll, PollTimeout, PollFails,
       EndBuffer, EndLoop, Stop, StopTransmission, world, history, Ahead
  <2> QED
    BY <2>1, <2>2
<1>4. BusyInv'
  BY DEF OrderInv, BusyInv, Watch, SetListen, ContinueLoop, EnterPoll, PollTimeout, PollFails,
     ReadEvents, EndBuffer, EndLoop, Stop, StopTransmission, world, history
<1>5. orderly' => FileInv'
  BY <1>1 DEF OrderInv, FileInv
<1>6. /\ (orderly' => orderly) /\ UNCHANGED <<announced, completed>>
      /\ pc # "closed" /\ \A f \in Files : files'[f] = files[f]
  BY <1>1
<1> QED
  BY <1>2, <1>3, <1>4, <1>5, <1>6, NothingAhead

\* The event that is processed is the first one ahead.
LEMMA FirstAhead ==
    ASSUME TypeOK, pc = "events", buffer # << >>
    PROVE  /\ Ahead \in Seq(Events) /\ Ahead # << >> /\ Head(Ahead) = Head(buffer)
           /\ Tail(Ahead) = Tail(buffer) \o queue
<1>1. buffer \in Seq(Events) /\ queue \in Seq(Events) /\ Ahead = buffer \o queue
  BY DEF TypeOK, Ahead
<1>2. Head(buffer) \in Events
  BY HeadIsEvent
<1> QED
  BY <1>1, <1>2, Joined, AheadType

\* What an orderly event does: the one at next, and the name it opens or closes.
LEMMA OrderlyEvent ==
    ASSUME TypeOK, OrderInv, orderly, pc = "events", buffer # << >>
    PROVE  \E x, v \in Names : /\ Follows(watchfiles[1], Head(buffer), x)
                              /\ Leads(x, Tail(buffer) \o queue, v)
                              /\ \A f \in Files : files[f] = "new" <=> f = v
<1>1. PICK v \in Names : Leads(Table, Ahead, v) /\ \A f \in Files : files[f] = "new" <=> f = v
  BY DEF OrderInv, LeadInv
<1>2. Leads(watchfiles[1], Ahead, v)
  BY <1>1 DEF Table
<1>3. \E x \in Names : Follows(watchfiles[1], Head(Ahead), x) /\ Leads(x, Tail(Ahead), v)
  BY <1>2, FirstAhead, LeadsFirst
<1>4. Head(Ahead) = Head(buffer) /\ Tail(Ahead) = Tail(buffer) \o queue
  BY FirstAhead
<1> QED
  BY <1>1, <1>3, <1>4

\* The search for the name in the first slot ends there.
LEMMA FirstHit == ASSUME NEW n, watchfiles[1] = n PROVE Hit(n) = 1
<1>1. 1 \in Hits(n) /\ Hits(n) \subseteq 1..Slots /\ Slots \in Nat
  BY SizeAssumption DEF Hits
<1>2. \A t \in Hits(n) : 1 <= t
  BY <1>1
<1>3. \A s \in Hits(n) : (\A t \in Hits(n) : s <= t) => s = 1
  BY <1>1
<1> QED
  BY <1>1, <1>2, <1>3 DEF Hit

\* Events other than the close of the file that is open.
LEMMA SilentOrder ==
    ASSUME TypeOK, OrderInv, NEW n, ProcessCreate(n) \/ ProcessOther(n)
    PROVE  OrderInv'
<1>1. /\ pc = "events" /\ pc' = "events" /\ buffer # << >> /\ buffer' = Tail(buffer)
      /\ UNCHANGED <<queue, files, orderly, announced, completed>>
  BY DEF ProcessCreate, ProcessOther, At, world
<1>2. BusyInv'
  BY <1>1 DEF BusyInv
<1> SUFFICES ASSUME orderly PROVE FileInv' /\ LeadInv' /\ CloseInv'
  BY <1>1, <1>2 DEF OrderInv
<1>3. FileInv /\ CloseInv
  BY DEF OrderInv
<1>4. FileInv'
  BY <1>1, <1>3 DEF FileInv
<1>5. Ahead' = Tail(buffer) \o queue /\ Table' = watchfiles'[1]
  BY <1>1 DEF Ahead, Table
<1>6. PICK x \in Names, v \in Names :
         /\ Follows(watchfiles[1], Head(buffer), x)
         /\ Leads(x, Tail(buffer) \o queue, v)
         /\ \A f \in Files : files[f] = "new" <=> f = v
  BY <1>1, OrderlyEvent
<1>7. watchfiles'[1] = x /\ Head(buffer).kind # "close"
  <2>1. CASE ProcessCreate(n)
    <3>1. Head(buffer) = [kind |-> "create", name |-> n] /\ watchfiles' = Fill(n)
      BY <2>1 DEF ProcessCreate, At
    <3>2. watchfiles[1] = NoName /\ x = n
      BY <1>6, <3>1 DEF Follows
    <3>3. 1 \in 1..Slots
      BY SizeAssumption
    <3> QED
      BY <3>1, <3>2, <3>3 DEF Fill
  <2>2. CASE At("mkdir", n) /\ watchfiles' = watchfiles
    <3>1. Head(buffer) = [kind |-> "mkdir", name |-> n]
      BY <2>2 DEF At
    <3> QED
      BY <1>6, <2>2, <3>1 DEF Follows
  <2>3. CASE At("create", n) /\ n \notin Matching
    <3>1. Head(buffer) = [kind |-> "create", name |-> n]
      BY <2>3 DEF At
    <3> QED
      BY <1>6, <2>3, <3>1 DEF Follows
  <2>4. CASE At("close", n) /\ Hit(n) = 0
    <3>1. Head(buffer) = [kind |-> "close", name |-> n]
      BY <2>4 DEF At
    <3>2. watchfiles[1] = n
      BY <1>6, <3>1 DEF Follows
    <3>3. Hit(n) = 1
      BY <3>2, FirstHit
    <3> QED
      BY <2>4, <3>3
  <2> QED
    BY <2>1, <2>2, <2>3, <2>4 DEF ProcessOther
<1>8. LeadInv'
  <2>1. Leads(Table, Ahead, v)'
    BY <1>5, <1>6, <1>7
  <2> QED
    BY <1>1, <1>6, <2>1 DEF LeadInv
<1>9. CloseInv'
  <2>1. PICK pending \in Seq(Files) : announced \o pending = completed /\ ClosesAre(Ahead, pending)
    BY <1>1, <1>3 DEF CloseInv
  <2>2. ClosesAre(Tail(Ahead), pending)
    BY <1>1, <1>7, <2>1, FirstAhead, ClosesTail
  <2>3. ClosesAre(Ahead, pending)'
    BY <1>1, <1>5, <2>2, FirstAhead
  <2>4. (announced \o pending = completed)'
    BY <1>1, <2>1
  <2> QED
    BY <2>3, <2>4 DEF CloseInv
<1> QED
  BY <1>4, <1>8, <1>9

\* The close of the file that is open finds its name in the first slot, and announces it.
LEMMA AnnounceOrder == ASSUME TypeOK, OrderInv, NEW n, ProcessClose(n) PROVE OrderInv'
<1>1. /\ pc = "events" /\ pc' = "handler" /\ buffer # << >> /\ Head(buffer) = [kind |-> "close", name |-> n]
      /\ announced' = Append(announced, n) /\ n \in Files
      /\ UNCHANGED <<watchfiles, buffer, queue, files, orderly, completed>>
  BY AboutFile DEF ProcessClose, At, world
<1>2. BusyInv'
  BY <1>1 DEF BusyInv
<1> SUFFICES ASSUME orderly PROVE FileInv' /\ LeadInv' /\ CloseInv'
  BY <1>1, <1>2 DEF OrderInv
<1>3. FileInv /\ CloseInv
  BY DEF OrderInv
<1>4. Ahead' = Tail(buffer) \o queue /\ Table' = NoName
  BY <1>1 DEF Ahead, Table
<1>5. PICK x \in Names, v \in Names :
         /\ Follows(watchfiles[1], Head(buffer), x)
         /\ Leads(x, Tail(buffer) \o queue, v)
         /\ \A f \in Files : files[f] = "new" <=> f = v
  BY <1>1, OrderlyEvent
<1>6. watchfiles[1] = n /\ x = NoName
  BY <1>1, <1>5 DEF Follows
<1>7. FileInv'
  BY <1>1, <1>3, <1>6 DEF FileInv
<1>8. LeadInv'
  <2>1. Leads(Table, Ahead, v)'
    BY <1>4, <1>5, <1>6
  <2> QED
    BY <1>1, <1>5, <2>1 DEF LeadInv
<1>9. CloseInv'
  <2>1. PICK pending \in Seq(Files) : announced \o pending = completed /\ ClosesAre(Ahead, pending)
    BY <1>1, <1>3 DEF CloseInv
  <2> DEFINE p == Tail(pending)
  <2>2. pending # << >> /\ Head(pending) = n /\ ClosesAre(Tail(Ahead), p)
    BY <1>1, <2>1, FirstAhead, ClosesTail
  <2>3. ClosesAre(Ahead, p)'
    BY <1>1, <1>4, <2>2, FirstAhead
  <2>4. p \in Seq(Files) /\ pending = << n >> \o p
    <3>1. /\ p \in Seq(Files) /\ Len(p) = Len(pending) - 1 /\ pending[1] = n
          /\ \A i \in 1..(Len(pending) - 1) : p[i] = pending[i + 1]
          /\ Len(pending) \in Nat
      BY <2>2, HeadTailProperties
    <3>2. /\ << n >> \in Seq(Files) /\ Len(<< n >>) = 1 /\ << n >>[1] = n
      BY <1>1
    <3> HIDE DEF p
    <3>3. /\ << n >> \o p \in Seq(Files) /\ Len(<< n >> \o p) = Len(pending)
          /\ \A i \in 1..Len(pending) : (<< n >> \o p)[i] = IF i <= 1 THEN << n >>[i] ELSE p[i - 1]
      BY <3>1, <3>2, ConcatProperties
    <3>4. ASSUME NEW i \in 1..Len(pending) PROVE (<< n >> \o p)[i] = pending[i]
      <4>1. CASE i = 1
        BY <3>1, <3>2, <3>3, <4>1
      <4>2. CASE i # 1
        <5>1. i - 1 \in 1..(Len(pending) - 1) /\ ~(i <= 1) /\ (i - 1) + 1 = i
          BY <3>1, <4>2
        <5> QED
          BY <3>1, <3>3, <5>1
      <4> QED
        BY <4>1, <4>2
    <3> QED
      BY <3>1, <3>3, <3>4, SeqEqual
  <2> HIDE DEF p
  <2>5. announced' \o p = completed'
    <3>1. announced \in Seq(Files) /\ << n >> \in Seq(Files)
      BY <1>1 DEF TypeOK
    <3>2. announced' = announced \o << n >>
      BY <1>1, <3>1, AppendIsConcat
    <3>3. (announced \o << n >>) \o p = announced \o (<< n >> \o p)
      BY <2>4, <3>1, ConcatAssociative
    <3> QED
      BY <1>1, <2>1, <2>4, <3>2, <3>3
  <2>6. (announced \o p = completed)'
    BY <2>5
  <2> QED
    BY <2>3, <2>4, <2>6 DEF CloseInv
<1> QED
  BY <1>7, <1>8, <1>9

\* An orderly close is never compared with an empty slot.
LEMMA NullOrder == ASSUME TypeOK, OrderInv, NEW n, CompareNull(n) PROVE OrderInv'
<1>1. /\ pc = "events" /\ pc' = "crashed" /\ buffer # << >> /\ Head(buffer) = [kind |-> "close", name |-> n]
      /\ watchfiles[Hit(n)] = NoName /\ n \in Files /\ orderly' = orderly
  BY AboutFile DEF CompareNull, At, world
<1>2. ASSUME orderly PROVE FALSE
  <2>1. PICK x \in Names : Follows(watchfiles[1], Head(buffer), x)
    BY <1>1, <1>2, OrderlyEvent
  <2>2. watchfiles[1] = n
    BY <1>1, <2>1 DEF Follows
  <2>3. Hit(n) = 1
    BY <2>2, FirstHit
  <2> QED
    BY <1>1, <2>2, <2>3, NameAssumption
<1>3. BusyInv'
  BY <1>1 DEF BusyInv
<1> QED
  BY <1>1, <1>2, <1>3 DEF OrderInv

\* The slot that answered is freed.
LEMMA ReturnOrder == ASSUME TypeOK, OrderInv, HandlerReturns PROVE OrderInv'
<1>1. /\ pc = "handler" /\ pc' = "events" /\ buffer' = Tail(buffer)
      /\ watchfiles' = Freed(Hit(Head(buffer).name))
      /\ UNCHANGED <<queue, files, orderly, announced, completed>>
      /\ watchfiles \in [1..Slots -> Files \cup {NoName}] /\ 1 \in 1..Slots
  BY SizeAssumption DEF HandlerReturns, world, history, TypeOK
<1>2. BusyInv'
  BY <1>1 DEF BusyInv
<1> SUFFICES ASSUME orderly PROVE OrderInv'
  BY <1>1, <1>2 DEF OrderInv
<1>3. FileInv /\ pc # "closed"
  BY <1>1 DEF OrderInv
<1>4. Hit(Head(buffer).name) = 1
  BY <1>1, <1>3, FirstHit DEF FileInv
<1>5. Table' = Table
  BY <1>1, <1>4 DEF Table, Freed
<1>6. Ahead' = Ahead
  BY <1>1 DEF Ahead
<1>7. FileInv'
  BY <1>1, <1>3 DEF FileInv
<1>8. /\ orderly' => orderly
      /\ UNCHANGED <<announced, completed>>
      /\ \A f \in Files : files'[f] = files[f]
  BY <1>1
<1> QED
  BY <1>2, <1>3, <1>5, <1>6, <1>7, <1>8, NothingAhead

\* Deleting a file changes nothing, opening one again ends the order, and once the watch is
\* closed only what the writers do can.
LEMMA OtherOrder ==
    ASSUME TypeOK, OrderInv, NEW n, Reopen(n) \/ Delete(n) PROVE OrderInv'
<1>1. /\ UNCHANGED <<pc, watchfiles, buffer, queue, announced, completed>> /\ (orderly' => orderly)
      /\ n \in Files /\ files \in [Files \cup Dirs -> FileStates] /\ files[n] = "closed"
  BY DEF Reopen, Delete, Happens, history, TypeOK
<1>2. BusyInv'
  BY <1>1 DEF OrderInv, BusyInv
<1>3. CASE ~orderly'
  BY <1>2, <1>3 DEF OrderInv
<1>4. CASE orderly'
  <2>1. files' = [files EXCEPT ![n] = "absent"]
    BY <1>4 DEF Reopen, Delete
  <2>2. \A f \in Files : files'[f] = files[f] \/ (files[f] = "closed" /\ files'[f] = "absent")
    BY <1>1, <2>1
  <2>3. FileInv
    BY <1>1, <1>4 DEF OrderInv
  <2>4. FileInv'
    <3>1. \A f \in Files : files'[f] # "open" /\ (files'[f] = "new" => f \in Matching /\ pc # "idle")
      BY <2>2, <2>3 DEF FileInv
    <3> QED
      BY <1>1, <2>3, <3>1 DEF FileInv
  <2>5. Table' = Table /\ Ahead' = Ahead
    BY <1>1 DEF Table, Ahead
  <2>6. CASE pc # "closed"
    BY <1>1, <1>2, <2>2, <2>4, <2>5, <2>6, NothingAhead
  <2>7. CASE pc = "closed"
    BY <1>1, <1>2, <2>4, <2>7 DEF OrderInv, LeadInv, CloseInv
  <2> QED
    BY <2>6, <2>7
<1> QED
  BY <1>3, <1>4

LEMMA LeaveOrder == ASSUME TypeOK, OrderInv, Close PROVE OrderInv'
<1>1. /\ pc = "leaving" /\ pc' = "closed" /\ UNCHANGED <<buffer, files, orderly>>
  BY DEF Close
<1>2. BusyInv'
  BY <1>1 DEF OrderInv, BusyInv
<1> QED
  BY <1>1, <1>2 DEF OrderInv, FileInv, LeadInv, CloseInv

LEMMA StutterOrder == ASSUME OrderInv, UNCHANGED vars PROVE OrderInv'
<1>1. /\ UNCHANGED <<pc, watchfiles, buffer, queue, files, orderly, announced, completed>>
  BY DEF vars, world, history
<1>2. Table' = Table /\ Ahead' = Ahead
  BY <1>1 DEF Table, Ahead
<1>3. BusyInv' /\ (orderly' => FileInv')
  BY <1>1 DEF OrderInv, BusyInv, FileInv
<1>4. CASE pc # "closed"
  BY <1>1, <1>2, <1>3, <1>4, NothingAhead
<1>5. CASE pc = "closed"
  BY <1>1, <1>3, <1>5 DEF OrderInv, LeadInv, CloseInv
<1> QED
  BY <1>4, <1>5

LEMMA OrderStep == TypeOK /\ OrderInv /\ [Next]_vars => OrderInv'
<1> SUFFICES ASSUME TypeOK, OrderInv, [Next]_vars PROVE OrderInv'
  OBVIOUS
<1>1. ASSUME NEW n, Create(n) \/ MakeDir(n) \/ Reopen(n) \/ CloseWrite(n) \/ Delete(n)
      PROVE  OrderInv'
  BY <1>1, CreateOrder, MakeDirOrder, CloseOrder, OtherOrder
<1>2. ASSUME \/ Watch \/ SetListen \/ ContinueLoop \/ EnterPoll \/ PollTimeout \/ PollFails
             \/ ReadEvents \/ EndBuffer \/ EndLoop \/ Stop \/ StopTransmission
      PROVE  OrderInv'
  BY <1>2, LoopOrder
<1>3. ASSUME NEW n, ProcessCreate(n) \/ ProcessOther(n) \/ ProcessClose(n) \/ CompareNull(n)
      PROVE  OrderInv'
  BY <1>3, SilentOrder, AnnounceOrder, NullOrder
<1>4. ASSUME HandlerReturns \/ Close PROVE OrderInv'
  BY <1>4, ReturnOrder, LeaveOrder
<1>5. ASSUME UNCHANGED vars PROVE OrderInv'
  BY <1>5, StutterOrder
<1> QED
  BY <1>1, <1>2, <1>3, <1>4, <1>5 DEF Next, Program, Environment

LEMMA OrderAnnounces == TypeOK /\ OrderInv => AllAnnounced
<1> SUFFICES ASSUME TypeOK, OrderInv, orderly, pc # "closed"
             PROVE  LET pending == SubSeq(completed, Len(announced) + 1, Len(completed))
                    IN  announced \o pending = completed /\ ClosesAre(Ahead, pending)
  BY DEF AllAnnounced, OrderInv, FileInv
<1>1. PICK p \in Seq(Files) : announced \o p = completed /\ ClosesAre(Ahead, p)
  BY DEF OrderInv, CloseInv
<1>2. announced \in Seq(Files) /\ Len(announced) \in Nat /\ Len(p) \in Nat
  BY DEF TypeOK
<1>3. SubSeq(completed, Len(announced) + 1, Len(completed)) = p
  <2> DEFINE a == announced
             q == SubSeq(completed, Len(a) + 1, Len(completed))
  <2>1. /\ completed \in Seq(Files) /\ Len(completed) = Len(a) + Len(p)
        /\ \A i \in 1..(Len(a) + Len(p)) : completed[i] = IF i <= Len(a) THEN a[i] ELSE p[i - Len(a)]
    BY <1>1, <1>2, ConcatProperties
  <2>2. /\ q \in Seq(Files) /\ Len(q) = Len(p)
        /\ \A i \in 1..Len(p) : q[i] = completed[Len(a) + i]
    BY <1>2, <2>1
  <2> HIDE DEF q
  <2>3. ASSUME NEW i \in 1..Len(p) PROVE q[i] = p[i]
    <3>1. /\ Len(a) + i \in 1..(Len(a) + Len(p)) /\ ~(Len(a) + i <= Len(a))
          /\ (Len(a) + i) - Len(a) = i
      BY <1>2
    <3> QED
      BY <2>1, <2>2, <3>1
  <2>4. q = p
    BY <2>2, <2>3, SeqEqual
  <2> QED
    BY <2>4 DEF q
<1> QED
  BY <1>1, <1>3

\* As long as files appear one after the other, every file that is written under the watch
\* is announced once, in the order in which files are completed, or its close is still to be
\* processed, and no search reaches an empty slot (dirwatch.c, lines 297-332): for every
\* size of the buffer and the table, and for any number of files.
THEOREM DirwatchAllAnnounced == Spec => []AllAnnounced
<1>1. Init => TypeOK /\ OrderInv
  BY InitType, InitOrderInv
<1>2. TypeOK /\ OrderInv /\ [Next]_vars => TypeOK' /\ OrderInv'
  BY TypeStep, OrderStep
<1>3. TypeOK /\ OrderInv => AllAnnounced
  BY OrderAnnounces
<1> QED
  BY <1>1, <1>2, <1>3, PTL DEF Spec
===============================================================================

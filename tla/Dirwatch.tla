------------------------------- MODULE Dirwatch -------------------------------
(***************************************************************************)
(* The directory watcher of libdxwifi/details/dirwatch.c, as dxwifi/tx/    *)
(* tx.c uses it: one watched directory, dirwatch_listen with its loop over *)
(* inotify events and its table of file names, and dirwatch_stop, which    *)
(* the SIGINT handler runs at any instant of the loop.                     *)
(*                                                                         *)
(*   idle -> start -> test -> enter -> poll -> events <-> handler          *)
(*                     ^                          |                        *)
(*                     +--------------------------+                        *)
(*                    test -> leaving -> closed                            *)
(* The environment is the kernel's queue of events and the programs that   *)
(* write files into the directory.                                         *)
(***************************************************************************)
EXTENDS Integers, Sequences, FiniteSets, SequencesExt

CONSTANTS
    Files,          \* names of files
    Dirs,           \* names of directories
    Matching,       \* the names that match the file filter
    Slots,          \* number of slots of the table, DIRWATCH_MAX
    NoName,         \* the contents of an empty slot: NULL
    BufferMax,      \* events that one read can return
    HasTimeout,     \* is timeout_ms not negative?
    MaxEvents,      \* bound: what the writers of files do
    MaxStops        \* bound: SIGINTs

ASSUME NameAssumption ==
    /\ Files \cap Dirs = {} /\ Matching \subseteq Files \cup Dirs
    /\ NoName \notin Files \cup Dirs
ASSUME SizeAssumption == Slots \in Nat \ {0} /\ BufferMax \in Nat \ {0}
ASSUME SettingAssumption == HasTimeout \in BOOLEAN
ASSUME BoundAssumption == MaxEvents \in Nat /\ MaxStops \in Nat

VARIABLES
    pc,             \* where transmit_directory and dirwatch_listen are
    listen,         \* dw->listen
    watchfiles,     \* the table of names
    buffer,         \* event_buffer from the event at next on
    queue,          \* the kernel's queue of events
    files,          \* what the writers have made of each file
    events, stops,  \* how often the bounded events happened
    orderly,        \* history: did matching files appear one after the other, each closed
                    \* before the next was created, and was none opened again?
    completed,      \* history: files created under the watch and closed, in order
    announced,      \* history: the names that handler was called with
    stopped,        \* history: was the watch stopped, and did the stop take effect?
    late            \* history: events processed since that stop

world   == <<queue, files, events, orderly, completed>>
history == <<announced, stopped, late>>
vars == <<pc, listen, watchfiles, buffer, world, stops, history>>

PCs == {"idle", "start", "test", "enter", "poll", "intr", "events", "handler", "leaving",
        "closed", "crashed"}
\* A file is open as new if the watch saw its creation.
FileStates == {"absent", "new", "open", "closed"}
Events == [kind : {"create", "close"}, name : Files] \cup [kind : {"mkdir"}, name : Dirs]

Watched == pc \notin {"idle", "closed"}

-------------------------------------------------------------------------------
(* Helpers.  A definition named Slip... is a plausible slip in the one that *)
(* follows it: no action uses it, and each property is shown to break when *)
(* the slip takes the place of the definition.                             *)

\* A slot too many.
SlipFill(n) == [s \in 1..(Slots + 1) |-> IF s > Slots \/ watchfiles[s] = NoName
                                         THEN n ELSE watchfiles[s]]

\* Lines 303-307: the name goes into every empty slot, since nothing ends the loop.
Fill(n) == [s \in 1..Slots |-> IF watchfiles[s] = NoName THEN n ELSE watchfiles[s]]

\* Lines 317-319: the slot at which the search for a name ends, by a match or by
\* comparing with an empty slot; 0 if it ends behind the last one.
Hits(n) == {s \in 1..Slots : watchfiles[s] \in {n, NoName}}
Hit(n) == IF Hits(n) = {} THEN 0 ELSE CHOOSE s \in Hits(n) : \A t \in Hits(n) : s <= t

\* The name is freed and the slot keeps it.
SlipFreed(s) == watchfiles

\* Lines 326-327.
Freed(s) == [watchfiles EXCEPT ![s] = NoName]

Count(k) == IF stopped = "live" THEN k + 1 ELSE k

-------------------------------------------------------------------------------
Init ==
    /\ pc = "idle" /\ listen = FALSE
    /\ watchfiles = [s \in 1..Slots |-> NoName]
    /\ buffer = << >> /\ queue = << >>
    /\ files = [n \in Files \cup Dirs |-> "absent"]
    /\ events = 0 /\ stops = 0 /\ orderly = TRUE
    /\ completed = << >> /\ announced = << >>
    /\ stopped = "no" /\ late = 0

-------------------------------------------------------------------------------
(* The environment: writers of files, and the user.                        *)

\* The kernel queues an event unless it equals the last one queued.
Put(kind, n) ==
    LET e == [kind |-> kind, name |-> n] IN
    queue' = IF ~Watched \/ (queue # << >> /\ Last(queue) = e) THEN queue ELSE Append(queue, e)

Happens ==
    /\ events < MaxEvents /\ events' = events + 1
    /\ UNCHANGED <<pc, listen, watchfiles, buffer, stops, history>>

Create(n) ==
    /\ Happens /\ n \in Files /\ files[n] = "absent"
    /\ orderly' = (orderly /\ Watched /\ n \in Matching
                   /\ \A f \in Files : files[f] \in {"absent", "closed"})
    /\ files' = [files EXCEPT ![n] = IF Watched THEN "new" ELSE "open"]
    /\ Put("create", n)
    /\ UNCHANGED completed

MakeDir(n) ==
    /\ Happens /\ n \in Dirs /\ files[n] = "absent"
    /\ files' = [files EXCEPT ![n] = "closed"]
    /\ Put("mkdir", n)
    /\ UNCHANGED <<orderly, completed>>

\* A file that was written before is opened for writing again.
Reopen(n) ==
    /\ Happens /\ n \in Files /\ files[n] = "closed"
    /\ files' = [files EXCEPT ![n] = "open"]
    /\ orderly' = FALSE
    /\ UNCHANGED <<queue, completed>>

CloseWrite(n) ==
    /\ Happens /\ n \in Files /\ files[n] \in {"new", "open"}
    /\ files' = [files EXCEPT ![n] = "closed"]
    /\ Put("close", n)
    /\ completed' = IF Watched /\ files[n] = "new" /\ n \in Matching
                    THEN Append(completed, n) ELSE completed
    /\ UNCHANGED orderly

Delete(n) ==
    /\ Happens /\ n \in Files /\ files[n] = "closed"
    /\ files' = [files EXCEPT ![n] = "absent"]
    /\ UNCHANGED <<queue, orderly, completed>>

\* dirwatch_stop: the flag goes down, and a poll that waits is interrupted.  Between lines
\* 379 of tx.c and 277 of dirwatch.c the flag is still to be set.
Stop ==
    /\ pc \notin {"idle", "closed", "crashed"} /\ stops < MaxStops
    /\ listen' = FALSE
    /\ pc' = IF pc = "poll" THEN "intr" ELSE pc
    /\ stops' = stops + 1
    /\ stopped' = IF pc # "start" THEN "live" ELSE "lost"
    /\ UNCHANGED <<watchfiles, buffer, world, announced, late>>

\* While transmit_new_file transmits, the SIGINT stops the transmission and not the watch.
StopTransmission ==
    /\ pc = "handler" /\ stops < MaxStops
    /\ stops' = stops + 1
    /\ UNCHANGED <<pc, listen, watchfiles, buffer, world, history>>

-------------------------------------------------------------------------------
(* The program                                                             *)

\* tx.c, lines 369-379: the directory is watched and the SIGINT handler installed.
Watch ==
    /\ pc = "idle"
    /\ pc' = "start"
    /\ UNCHANGED <<listen, watchfiles, buffer, world, stops, history>>

SetListen ==
    /\ pc = "start"
    /\ listen' = TRUE
    /\ pc' = "test"
    /\ UNCHANGED <<watchfiles, buffer, world, stops, history>>

ContinueLoop ==
    /\ pc = "test" /\ listen
    /\ pc' = "enter"
    /\ UNCHANGED <<listen, watchfiles, buffer, world, stops, history>>

EnterPoll ==
    /\ pc = "enter"
    /\ pc' = "poll"
    /\ UNCHANGED <<listen, watchfiles, buffer, world, stops, history>>

\* The timeout is only logged.
SlipPollTimeout ==
    /\ pc = "poll" /\ HasTimeout /\ queue = << >>
    /\ pc' = "test"
    /\ UNCHANGED <<listen, watchfiles, buffer, world, stops, history>>

PollTimeout ==
    /\ pc = "poll" /\ HasTimeout /\ queue = << >>
    /\ listen' = FALSE
    /\ pc' = "test"
    /\ UNCHANGED <<watchfiles, buffer, world, stops, history>>

\* Lines 284-288: an interrupted poll is at most logged.
PollFails ==
    /\ pc = "intr"
    /\ pc' = "test"
    /\ UNCHANGED <<listen, watchfiles, buffer, world, stops, history>>

\* Lines 289-292: as many events as fit are read.
ReadEvents ==
    /\ pc = "poll" /\ queue # << >>
    /\ \E k \in 1..BufferMax :
          /\ k = BufferMax \/ k = Len(queue)
          /\ k <= Len(queue)
          /\ buffer' = SubSeq(queue, 1, k)
          /\ queue' = SubSeq(queue, k + 1, Len(queue))
    /\ pc' = "events"
    /\ UNCHANGED <<listen, watchfiles, files, events, orderly, completed, stops, history>>

\* The event at next is of this kind and about n.
At(kind, n) == pc = "events" /\ buffer # << >> /\ Head(buffer) = [kind |-> kind, name |-> n]

\* Lines 297-309.
ProcessCreate(n) ==
    /\ At("create", n) /\ n \in Matching
    /\ watchfiles' = Fill(n)
    /\ buffer' = Tail(buffer)
    /\ late' = Count(late)
    /\ UNCHANGED <<pc, listen, world, stops, announced, stopped>>

\* A directory, a name that does not match, or a close that no slot answers.
ProcessOther(n) ==
    /\ \/ At("mkdir", n)
       \/ At("create", n) /\ n \notin Matching
       \/ At("close", n) /\ Hit(n) = 0
    /\ buffer' = Tail(buffer)
    /\ late' = Count(late)
    /\ UNCHANGED <<pc, listen, watchfiles, world, stops, announced, stopped>>

\* Lines 311-324: the name is found and the handler called with it.
ProcessClose(n) ==
    /\ At("close", n) /\ Hit(n) # 0 /\ watchfiles[Hit(n)] = n
    /\ pc' = "handler"
    /\ announced' = Append(announced, n)
    /\ late' = Count(late)
    /\ UNCHANGED <<listen, watchfiles, buffer, world, stops, stopped>>

\* Line 319: the name is compared with an empty slot.
CompareNull(n) ==
    /\ At("close", n) /\ Hit(n) # 0 /\ watchfiles[Hit(n)] = NoName
    /\ pc' = "crashed"
    /\ UNCHANGED <<listen, watchfiles, buffer, world, stops, history>>

\* Lines 326-333.
HandlerReturns ==
    /\ pc = "handler"
    /\ watchfiles' = Freed(Hit(Head(buffer).name))
    /\ buffer' = Tail(buffer)
    /\ pc' = "events"
    /\ UNCHANGED <<listen, world, stops, history>>

\* Events are read for as long as there are some.
SlipEndBuffer ==
    /\ pc = "events" /\ buffer = << >>
    /\ pc' = IF queue # << >> THEN "poll" ELSE "test"
    /\ UNCHANGED <<listen, watchfiles, buffer, world, stops, history>>

EndBuffer ==
    /\ pc = "events" /\ buffer = << >>
    /\ pc' = "test"
    /\ UNCHANGED <<listen, watchfiles, buffer, world, stops, history>>

EndLoop ==
    /\ pc = "test" /\ ~listen
    /\ pc' = "leaving"
    /\ UNCHANGED <<listen, watchfiles, buffer, world, stops, history>>

\* tx.c, lines 383-385: the SIGINT handler is removed and the watcher torn down.
Close ==
    /\ pc = "leaving"
    /\ pc' = "closed"
    /\ watchfiles' = [s \in 1..Slots |-> NoName]
    /\ queue' = << >>
    /\ UNCHANGED <<listen, buffer, files, events, orderly, completed, stops, history>>

Program ==
    \/ Watch \/ SetListen \/ ContinueLoop \/ EnterPoll
    \/ PollTimeout \/ PollFails \/ ReadEvents
    \/ \E n \in Files \cup Dirs :
          ProcessCreate(n) \/ ProcessOther(n) \/ ProcessClose(n) \/ CompareNull(n)
    \/ HandlerReturns \/ EndBuffer \/ EndLoop \/ Close

Environment ==
    \/ \E n \in Files \cup Dirs :
          Create(n) \/ MakeDir(n) \/ Reopen(n) \/ CloseWrite(n) \/ Delete(n)
    \/ Stop \/ StopTransmission

Next == Program \/ Environment

Spec == Init /\ [][Next]_vars

\* The program runs by itself, a poll returns once there is something to return, and a
\* transmission begun by the handler ends.
FairSpec == Spec /\ WF_vars(Program)

-------------------------------------------------------------------------------
(* Properties                                                              *)

\* Type invariant.
TypeOK ==
    /\ pc \in PCs /\ listen \in BOOLEAN
    /\ watchfiles \in [1..Slots -> Files \cup {NoName}]
    /\ buffer \in Seq(Events) /\ Len(buffer) <= BufferMax
    /\ queue \in Seq(Events)
    /\ files \in [Files \cup Dirs -> FileStates]
    /\ events \in 0..MaxEvents /\ stops \in 0..MaxStops /\ orderly \in BOOLEAN
    /\ completed \in Seq(Files) /\ announced \in Seq(Files)
    /\ stopped \in {"no", "lost", "live"} /\ late \in Nat
    /\ pc = "handler" => buffer # << >>

\* The events whose processing is still to begin.
Ahead == (IF pc = "handler" THEN Tail(buffer) ELSE buffer) \o queue

\* The closes among these events are about these names, in this order.
ClosesAre(s, names) ==
    \E at \in [DOMAIN names -> DOMAIN s] :
        /\ \A j, k \in DOMAIN names : j < k => at[j] < at[k]
        /\ Range(at) = {i \in DOMAIN s : s[i].kind = "close"}
        /\ \A k \in DOMAIN names : s[at[k]].name = names[k]

\* As long as files appear one after the other, every file written under the watch is
\* announced once, in the order in which files were completed, or its close is still to be
\* processed; and the search for its name never compares with an empty slot, although the
\* table keeps stale names (dirwatch.c, lines 297-332).
AllAnnounced ==
    orderly => /\ pc # "crashed"
               /\ pc # "closed" =>
                     LET pending == SubSeq(completed, Len(announced) + 1, Len(completed))
                     IN  announced \o pending = completed /\ ClosesAre(Ahead, pending)

\* When all events have been processed and the watch goes on, each file completed under
\* the watch has been announced, whatever the order in which files were created and closed
\* (dirwatch.h, line 42: "Event handler is called everytime there is an event that was
\* subscribed to occurs").
QuietMeansAnnounced ==
    pc = "poll" /\ queue = << >> => \A k \in DOMAIN completed : completed[k] \in Range(announced)

\* After a stop that took effect no more events are processed than one buffer holds
\* (dirwatch.h, lines 147-148), wherever in the loop the stop struck.
StopWithinBuffer == late <= BufferMax

\* With a timeout, a watch ends once no more files appear, unless the program crashed.
WatchEnds == HasTimeout => (pc = "start" ~> pc \in {"closed", "crashed"})
===============================================================================

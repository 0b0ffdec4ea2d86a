------------------------------ MODULE TxProgram ------------------------------
(***************************************************************************)
(* The program of dxwifi/tx/tx.c above the transmitter: its command line,  *)
(* the loops over files, retransmissions, a directory and its watch, and   *)
(* SIGINT, whose disposition changes around each transmission and around   *)
(* the watch.  A transmission is what Transmission promises, and the watch *)
(* announces files as Dirwatch shows: once, in order, a buffer at a time.  *)
(*                                                                         *)
(*   parse -> setup -> install -> sending -> close -> exited      (stream) *)
(*   next -> again -> install -> sending -> delay -> again -> next (files) *)
(*   directory -> contents -> watch -> arm -> begin -> listen -> enter     *)
(*      -> poll -> events -> listen -> unarm -> close                      *)
(***************************************************************************)
EXTENDS TxCommandLine, FiniteSets, SequencesExt

CONSTANTS
    CommandLines,   \* the command lines tx is called with
    Kind,           \* of each file: "regular", "pipe", "directory" or "missing"
    DirForm,        \* of each directory's name: "plain", "trailing" or "inner" slash
    Contents,       \* what is in the directory when the program starts
    NewFiles,       \* files that are created in it later
    Matches,        \* of each filter: the files it matches
    Faults,         \* subset of {"pcap", "poll", "opendir", "watch"} that may happen
    BufferMax,      \* events that one read of the watch returns
    MaxStops,       \* bound: SIGINTs
    SentMax         \* bound: how far transmissions of a file are counted

Files == DOMAIN Kind
Directories == DOMAIN DirForm
Options == UNION {Range(line) : line \in CommandLines}

ASSUME TxAssumption ==
    /\ CommandLines \subseteq Seq(Options)
    /\ \A opt \in Options : /\ opt.key \in Keys
                            /\ opt.key = "file" => opt.value \in Files
                            /\ opt.key = "retransmit_count" => opt.value \in Int
    /\ NewFiles \subseteq {f \in Files : Kind[f] = "regular"}
    /\ Contents \subseteq Files \ NewFiles
    /\ BufferMax \in Nat \ {0} /\ MaxStops \in Nat /\ SentMax \in Nat

VARIABLES
    pc, argv, args,
    disp,           \* the disposition of SIGINT: "default", "tx" or "watch"
    saved,          \* the dispositions that sigaction handed back, innermost last
    phase, heard, outcome, whole,       \* the transmission: see Transmission
    caller,         \* who called transmit_files, or "stream"
    queue,          \* the files transmit_files has not finished
    count,          \* its retransmissions left
    state,          \* its state, or the state of transmit_directory_contents
    present,        \* what is in the directory
    entries,        \* what readdir has yet to return
    watched,        \* is the directory under watch?
    listening,      \* dirwatch_handle->listen
    announced, batch,   \* events not read, and those read and not handled
    stops,
    due,            \* history: files the watch has announced before it ended
    sent,           \* history: complete transmissions of each file
    clean,          \* history: has nothing failed or timed out, nor been stopped?
    ended, after    \* history: has this list of files met another report, and has it
                    \* begun a transmission since?

cli     == <<argv, args>>
signal  == <<disp, saved>>
engine  == <<phase, heard, outcome, whole>>
list    == <<caller, queue, count, state>>
dir     == <<present, entries, watched, listening, announced, batch>>
history == <<due, sent, clean, ended, after>>
vars    == <<pc, cli, signal, engine, list, dir, stops, history>>

Over == {"usage", "aborted", "killed", "exited"}
States == {"NORMAL", "TIMED_OUT", "DEACTIVATED", "ERROR"}

Engine == INSTANCE Transmission WITH Outcomes <- States

-------------------------------------------------------------------------------
(* Helpers.  A definition named Slip... is a plausible slip in the one that *)
(* follows it: no action uses it, and each property is shown to break when *)
(* the slip takes the place of the definition.                             *)

\* combine_path adds no slash to a name that has one anywhere.
PathResolves == args.files # << >> /\ DirForm[args.files[1]] \in {"plain", "trailing"}

InDirectory == caller \in {"contents", "watch"}

\* open(2) of a file, by the path the caller made.
Opens(f) == Kind[f] # "missing" /\ (InDirectory => PathResolves)

\* Line 268: is the file to be transmitted (again)?
SlipMoreIgnoresState == count >= 0 \/ args.retransmit_count = -1
SlipMoreByOne == count > 0 /\ state = "NORMAL"
More == (count >= 0 \/ args.retransmit_count = -1) /\ state = "NORMAL"

\* A count below zero only tells that it is used up.
Less(n) == IF n >= 0 THEN n - 1 ELSE n

\* What this transmission can report: poll times out on a stream alone.
Possible(o) ==
    /\ o = "TIMED_OUT" => caller = "stream" /\ args.transmit_timeout > 0
    /\ o = "ERROR" => "poll" \in Faults

\* A read of a directory fails each time, which passes for data: no end but a stop.
Endless == caller # "stream" /\ Kind[Head(queue)] = "directory" /\ ~heard

\* Where control goes when transmit_files returns, and after the current contents.
Return == [list |-> "close", contents |-> "contents", watch |-> "events"]
AfterContents == IF args.listen_for_new_files THEN "watch" ELSE "close"

-------------------------------------------------------------------------------
Init ==
    /\ pc = "parse" /\ argv \in CommandLines /\ args = TxDefaults
    /\ disp = "default" /\ saved = << >>
    /\ Engine!Init
    /\ caller = "none" /\ queue = << >> /\ count = 0 /\ state = "NORMAL"
    /\ present = Contents /\ entries = {} /\ watched = FALSE /\ listening = FALSE
    /\ announced = << >> /\ batch = << >>
    /\ stops = 0
    /\ due = {} /\ sent = [f \in Files |-> 0] /\ clean = TRUE /\ ended = FALSE /\ after = FALSE

-------------------------------------------------------------------------------
(* The environment: the user, and who writes files into the directory.     *)

Killed == disp = "default" /\ pc' = "killed" /\ UNCHANGED <<engine, listening>>
StopsTransmission == disp = "tx" /\ Engine!Stop /\ UNCHANGED <<pc, listening>>
StopsWatch ==
    /\ disp = "watch" /\ listening' = FALSE
    /\ pc' = IF pc = "poll" THEN "listen" ELSE pc
    /\ UNCHANGED engine

Sigint ==
    /\ pc \notin Over /\ stops < MaxStops
    /\ stops' = stops + 1
    /\ Killed \/ StopsTransmission \/ StopsWatch
    /\ UNCHANGED <<cli, signal, list, present, entries, watched, announced, batch, history>>

\* A file is created, written and closed.  readdir may return it or not when it appears
\* while the directory is read; the watch announces it when it matches.
Appear(f) ==
    /\ pc \notin Over /\ args.mode = "DIRECTORY" /\ f \notin present
    /\ present' = present \cup {f}
    /\ IF watched /\ f \in Matches[args.file_filter]
       THEN /\ announced' = Append(announced, f)
            /\ due' = IF pc \in {"arm", "begin"} \/ listening THEN due \cup {f} ELSE due
       ELSE UNCHANGED <<announced, due>>
    /\ entries' \in IF caller = "contents" THEN {entries, entries \cup {f}} ELSE {entries}
    /\ UNCHANGED <<pc, cli, signal, engine, list, watched, listening, batch, stops, sent,
                   clean, ended, after>>

-------------------------------------------------------------------------------
(* main and transmit                                                       *)

ParseOption ==
    /\ pc = "parse" /\ argv # << >>
    /\ argv' = Tail(argv)
    /\ IF Rejected(args, Head(argv)) THEN pc' = "usage" /\ UNCHANGED args
       ELSE args' = ParseOpt(args, Head(argv)) /\ UNCHANGED pc
    /\ UNCHANGED <<signal, engine, list, dir, stops, history>>

ParseLast ==
    /\ pc = "parse" /\ argv = << >>
    /\ args' = ParseEnd(args, Directories)
    /\ pc' = "setup"
    /\ UNCHANGED <<argv, signal, engine, list, dir, stops, history>>

PcapFails ==
    /\ pc = "setup" /\ "pcap" \in Faults
    /\ pc' = "aborted"
    /\ UNCHANGED <<cli, signal, engine, list, dir, stops, history>>

\* init_transmitter, then transmit: the handlers are attached and the mode is chosen.
Setup ==
    /\ pc = "setup"
    /\ pc' = CASE args.mode = "STREAM" -> "install"
               [] args.mode = "FILE" -> "next"
               [] args.mode = "DIRECTORY" -> "directory"
    /\ caller' = CASE args.mode = "STREAM" -> "stream"
                   [] args.mode = "FILE" -> "list"
                   [] args.mode = "DIRECTORY" -> "none"
    /\ queue' = IF args.mode = "FILE" THEN args.files ELSE << >>
    /\ UNCHANGED <<cli, signal, engine, count, state, dir, stops, history>>

Close ==
    /\ pc = "close"
    /\ pc' = "exited"
    /\ UNCHANGED <<cli, signal, engine, list, dir, stops, history>>

-------------------------------------------------------------------------------
(* transmit_files and setup_handlers_and_transmit                          *)

OpenFile ==
    /\ pc = "next" /\ queue # << >> /\ state = "NORMAL"
    /\ IF Opens(Head(queue))
       THEN pc' = "again" /\ count' = args.retransmit_count /\ UNCHANGED queue
       ELSE queue' = Tail(queue) /\ UNCHANGED <<pc, count>>
    /\ UNCHANGED <<cli, signal, engine, caller, state, dir, stops, history>>

EndFiles ==
    /\ pc = "next" /\ (queue = << >> \/ state # "NORMAL")
    /\ pc' = Return[caller]
    /\ caller' = IF caller = "contents" THEN caller ELSE "none"
    /\ queue' = << >>
    /\ UNCHANGED <<cli, signal, engine, count, state, dir, stops, history>>

Seek ==
    /\ pc = "again" /\ More
    /\ IF Kind[Head(queue)] = "pipe"
       THEN state' = "ERROR" /\ clean' = FALSE /\ count' = Less(count) /\ UNCHANGED pc
       ELSE pc' = "install" /\ UNCHANGED <<state, clean, count>>
    /\ UNCHANGED <<cli, signal, engine, caller, queue, dir, stops, due, sent, ended, after>>

CloseFile ==
    /\ pc = "again" /\ ~More
    /\ queue' = Tail(queue)
    /\ pc' = "next"
    /\ UNCHANGED <<cli, signal, engine, caller, count, state, dir, stops, history>>

\* Lines 218-225, up to the first instruction of start_transmission.
Install ==
    /\ pc = "install"
    /\ saved' = Append(saved, disp) /\ disp' = "tx"
    /\ Engine!Begin
    /\ after' = (after \/ ended)
    /\ pc' = "sending"
    /\ UNCHANGED <<cli, list, dir, stops, due, sent, clean, ended>>

Activate ==
    /\ pc = "sending" /\ Engine!Activate
    /\ UNCHANGED <<pc, cli, signal, list, dir, stops, history>>

\* The disposition becomes the default one, whatever it was before.
SlipRestored == "default"
Restored == Last(saved)

\* The stream may end at any time; a file, or a silence that is timed, is sure to.
Finish ==
    /\ pc = "sending" /\ Engine!Finish /\ Possible(outcome') /\ ~Endless
    /\ UNCHANGED <<pc, cli, signal, list, dir, stops, history>>
StreamEnds == caller = "stream" /\ args.transmit_timeout < 0 /\ Finish
FileEnds   == (caller # "stream" \/ args.transmit_timeout > 0) /\ Finish

\* Lines 226-229, and what transmit_files makes of the report.
Restore ==
    /\ pc = "sending" /\ Engine!End
    /\ disp' = Restored /\ saved' = Front(saved)
    /\ clean' = (clean /\ outcome = "NORMAL")
    /\ ended' = (ended \/ outcome # "NORMAL")
    /\ IF caller = "stream"
       THEN pc' = "close" /\ UNCHANGED <<state, sent>>
       ELSE /\ pc' = "delay" /\ state' = outcome
            /\ sent' = [sent EXCEPT ![Head(queue)] =
                           IF whole /\ @ < SentMax THEN @ + 1 ELSE @]
    /\ UNCHANGED <<cli, caller, queue, count, dir, stops, due, after>>

\* msleep(delay, false): a signal that has a handler only cuts it short.
Delay ==
    /\ pc = "delay"
    /\ count' = Less(count)
    /\ pc' = "again"
    /\ UNCHANGED <<cli, signal, engine, caller, queue, state, dir, stops, history>>

-------------------------------------------------------------------------------
(* transmit_directory_contents                                             *)

OpenDirectory ==
    /\ pc = "directory" /\ args.transmit_current_files
    /\ entries' = present /\ caller' = "contents" /\ state' = "NORMAL"
    /\ pc' = "contents"
    /\ UNCHANGED <<cli, signal, engine, queue, count, present, watched, listening, announced,
                   batch, stops, history>>

SkipContents ==
    /\ pc = "directory" /\ (args.transmit_current_files => "opendir" \in Faults)
    /\ clean' = ~args.transmit_current_files
    /\ pc' = AfterContents
    /\ UNCHANGED <<cli, signal, engine, list, dir, stops, due, sent, ended, after>>

Eligible(f) == f \in Matches[args.file_filter] /\ PathResolves /\ Kind[f] = "regular"

NextEntry(f) ==
    /\ pc = "contents" /\ state = "NORMAL" /\ f \in entries
    /\ entries' = entries \ {f}
    /\ IF Eligible(f) THEN queue' = <<f>> /\ pc' = "next" ELSE UNCHANGED <<queue, pc>>
    /\ UNCHANGED <<cli, signal, engine, caller, count, state, present, watched, listening,
                   announced, batch, stops, history>>

EndContents ==
    /\ pc = "contents" /\ (entries = {} \/ state # "NORMAL")
    /\ caller' = "none"
    /\ pc' = AfterContents
    /\ UNCHANGED <<cli, signal, engine, queue, count, state, dir, stops, history>>

-------------------------------------------------------------------------------
(* transmit_directory and its watch                                        *)

\* dirwatch_init asserts that it got its descriptor.
WatchFails ==
    /\ pc = "watch" /\ "watch" \in Faults
    /\ pc' = "aborted"
    /\ UNCHANGED <<cli, signal, engine, list, dir, stops, history>>

\* dirwatch_add does not look at the watch it is given: without one, nothing is announced.
AddWatch ==
    /\ pc = "watch"
    /\ watched' \in IF "watch" \in Faults THEN BOOLEAN ELSE {TRUE}
    /\ pc' = "arm"
    /\ UNCHANGED <<cli, signal, engine, list, present, entries, listening, announced, batch,
                   stops, history>>

Arm ==
    /\ pc = "arm"
    /\ saved' = Append(saved, disp) /\ disp' = "watch"
    /\ pc' = "begin"
    /\ UNCHANGED <<cli, engine, list, dir, stops, history>>

\* handle->listen = true, whatever a stop has just set it to.
BeginListen ==
    /\ pc = "begin"
    /\ listening' = TRUE
    /\ pc' = "listen"
    /\ UNCHANGED <<cli, signal, engine, list, present, entries, watched, announced, batch,
                   stops, history>>

TestListen ==
    /\ pc = "listen"
    /\ pc' = IF listening THEN "enter" ELSE "unarm"
    /\ UNCHANGED <<cli, signal, engine, list, dir, stops, history>>

EnterPoll ==
    /\ pc = "enter"
    /\ pc' = "poll"
    /\ UNCHANGED <<cli, signal, engine, list, dir, stops, history>>

WatchTimeout ==
    /\ pc = "poll" /\ announced = << >> /\ args.dirwatch_timeout >= 0
    /\ listening' = FALSE
    /\ pc' = "listen"
    /\ UNCHANGED <<cli, signal, engine, list, present, entries, watched, announced, batch,
                   stops, history>>

ReadEvents ==
    /\ pc = "poll" /\ announced # << >>
    /\ LET n == IF Len(announced) < BufferMax THEN Len(announced) ELSE BufferMax
       IN  /\ batch' = SubSeq(announced, 1, n)
           /\ announced' = SubSeq(announced, n + 1, Len(announced))
    /\ pc' = "events"
    /\ UNCHANGED <<cli, signal, engine, list, present, entries, watched, listening, stops,
                   history>>

\* The state of the transmission before this one decides whether it is begun.
SlipTransmitNewFile ==
    /\ pc = "events" /\ batch # << >>
    /\ caller' = "watch" /\ queue' = <<Head(batch)>>
    /\ batch' = Tail(batch)
    /\ ended' = FALSE
    /\ pc' = "next"
    /\ UNCHANGED <<cli, signal, engine, count, state, present, entries, watched, listening,
                   announced, stops, due, sent, clean, after>>

\* transmit_new_file: a list of one file, of which the result is dropped.
TransmitNewFile ==
    /\ pc = "events" /\ batch # << >>
    /\ caller' = "watch" /\ queue' = <<Head(batch)>> /\ state' = "NORMAL"
    /\ batch' = Tail(batch)
    /\ ended' = FALSE
    /\ pc' = "next"
    /\ UNCHANGED <<cli, signal, engine, count, present, entries, watched, listening,
                   announced, stops, due, sent, clean, after>>

EndEvents ==
    /\ pc = "events" /\ batch = << >>
    /\ pc' = "listen"
    /\ UNCHANGED <<cli, signal, engine, list, dir, stops, history>>

Unarm ==
    /\ pc = "unarm"
    /\ disp' = Restored /\ saved' = Front(saved)
    /\ watched' = FALSE
    /\ pc' = "close"
    /\ UNCHANGED <<cli, engine, list, present, entries, listening, announced, batch, stops,
                   history>>

-------------------------------------------------------------------------------
ListFiles == OpenFile \/ EndFiles \/ Seek \/ CloseFile \/ Install \/ Activate \/ FileEnds
             \/ Restore \/ Delay
ListDirectory == OpenDirectory \/ SkipContents \/ (\E f \in Files : NextEntry(f)) \/ EndContents
Watch == WatchFails \/ AddWatch \/ Arm \/ BeginListen \/ TestListen \/ EnterPoll \/ WatchTimeout
         \/ ReadEvents \/ TransmitNewFile \/ EndEvents \/ Unarm
Program == ParseOption \/ ParseLast \/ PcapFails \/ Setup \/ Close
           \/ ListFiles \/ ListDirectory \/ Watch

Environment == Sigint \/ StreamEnds \/ (\E f \in NewFiles : Appear(f))

Next == Program \/ Environment

Spec == Init /\ [][Next]_vars

\* The process is scheduled, a transmission of a file ends (TransmissionEnds of
\* Transmitter), and nothing is assumed of the user, of a stream or of other programs.
FairSpec == Spec /\ WF_vars(Program)

-------------------------------------------------------------------------------
(* Properties                                                              *)

\* Type invariant: the ranges of the variables; the files given fit their table, and the
\* dispositions nest two deep.
TypeOK ==
    /\ args.files \in Seq(Files) /\ Len(args.files) <= FileMax
    /\ disp \in {"default", "tx", "watch"} /\ saved \in Seq({"default", "watch"})
    /\ Len(saved) <= 2
    /\ phase \in Engine!Phases /\ outcome \in States
    /\ heard \in BOOLEAN /\ whole \in BOOLEAN
    /\ caller \in {"none", "stream"} \cup DOMAIN Return
    /\ queue \in Seq(Files) /\ count \in Int /\ state \in States
    /\ entries \subseteq present /\ present \subseteq Files
    /\ announced \in Seq(NewFiles) /\ batch \in Seq(NewFiles)
    /\ stops \in 0..MaxStops /\ sent \in [Files -> 0..SentMax]
    /\ \A b \in {watched, listening, clean, ended, after} : b \in BOOLEAN

\* Once a transmission has reported anything but NORMAL, its list of files is over: neither
\* a retransmission nor another file of the list or of the directory's contents is begun
\* (tx.c:259, 268, 312), while the next file of the watch may be.
NothingAfterEnd == ~after

\* SIGINT never kills the process in a transmission, which would leave it without EOTs, nor
\* in the loop of the watch: the handlers nest, and each transmission under the watch puts
\* the handler of the watch back (tx.c:224-226, 379-383).
WatchPCs == {"begin", "listen", "enter", "poll", "events"}
KilledOnlyBetween ==
    [][pc' = "killed" => phase = "idle" /\ pc \notin WatchPCs /\ caller # "watch"]_vars

\* A program that exits without having been stopped, and without a failure, has sent every
\* file it was given, that its directory held or that the watch announced, as often as it
\* was told to (counted up to the bound); a file that cannot be opened costs only itself.
\* A file that is named twice is sent twice as often, and is not spoken of.
Sendable(S) == {f \in S : Kind[f] = "regular"}
Given ==
    IF args.mode = "FILE" THEN Sendable(Range(args.files))
    ELSE due \cup (IF args.transmit_current_files
                   THEN Sendable(Contents \cap Matches[args.file_filter]) ELSE {})
EverythingSent ==
    pc = "exited" /\ args.mode # "STREAM" /\ stops = 0 /\ clean
    /\ args.retransmit_count \in 0..(SentMax - 1) /\ IsInjective(args.files)
    => \A f \in Given : sent[f] = args.retransmit_count + 1

\* A stop that finds a transmission active ends the program, also one that retransmits for
\* ever or reads a directory as if it were a file, unless a watch follows.
StopEndsProgram ==
    heard /\ (args.mode = "FILE" \/ (args.mode = "DIRECTORY" /\ ~args.listen_for_new_files))
    ~> pc \in Over

\* Every file the watch announces is transmitted in time, whatever became of the ones
\* before it and whether or not they were stopped, as long as the watch is not.
NewFileSent ==
    \A f \in NewFiles :
        f \in Range(announced) /\ args.retransmit_count >= 0
        ~> (phase # "idle" /\ queue = <<f>>) \/ (watched => ~listening)
===============================================================================

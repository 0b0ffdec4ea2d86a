------------------------------- MODULE RxProgram -------------------------------
(***************************************************************************)
(* The program of dxwifi/rx/rx.c above the receiver: its command line, the *)
(* three modes, the files that captures are written to, and SIGINT, which  *)
(* has a handler during a capture alone.  A capture is what Capture        *)
(* promises, and its file receives what it took, in the order in which it  *)
(* was taken (EveryFrameKept and OutputInOrder of Receiver).               *)
(*                                                                         *)
(*   parse -> setup -> loop -> open -> install -> capture -> loop ...      *)
(*                      +-> close -> exited                                *)
(*                                                                         *)
(* Files are numbered: 0 is stdout or the one file of file mode, and n the *)
(* n-th file of directory mode, where the first one is 0 as well.          *)
(***************************************************************************)
EXTENDS RxCommandLine, SequencesExt

CONSTANTS
    CommandLines,       \* the command lines rx is called with
    Directories,        \* the paths that are directories
    OldFiles,           \* what its files may hold when the program starts
    Faults,             \* subset of {"pcap", "open", "poll"} that may happen
    MaxStops,           \* bound: SIGINTs
    MaxFiles            \* bound: files of directory mode

ASSUME RxAssumption ==
    /\ \A file \in OldFiles : file \in Seq(Range(file))
    /\ MaxStops \in Nat /\ MaxFiles \in Nat

VARIABLES
    pc, argv, args,
    installed,          \* is the signal handler of the capture installed?
    phase, heard, boundary, taken, report,      \* the capture: see Capture
    state,              \* the last state capture_in_directory was given
    count,              \* files begun
    disk,               \* what each file holds
    old,                \* what it held when the program started
    ring,               \* frames in the kernel, not yet dispatched
    stops,
    consumed            \* history: the data frames taken, over all captures

cli   == <<argv, args>>
capture == <<phase, heard, boundary, taken, report>>
output  == <<count, disk, old>>
vars  == <<pc, cli, installed, capture, state, output, ring, stops, consumed>>

Engine == INSTANCE Capture WITH Data <- {}

Over == {"usage", "aborted", "killed", "exited"}
Numbers == 0..(MaxFiles - 1)

-------------------------------------------------------------------------------
\* The file is the number of files begun, whether or not that one could be written.
SlipFile == IF count > 1 THEN count - 2 ELSE 0
File == count - 1

\* write(2) from the end of a file, or from the start of one that is not truncated.
Write(before, data) ==
    IF args.append THEN before \o data
    ELSE data \o SubSeq(before, Len(data) + 1, Len(before))

\* Line 200: is another capture begun?
SlipMore == state # "ERROR"
More == state = "NORMAL"

-------------------------------------------------------------------------------
Init ==
    /\ pc = "parse" /\ argv \in CommandLines /\ args = RxDefaults
    /\ installed = FALSE
    /\ Engine!Init
    /\ state = "NORMAL" /\ count = 0
    /\ \E file \in OldFiles : old = [n \in Numbers |-> file]
    /\ disk = old
    /\ ring = << >> /\ stops = 0 /\ consumed = << >>

\* SIGINT: without a handler it kills the process.
Sigint ==
    /\ pc \notin Over /\ stops < MaxStops
    /\ stops' = stops + 1
    /\ IF installed THEN Engine!Stop /\ UNCHANGED pc
       ELSE pc' = "killed" /\ UNCHANGED capture
    /\ UNCHANGED <<cli, installed, state, output, ring, consumed>>

-------------------------------------------------------------------------------
(* main and receive                                                        *)

ParseOption ==
    /\ pc = "parse" /\ argv # << >>
    /\ argv' = Tail(argv)
    /\ IF Rejected(args, Head(argv)) THEN pc' = "usage" /\ UNCHANGED args
       ELSE args' = ParseOpt(args, Head(argv)) /\ UNCHANGED pc
    /\ UNCHANGED <<installed, capture, state, output, ring, stops, consumed>>

ParseLast ==
    /\ pc = "parse" /\ argv = << >>
    /\ args' = ParseEnd(args, Directories)
    /\ pc' = "setup"
    /\ UNCHANGED <<argv, installed, capture, state, output, ring, stops, consumed>>

\* init_receiver opens the device or aborts.
Setup ==
    /\ pc = "setup"
    /\ pc' \in {"loop"} \cup (IF "pcap" \in Faults THEN {"aborted"} ELSE {})
    /\ UNCHANGED <<cli, installed, capture, state, output, ring, stops, consumed>>

\* A stream and a single file are captured once, a directory while NORMAL is reported.
NextFile ==
    /\ pc = "loop" /\ count < MaxFiles
    /\ IF args.mode = "DIRECTORY" THEN More ELSE count = 0
    /\ count' = count + 1
    /\ pc' = IF args.mode = "STREAM" THEN "install" ELSE "open"
    /\ UNCHANGED <<cli, installed, capture, state, disk, old, ring, stops, consumed>>

Close ==
    /\ pc = "loop"
    /\ IF args.mode = "DIRECTORY" THEN ~More ELSE count = 1
    /\ pc' = "exited"
    /\ UNCHANGED <<cli, installed, capture, state, output, ring, stops, consumed>>

-------------------------------------------------------------------------------
(* open_file_and_capture and setup_handlers_and_capture                    *)

Open ==
    /\ pc = "open"
    /\ pc' = "install"
    /\ UNCHANGED <<cli, installed, capture, state, output, ring, stops, consumed>>

OpenFails ==
    /\ pc = "open" /\ "open" \in Faults
    /\ state' = "ERROR"
    /\ pc' = "loop"
    /\ UNCHANGED <<cli, installed, capture, output, ring, stops, consumed>>

Install ==
    /\ pc = "install"
    /\ installed' = TRUE
    /\ Engine!Begin
    /\ pc' = "capture"
    /\ UNCHANGED <<cli, state, output, ring, stops, consumed>>

Activate ==
    /\ pc = "capture" /\ Engine!Activate
    /\ UNCHANGED <<pc, cli, installed, state, output, ring, stops, consumed>>

\* A preamble is only logged.
SlipHandleFrameControl(f) == ~boundary /\ UNCHANGED capture
HandleFrameControl(f) ==
    IF f.kind = "preamble" THEN Engine!TakePreamble ELSE ~boundary /\ UNCHANGED capture

Dispatch ==
    /\ pc = "capture" /\ phase = "active" /\ ring # << >>
    /\ ring' = Tail(ring)
    /\ LET f == Head(ring)
       IN  IF f.kind = "data" THEN Engine!TakeData(f) /\ consumed' = Append(consumed, f)
           ELSE HandleFrameControl(f) /\ UNCHANGED consumed
    /\ UNCHANGED <<pc, cli, installed, state, output, stops>>

\* The buffer is flushed only when a capture was not stopped.
SlipFlush ==
    /\ pc = "capture" /\ Engine!Finish
    /\ report' = "TIMED_OUT" => ring = << >> /\ args.capture_timeout >= 0
    /\ report' = "ERROR" => "poll" \in Faults
    /\ disk' = IF heard THEN disk ELSE [disk EXCEPT ![File] = Write(@, taken)]
    /\ UNCHANGED <<pc, cli, installed, state, count, old, ring, stops, consumed>>

\* The loop ends and the buffer is flushed.
Flush ==
    /\ pc = "capture" /\ Engine!Finish
    /\ report' = "TIMED_OUT" => ring = << >> /\ args.capture_timeout >= 0
    /\ report' = "ERROR" => "poll" \in Faults
    /\ disk' = [disk EXCEPT ![File] = Write(@, taken)]
    /\ UNCHANGED <<pc, cli, installed, state, count, old, ring, stops, consumed>>

\* Line 145: the default disposition is back, and the file is closed.
Restore ==
    /\ pc = "capture" /\ Engine!End
    /\ installed' = FALSE
    /\ state' = report
    /\ pc' = "loop"
    /\ UNCHANGED <<cli, output, ring, stops, consumed>>

-------------------------------------------------------------------------------
Program == ParseOption \/ ParseLast \/ Setup \/ NextFile \/ Close \/ Open \/ OpenFails
           \/ Install \/ Activate \/ Dispatch \/ Flush \/ Restore
===============================================================================

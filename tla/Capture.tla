-------------------------------- MODULE Capture --------------------------------
(***************************************************************************)
(* What receiver_activate_capture and receiver_stop_capture promise to the *)
(* program that calls them (dxwifi/rx/rx.c) when frames are dispatched one *)
(* by one: data frames are taken until a stop, a timeout or the preamble   *)
(* that follows data, and no frame behind that preamble is taken.          *)
(* A stop before the active flag is set may leave no trace, and a stop     *)
(* need not be told from a file boundary by what is reported.              *)
(***************************************************************************)
EXTENDS Sequences

CONSTANT Data          \* data frames

VARIABLES
    phase,      \* of a capture under an installed signal handler
    heard,      \* has a stop found the capture activated?
    boundary,   \* has a preamble come after data?
    taken,      \* the data frames captured
    report      \* capture_state, once the loop has ended

Phases  == {"idle", "begun", "active", "done"}
Reports == {"NORMAL", "TIMED_OUT", "DEACTIVATED", "ERROR"}

Init == phase = "idle" /\ heard = FALSE /\ boundary = FALSE /\ taken = << >> /\ report = "NORMAL"

Begin ==
    /\ phase = "idle" /\ phase' = "begun"
    /\ heard' = FALSE /\ boundary' = FALSE /\ taken' = << >> /\ report' = "NORMAL"

\* Capturing has begun: what came before is forgotten.
Activate ==
    /\ phase = "begun" /\ phase' = "active"
    /\ UNCHANGED <<heard, boundary, taken, report>>

Stop ==
    /\ phase # "idle"
    /\ heard' = (heard \/ phase # "begun")
    /\ UNCHANGED <<phase, boundary, taken, report>>

TakeData(f) ==
    /\ phase = "active" /\ ~boundary
    /\ taken' = Append(taken, f)
    /\ UNCHANGED <<phase, heard, boundary, report>>

TakePreamble ==
    /\ phase = "active" /\ ~boundary
    /\ boundary' = (taken # << >>)
    /\ UNCHANGED <<phase, heard, taken, report>>

\* A loop that was not ended by a timeout was ended by a stop or at a file boundary.
Ends(r) ==
    /\ r = "TIMED_OUT" => ~boundary
    /\ r = "DEACTIVATED" => heard
    /\ r # "TIMED_OUT" => heard \/ boundary

Finish ==
    /\ phase = "active" /\ phase' = "done"
    /\ report' \in Reports /\ Ends(report')
    /\ UNCHANGED <<heard, boundary, taken>>

End ==
    /\ phase = "done" /\ phase' = "idle"
    /\ UNCHANGED <<heard, boundary, taken, report>>

Next == Begin \/ Activate \/ Stop \/ (\E f \in Data : TakeData(f)) \/ TakePreamble \/ Finish \/ End

Spec == Init /\ [][Next]_<<phase, heard, boundary, taken, report>>
===============================================================================

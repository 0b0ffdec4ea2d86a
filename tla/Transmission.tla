----------------------------- MODULE Transmission -----------------------------
(***************************************************************************)
(* What start_transmission and stop_transmission promise to the program    *)
(* that calls them (dxwifi/tx/tx.c), and all that TxProgram relies on: a   *)
(* stop that finds the transmission active is reported, and NORMAL stands  *)
(* for a source that was read to its end.  A stop before the active flag   *)
(* is set, or after it was last read, may leave no trace.                  *)
(***************************************************************************)
CONSTANT Outcomes       \* the states a transmission can report

VARIABLES
    phase,      \* of a transmission under an installed signal handler
    heard,      \* has a stop found this transmission active?
    outcome,    \* what the last transmission reported
    whole       \* was the source read to its end?

Phases == {"idle", "begun", "active", "done"}

Init == phase = "idle" /\ heard = FALSE /\ outcome = "NORMAL" /\ whole = FALSE

Begin ==
    /\ phase = "idle" /\ phase' = "begun"
    /\ heard' = FALSE /\ outcome' = "NORMAL" /\ whole' = FALSE

\* Transmitting has begun: what came before is forgotten.
Activate ==
    /\ phase = "begun" /\ phase' = "active"
    /\ UNCHANGED <<heard, outcome, whole>>

Stop ==
    /\ phase # "idle"
    /\ heard' = (heard \/ phase = "active")
    /\ UNCHANGED <<phase, outcome, whole>>

\* What a transmission may report, given whether it was stopped and came to the end.
Reports(o, w) ==
    /\ o = "NORMAL" => w /\ ~heard
    /\ o = "DEACTIVATED" => heard

Finish ==
    /\ phase = "active" /\ phase' = "done"
    /\ outcome' \in Outcomes /\ whole' \in BOOLEAN
    /\ Reports(outcome', whole')
    /\ UNCHANGED heard

End ==
    /\ phase = "done" /\ phase' = "idle"
    /\ UNCHANGED <<heard, outcome, whole>>

Next == Begin \/ Activate \/ Stop \/ Finish \/ End

Spec == Init /\ [][Next]_<<phase, heard, outcome, whole>>
===============================================================================

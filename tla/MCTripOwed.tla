---------------------------- MODULE MCTripOwed ------------------------------
(***************************************************************************)
(* OutputGate under an observer: a trip is owed an acknowledgement from    *)
(* the moment vFaultTripped rises until the operator's clear resets it, or *)
(* a reset restarts the firmware.                                          *)
(***************************************************************************)
EXTENDS OutputGate

VARIABLE owed

InitOwed == Init /\ owed = FALSE
NextOwed == /\ Next
            /\ owed' = IF pc' = "setup" \/ (ClearAcknowledge /\ path = "operator")
                         THEN FALSE
                         ELSE owed \/ (tripped' /\ ~tripped)
SpecOwed == InitOwed /\ [][NextOwed]_<<vars, owed>>

\* "Applying unrelated settings is never an implicit acknowledgement of a trip"
\* (clearFaultTrip): no power while a trip is still owed one.
PowerNeedsAcknowledgement == outen => ~owed
=============================================================================

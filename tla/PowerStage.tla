----------------------------- MODULE PowerStage -----------------------------
(***************************************************************************)
(* What the output gate promises to the hardware behind it, without saying *)
(* how: power (live), the presence of any latched reason to stay dark      *)
(* (blocked), and a demand to shut down that an armed path has seen.       *)
(***************************************************************************)
VARIABLES live, blocked, demand
stage == <<live, blocked, demand>>

Init == ~live /\ blocked \in BOOLEAN /\ demand \in BOOLEAN

\* Dark, or going dark: anything may change.
Shut == live' = FALSE /\ blocked' \in BOOLEAN /\ demand' \in BOOLEAN

\* Power comes on only when nothing blocks it.
Connect == ~live /\ ~blocked /\ live' = TRUE /\ UNCHANGED <<blocked, demand>>

\* Under power a demand may arrive; it cannot be withdrawn.
Raise == live /\ demand' = TRUE /\ UNCHANGED <<live, blocked>>

Next == Shut \/ Connect \/ Raise

\* The answer to a demand: dark, for a reason.
Answer == live /\ demand /\ Shut /\ blocked'

Safety == Init /\ [][Next]_stage
Spec == Safety /\ WF_stage(Answer)
=============================================================================

--------------------------- MODULE DurableRegister ---------------------------
(***************************************************************************)
(* A register that survives power loss, as the settings file should be: a  *)
(* write that is acknowledged stays; a write that is attempted and not     *)
(* acknowledged may be found, or not, by the next reader; what a reader    *)
(* has found stays.                                                        *)
(***************************************************************************)
CONSTANT Values
VARIABLES view,       \* what the running program has; 0 when it has nothing
          readable,   \* the medium answers
          committed,  \* what was last acknowledged or found, if anything
          pending     \* writes attempted since
register == <<view, readable, committed, pending>>

Init == /\ view = 0 /\ readable = FALSE
        /\ pending = {}
        /\ committed = {} \/ \E v \in Values : committed = {v}

Crash == view' = 0 /\ readable' = FALSE /\ UNCHANGED <<committed, pending>>

\* A reader finds what was committed or one of the later attempts.
Find == /\ ~readable /\ readable'
        /\ \E v \in committed \cup pending :
             view' = v /\ committed' = {v} /\ pending' = {}

\* It finds nothing only where nothing was ever committed.
FindNothing == /\ ~readable /\ readable'
               /\ committed = {} /\ view' = 0
               /\ UNCHANGED <<committed, pending>>

Edit == view' \in Values /\ UNCHANGED <<readable, committed, pending>>

Attempt == /\ readable
           /\ pending' = pending \cup {view}
           /\ UNCHANGED <<view, readable, committed>>

Acknowledge == /\ readable
               /\ committed' = {view} /\ pending' = {}
               /\ UNCHANGED <<view, readable>>

Next == Crash \/ Find \/ FindNothing \/ Edit \/ Attempt \/ Acknowledge

Spec == Init /\ [][Next]_register
=============================================================================

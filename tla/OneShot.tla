------------------------------ MODULE OneShot ------------------------------
(***************************************************************************)
(* What a sippak command promises, whatever its SIP method: set up, send   *)
(* one request, repeat it with credentials at most once, say at least one  *)
(* thing about the answer, and quit.  The modules of the commands show     *)
(* that they implement this under a refinement mapping.                    *)
(***************************************************************************)
EXTENDS Naturals

VARIABLES
    phase,      \* "setup", "waiting" (in the main loop) or "ended"
    requests,   \* requests sent so far; the second one carries credentials
    said        \* what the user was told: "answered" and/or "authFailed"

vars == <<phase, requests, said>>

Init ==
    /\ phase = "setup"
    /\ requests = 0
    /\ said = {}

SetupFails ==
    /\ phase = "setup"
    /\ phase' = "ended"
    /\ UNCHANGED <<requests, said>>

Send ==
    /\ phase = "setup"
    /\ phase' = "waiting"
    /\ requests' = 1
    /\ UNCHANGED said

Retry ==
    /\ phase = "waiting"
    /\ requests = 1
    /\ requests' = 2
    /\ UNCHANGED <<phase, said>>

Answer ==
    /\ phase = "waiting"
    /\ said' = said \cup {"answered"}
    /\ UNCHANGED <<phase, requests>>

\* Only a request that already carried credentials can fail authentication.
AuthFails ==
    /\ phase = "waiting"
    /\ requests = 2
    /\ said' = said \cup {"authFailed"}
    /\ UNCHANGED <<phase, requests>>

Quit ==
    /\ phase = "waiting"
    /\ said # {}
    /\ phase' = "ended"
    /\ UNCHANGED <<requests, said>>

Next == SetupFails \/ Send \/ Retry \/ Answer \/ AuthFails \/ Quit

Spec == Init /\ [][Next]_vars

=============================================================================

------------------------------- MODULE PatchCall -------------------------------
(***************************************************************************)
(* What update_job_status promises about the status that it updates: one   *)
(* call at a time is in progress, the status changes to what it asks for,  *)
(* if at all, before it ends, and it has when the call is answered.  Only  *)
(* a straggler that the call left behind may take effect later; and        *)
(* anybody may initialise the job again.                                   *)
(***************************************************************************)
CONSTANT Bodies         \* the statuses that calls ask for
VARIABLES status,
          calling,      \* what the call in progress asks for, or "none"
          answer,       \* what the last call was answered to have set, or "none"
          stragglers    \* what may still take effect later

patchVars == <<status, calling, answer, stragglers>>

Call == /\ calling = "none"
        /\ calling' \in Bodies
        /\ answer' = "none"
        /\ UNCHANGED <<status, stragglers>>

\* The call may or may not take effect, and may leave a straggler behind.
Attempt == /\ calling # "none"
           /\ status' \in {status, calling}
           /\ stragglers' \in {stragglers, stragglers \cup {calling}}
           /\ answer' = answer

Retry   == Attempt /\ calling' = calling
GiveUp  == Attempt /\ calling' = "none"
Succeed == /\ calling # "none"
           /\ status' = calling /\ answer' = calling
           /\ calling' = "none"
           /\ stragglers' = stragglers

Straggle == \E b \in stragglers :
                /\ status' \in {status, b}
                /\ stragglers' \in {stragglers, stragglers \ {b}}
                /\ UNCHANGED <<calling, answer>>

Initialise == /\ status' = "INITIALISED" /\ answer' = "none"
              /\ UNCHANGED <<calling, stragglers>>

PatchNext == Call \/ Retry \/ GiveUp \/ Succeed \/ Straggle \/ Initialise

PatchSpec == /\ status = "INITIALISED" /\ calling = "none" /\ answer = "none"
             /\ stragglers = {}
             /\ [][PatchNext]_patchVars
===============================================================================

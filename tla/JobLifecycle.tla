------------------------------ MODULE JobLifecycle ------------------------------
(***************************************************************************)
(* What the service promises about a job of the Status API: it is taken up *)
(* only while it is INITIALISED, it ends COMPLETED or FAILED, and what has *)
(* ended stays so until an operator initialises the job again.             *)
(***************************************************************************)
CONSTANT Jobs
VARIABLE status

Init == status = [j \in Jobs |-> "NONE"]

Set(j, from, to) == /\ status[j] \in from
                    /\ status' = [status EXCEPT ![j] = to]

Register(j) == Set(j, {"NONE"}, "INITIALISED")
TakeUp(j)   == Set(j, {"INITIALISED"}, "IN_PROGRESS")
\* A job whose claim was lost, or that was reset meanwhile, is still INITIALISED.
Finish(j)   == \E s \in {"COMPLETED", "FAILED"} :
                   Set(j, {"INITIALISED", "IN_PROGRESS"}, s)
Reset(j)    == Set(j, {"IN_PROGRESS", "COMPLETED", "FAILED"}, "INITIALISED")

Next == \E j \in Jobs : Register(j) \/ TakeUp(j) \/ Finish(j) \/ Reset(j)

Spec == Init /\ [][Next]_status
===============================================================================

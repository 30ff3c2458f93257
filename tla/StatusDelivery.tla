----------------------------- MODULE StatusDelivery -----------------------------
(***************************************************************************)
(* One job between a daemon and the Status API, request by request: the    *)
(* retry loop of SessionWithRetry under the PATCHes that claim the job and *)
(* report on it.  An attempt that fails may have been applied; one that    *)
(* timed out may still be applied long after.                              *)
(***************************************************************************)
EXTENDS Integers, FiniteSets

CONSTANTS
    Retries,    \* general.retries
    MaxResets,  \* bound on how often the job is initialised again
    Faults,     \* kinds of failed attempts, of Kinds
    MaxFaults   \* bound on their number

Kinds == {"response", "connection", "timeout", "unreadable"}

ASSUME StatusDeliveryAssumption ==
    Retries \in Nat \ {0} /\ MaxResets \in Nat /\ MaxFaults \in Nat

Terminal == {"COMPLETED", "FAILED"}
Bodies == {"IN_PROGRESS"} \cup Terminal

VARIABLES
    status,     \* of the job, in the Status API
    inflight,   \* by body, attempts that timed out and may still be applied
    pc,         \* "idle", "claim", "work", "report"
    body,       \* what the call in progress sends, or "none"
    attempt,    \* attempts that the call has made and lost
    resets, faults,
    reported,   \* history: what the last call sent, if it was answered
    failed      \* history: how many attempts failed in which way

vars == <<status, inflight, pc, body, attempt, resets, faults, reported, failed>>

NoFault == UNCHANGED <<faults, failed>>
Fault(kind) == /\ kind \in Faults /\ faults < MaxFaults
               /\ faults' = faults + 1
               /\ failed' = [failed EXCEPT ![kind] = @ + 1]

Init ==
    /\ status = "INITIALISED" /\ inflight = [b \in Bodies |-> 0]
    /\ pc = "idle" /\ body = "none" /\ attempt = 0
    /\ resets = 0 /\ faults = 0 /\ reported = "none"
    /\ failed = [k \in Kinds |-> 0]

-------------------------------------------------------------------------------
\* (Mutant: any status is good enough.)
ClaimableAny(seen) == seen # "none"
Claimable(seen) == seen = "INITIALISED"

Send(at, b) == /\ pc' = at /\ body' = b /\ attempt' = 0
               /\ reported' = "none"

\* get_job_status, whose GET changes nothing; no answer, and the job is skipped.
Look ==
    /\ pc = "idle" /\ Claimable(status)
    /\ Send("claim", "IN_PROGRESS")
    /\ NoFault
    /\ UNCHANGED <<status, inflight, resets>>

\* The playbook has run, and the outcome is reported.
Work ==
    /\ pc = "work"
    /\ \E b \in Terminal : Send("report", b)
    /\ NoFault
    /\ UNCHANGED <<status, inflight, resets>>

\* What follows a call: a ClientError is logged, and the pipeline goes on as after an
\* answer; any other exception ends the cycle.
Return(outcome) ==
    /\ pc' = IF pc = "claim" /\ outcome # "raise" THEN "work" ELSE "idle"
    /\ body' = "none" /\ attempt' = 0

\* (Mutants: one attempt less, one attempt more.)
LastAttemptEarly == attempt + 1 >= Retries - 1
LastAttemptLate == attempt + 1 > Retries
LastAttempt == attempt + 1 >= Retries

\* How the call ends whose last attempt ended in this kind of error: ClientError is
\* caught by update_job_status, TimeoutError by nobody.
GiveUpAs(kind) == IF kind = "timeout" THEN "raise" ELSE "logged"

Answered ==
    /\ body # "none"
    /\ status' = body /\ reported' = body
    /\ Return("ok")
    /\ NoFault
    /\ UNCHANGED <<inflight, resets>>

\* raise_for_status: a ClientResponseError is not retried.  (Mutant: it counts as an
\* answer.)
AfterResponseErrorOk == reported' = body
AfterResponseError == reported' = "none"

ResponseError ==
    /\ body # "none"
    /\ Fault("response")
    /\ status' \in {status, body}
    /\ AfterResponseError
    /\ Return("logged")
    /\ UNCHANGED <<inflight, resets>>

\* The answer to an update that was applied cannot be decoded: an exception that
\* nobody catches.
UnreadableAnswer ==
    /\ body # "none"
    /\ Fault("unreadable")
    /\ status' = body /\ reported' = "none"
    /\ Return("raise")
    /\ UNCHANGED <<inflight, resets>>

\* A lost connection or a timeout: again after a while, or give up.
SocketError(kind) ==
    /\ body # "none"
    /\ Fault(kind)
    /\ \/ status' = body /\ inflight' = inflight
       \/ status' = status /\ inflight' = inflight
       \/ /\ kind = "timeout"
          /\ status' = status /\ inflight' = [inflight EXCEPT ![body] = @ + 1]
    /\ IF LastAttempt
       THEN Return(GiveUpAs(kind))
       ELSE /\ attempt' = attempt + 1
            /\ UNCHANGED <<pc, body>>
    /\ UNCHANGED <<resets, reported>>

-------------------------------------------------------------------------------
\* An attempt that the client has given up on is applied after all, or never.
Late(b) ==
    /\ inflight[b] > 0
    /\ inflight' = [inflight EXCEPT ![b] = @ - 1]
    /\ status' \in {status, b}
    /\ NoFault
    /\ UNCHANGED <<pc, body, attempt, resets, reported>>

\* The operator initialises the job again.
Reset ==
    /\ resets < MaxResets /\ status # "INITIALISED"
    /\ status' = "INITIALISED" /\ reported' = "none"
    /\ resets' = resets + 1
    /\ NoFault
    /\ UNCHANGED <<inflight, pc, body, attempt>>

Next == \/ Look \/ Work \/ Answered \/ ResponseError \/ UnreadableAnswer
        \/ SocketError("connection") \/ SocketError("timeout")
        \/ (\E b \in Bodies : Late(b)) \/ Reset

Spec == Init /\ [][Next]_vars

-------------------------------------------------------------------------------
\* Types: a call makes at most general.retries attempts.
TypeOK ==
    /\ status \in {"INITIALISED"} \cup Bodies
    /\ inflight \in [Bodies -> 0..MaxFaults]
    /\ pc \in {"idle", "claim", "work", "report"}
    /\ body \in {"none"} \cup Bodies
    /\ attempt \in 0..(Retries - 1)
    /\ resets \in 0..MaxResets /\ faults \in 0..MaxFaults
    /\ reported \in {"none"} \cup Bodies
    /\ failed \in [Kinds -> 0..MaxFaults]

Patch == INSTANCE PatchCall WITH
    calling <- body, answer <- reported,
    stragglers <- {b \in Bodies : inflight[b] > 0}

\* An update takes effect during its call, once or several times, and never after it
\* unless an attempt of it timed out; a call that succeeds has taken effect.
ImplementsPatchCall == Patch!PatchSpec

\* A job goes back from a final status to IN_PROGRESS only after a timeout: by the
\* late claim itself, or because a late report came between a look and a claim.
FinalIsFinal ==
    [][(status \in Terminal /\ status' = "IN_PROGRESS") => failed["timeout"] > 0]_vars

\* Fewer connection errors than general.retries lose no update: the job is left
\* IN_PROGRESS only by a timeout, by an answer that is an error or cannot be read, or
\* when they are that many.
RetriesMaskErrors ==
    pc = "idle" /\ status = "IN_PROGRESS" =>
        \/ \E k \in Kinds \ {"connection"} : failed[k] > 0
        \/ failed["connection"] >= Retries

\* What the last call was told to be in place is in place, as long as nothing that
\* timed out is still to come or has come since.
AcknowledgedStays ==
    reported # "none" /\ failed["timeout"] = 0 => status = reported
===============================================================================

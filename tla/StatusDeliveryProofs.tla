-------------------------- MODULE StatusDeliveryProofs --------------------------
(***************************************************************************)
(* The retries under a status update, for any number of retries, faults    *)
(* and initialisations.                                                    *)
(***************************************************************************)
EXTENDS StatusDelivery, TLAPS

\* What can come late has timed out, and no attempt is lost without an error.
Counted ==
    /\ \A k \in Kinds : failed[k] <= faults
    /\ \A b \in Bodies : inflight[b] <= failed["timeout"]
    /\ attempt <= failed["connection"] + failed["timeout"]

\* A call sends what its place in the pipeline sends, and nothing is reported before
\* it is answered.
Calling ==
    /\ pc = "claim"  => body = "IN_PROGRESS"
    /\ pc = "report" => body \in Terminal
    /\ pc \in {"idle", "work"} => body = "none"
    /\ body # "none" => reported = "none"

TypeInv == TypeOK /\ Counted /\ Calling

\* Before anything times out: nobody claims a job in a final status, only errors leave
\* a job claimed, and what was answered is in place.
Punctual ==
    failed["timeout"] = 0 =>
        /\ pc = "claim" => status \notin Terminal
        /\ pc = "idle" /\ status = "IN_PROGRESS" =>
               \/ failed["response"] > 0 \/ failed["unreadable"] > 0
               \/ failed["connection"] >= Retries
        /\ reported # "none" => status = reported

DeliveryInv == TypeInv /\ Punctual

-------------------------------------------------------------------------------
LEMMA BodyTypes == /\ "none" \notin Bodies /\ "INITIALISED" \notin Bodies
                   /\ "IN_PROGRESS" \in Bodies /\ Terminal \subseteq Bodies
                   /\ "IN_PROGRESS" \notin Terminal /\ "INITIALISED" \notin Terminal
BY DEF Bodies, Terminal

LEMMA FaultEffect ==
    ASSUME TypeInv, NEW kind \in Kinds, Fault(kind)
    PROVE  /\ faults' = faults + 1 /\ faults' \in 0..MaxFaults
           /\ failed'[kind] = failed[kind] + 1 /\ failed'[kind] > 0
           /\ \A k \in Kinds : k # kind => failed'[k] = failed[k]
           /\ \A k \in Kinds : failed'[k] <= faults' /\ failed[k] \in Nat
           /\ failed' \in [Kinds -> 0..MaxFaults]
<1>1. /\ faults' = faults + 1 /\ faults' \in 0..MaxFaults
      /\ failed' = [failed EXCEPT ![kind] = @ + 1]
      /\ failed \in [Kinds -> 0..MaxFaults]
  BY StatusDeliveryAssumption DEF TypeInv, TypeOK, Fault, Kinds
<1>2. /\ \A k \in Kinds : failed[k] \in Nat /\ failed[k] <= faults
      /\ faults \in Nat
  BY DEF TypeInv, TypeOK, Counted, Kinds
<1>3. /\ failed'[kind] = failed[kind] + 1
      /\ \A k \in Kinds : k # kind => failed'[k] = failed[k]
      /\ failed' = [k \in Kinds |-> failed'[k]]
  BY <1>1
<1>4. \A k \in Kinds : failed'[k] <= faults' /\ failed'[k] \in Nat
  BY <1>1, <1>2, <1>3
<1>5. \A k \in Kinds : failed'[k] \in 0..MaxFaults
  BY <1>1, <1>4, StatusDeliveryAssumption
<1> QED BY <1>1, <1>2, <1>3, <1>4, <1>5

\* An attempt whose connection is lost: what it does to the status and what it leaves.
LEMMA SocketErrorEffect ==
    ASSUME TypeInv, NEW kind \in {"connection", "timeout"}, SocketError(kind)
    PROVE  /\ body \in Bodies /\ pc \in {"claim", "report"}
           /\ Fault(kind) /\ status' \in {status, body} /\ status' \in {"INITIALISED"} \cup Bodies
           /\ inflight' \in [Bodies -> Nat]
           /\ \A b \in Bodies : inflight'[b] <= failed'["timeout"]
           /\ \A b \in Bodies : inflight'[b] # inflight[b] =>
                  kind = "timeout" /\ b = body /\ inflight'[b] > 0
           /\ \/ /\ LastAttempt /\ body' = "none" /\ attempt' = 0
                 /\ \/ pc = "claim" /\ kind = "connection" /\ pc' = "work"
                    \/ pc = "claim" /\ kind = "timeout" /\ pc' = "idle"
                    \/ pc = "report" /\ pc' = "idle"
              \/ /\ ~LastAttempt /\ attempt' = attempt + 1
                 /\ UNCHANGED <<pc, body>>
           /\ UNCHANGED <<resets, reported>>
<1>1. /\ body \in Bodies /\ pc \in {"claim", "report"}
      /\ Fault(kind) /\ status' \in {status, body} /\ UNCHANGED <<resets, reported>>
      /\ status' \in {"INITIALISED"} \cup Bodies
  BY DEF SocketError, TypeInv, TypeOK, Calling
<1>2. \/ inflight' = inflight
      \/ kind = "timeout" /\ inflight' = [inflight EXCEPT ![body] = @ + 1]
  BY DEF SocketError
<1>3. /\ inflight \in [Bodies -> Nat]
      /\ \A b \in Bodies : inflight[b] <= failed["timeout"]
      /\ failed["timeout"] \in Nat
  BY DEF TypeInv, TypeOK, Counted, Kinds
<1>4. /\ kind = "timeout" => failed'["timeout"] = failed["timeout"] + 1
      /\ kind # "timeout" => failed'["timeout"] = failed["timeout"]
  BY <1>1, FaultEffect DEF Kinds
<1>5. /\ inflight' \in [Bodies -> Nat]
      /\ \A b \in Bodies : inflight'[b] <= failed'["timeout"]
      /\ \A b \in Bodies : inflight'[b] # inflight[b] =>
             kind = "timeout" /\ b = body /\ inflight'[b] > 0
  BY <1>1, <1>2, <1>3, <1>4
<1>6. \/ /\ LastAttempt /\ body' = "none" /\ attempt' = 0
         /\ \/ pc = "claim" /\ kind = "connection" /\ pc' = "work"
            \/ pc = "claim" /\ kind = "timeout" /\ pc' = "idle"
            \/ pc = "report" /\ pc' = "idle"
      \/ /\ ~LastAttempt /\ attempt' = attempt + 1
         /\ UNCHANGED <<pc, body>>
  <2>1. \/ LastAttempt /\ Return(GiveUpAs(kind))
        \/ ~LastAttempt /\ attempt' = attempt + 1 /\ UNCHANGED <<pc, body>>
    BY DEF SocketError
  <2> QED BY <1>1, <2>1 DEF Return, GiveUpAs
<1> QED BY <1>1, <1>5, <1>6

\* One that is answered with an error, and one that arrives when nobody waits for it.
LEMMA ResponseErrorEffect ==
    ASSUME TypeInv, ResponseError
    PROVE  /\ body \in Bodies /\ pc \in {"claim", "report"}
           /\ Fault("response") /\ status' \in {status, body}
           /\ status' \in {"INITIALISED"} \cup Bodies
           /\ reported' = "none" /\ body' = "none" /\ attempt' = 0
           /\ pc' = IF pc = "claim" THEN "work" ELSE "idle"
           /\ UNCHANGED <<inflight, resets>>
BY DEF ResponseError, AfterResponseError, Return, TypeInv, TypeOK, Calling

LEMMA UnreadableAnswerEffect ==
    ASSUME TypeInv, UnreadableAnswer
    PROVE  /\ body \in Bodies /\ pc \in {"claim", "report"}
           /\ Fault("unreadable") /\ status' = body
           /\ reported' = "none" /\ body' = "none" /\ attempt' = 0 /\ pc' = "idle"
           /\ UNCHANGED <<inflight, resets>>
BY DEF UnreadableAnswer, Return, TypeInv, TypeOK, Calling

LEMMA LateEffect ==
    ASSUME TypeInv, NEW b \in Bodies, Late(b)
    PROVE  /\ failed["timeout"] > 0 /\ inflight[b] > 0
           /\ status' \in {status, b} /\ status' \in {"INITIALISED"} \cup Bodies
           /\ inflight' \in [Bodies -> Nat]
           /\ inflight'[b] = inflight[b] - 1
           /\ \A c \in Bodies : inflight'[c] <= inflight[c] /\ (c # b => inflight'[c] = inflight[c])
           /\ UNCHANGED <<pc, body, attempt, resets, reported, faults, failed>>
BY DEF Late, NoFault, TypeInv, TypeOK, Counted, Kinds

-------------------------------------------------------------------------------
LEMMA NextTypeInv == TypeInv /\ [Next]_vars => TypeInv'
<1> SUFFICES ASSUME TypeInv, [Next]_vars PROVE TypeInv'
  OBVIOUS
<1> USE BodyTypes, StatusDeliveryAssumption
<1>0. /\ faults \in 0..MaxFaults /\ attempt \in 0..(Retries - 1) /\ resets \in 0..MaxResets
      /\ failed["timeout"] \in Nat /\ failed["connection"] \in Nat
      /\ failed["timeout"] <= faults
      /\ attempt <= failed["connection"] + failed["timeout"]
  BY DEF TypeInv, TypeOK, Counted, Kinds
<1>1. CASE UNCHANGED vars
  BY <1>1 DEF vars, TypeInv, TypeOK, Counted, Calling
<1>2. CASE Look
  BY <1>0, <1>2 DEF Look, Send, NoFault, TypeInv, TypeOK, Counted, Calling
<1>3. CASE Work
  BY <1>0, <1>3 DEF Work, Send, NoFault, TypeInv, TypeOK, Counted, Calling
<1>4. CASE Answered
  BY <1>0, <1>4 DEF Answered, Return, NoFault, TypeInv, TypeOK, Counted, Calling
<1>5. CASE ResponseError
  <2>1. Fault("response") /\ inflight' = inflight
    BY <1>5, ResponseErrorEffect
  <2>2. Counted'
    BY <1>0, <1>5, <2>1, ResponseErrorEffect, FaultEffect DEF TypeInv, Counted, Kinds
  <2>3. TypeOK'
    BY <1>0, <1>5, <2>1, ResponseErrorEffect, FaultEffect DEF TypeInv, TypeOK, Kinds
  <2> QED BY <1>5, <2>2, <2>3, ResponseErrorEffect DEF TypeInv, Calling
<1>6. ASSUME NEW kind \in {"connection", "timeout"}, SocketError(kind) PROVE TypeInv'
  <2>1. /\ Fault(kind) /\ faults' \in 0..MaxFaults
        /\ failed' \in [Kinds -> 0..MaxFaults]
        /\ \A k \in Kinds : failed'[k] <= faults' /\ failed'[k] \in Nat
        /\ failed'["connection"] + failed'["timeout"] =
               failed["connection"] + failed["timeout"] + 1
    BY <1>6, SocketErrorEffect, FaultEffect DEF Kinds
  <2>2. /\ attempt' \in 0..(Retries - 1)
        /\ attempt' <= failed'["connection"] + failed'["timeout"]
    BY <1>0, <1>6, <2>1, SocketErrorEffect DEF LastAttempt, Kinds
  <2>3. Counted'
    BY <1>6, <2>1, <2>2, SocketErrorEffect DEF Counted
  <2>4. inflight' \in [Bodies -> 0..MaxFaults]
    <3>1. \A b \in Bodies : inflight'[b] \in 0..MaxFaults
      BY <1>6, <2>1, SocketErrorEffect DEF Kinds
    <3> QED BY <1>6, <3>1, SocketErrorEffect
  <2>5. TypeOK'
    BY <1>0, <1>6, <2>1, <2>2, <2>4, SocketErrorEffect DEF TypeInv, TypeOK, Kinds
  <2>6. Calling'
    BY <1>6, SocketErrorEffect DEF TypeInv, Calling
  <2> QED BY <2>3, <2>5, <2>6 DEF TypeInv
<1>7. ASSUME NEW b \in Bodies, Late(b) PROVE TypeInv'
  <2>1. inflight' \in [Bodies -> 0..MaxFaults]
    <3>1. \A c \in Bodies : inflight'[c] \in 0..MaxFaults
      BY <1>7, LateEffect DEF TypeInv, TypeOK
    <3> QED BY <1>7, <3>1, LateEffect
  <2>2. TypeOK'
    BY <1>7, <2>1, LateEffect DEF TypeInv, TypeOK
  <2>3. Counted'
    BY <1>0, <1>7, <2>1, LateEffect DEF TypeInv, TypeOK, Counted
  <2> QED BY <1>7, <2>2, <2>3, LateEffect DEF TypeInv, Calling
<1>8. CASE Reset
  BY <1>0, <1>8 DEF Reset, NoFault, TypeInv, TypeOK, Counted, Calling
<1>9. CASE UnreadableAnswer
  <2>1. Fault("unreadable") /\ inflight' = inflight
    BY <1>9, UnreadableAnswerEffect
  <2>2. Counted'
    BY <1>0, <1>9, <2>1, UnreadableAnswerEffect, FaultEffect DEF TypeInv, Counted, Kinds
  <2>3. TypeOK'
    BY <1>0, <1>9, <2>1, UnreadableAnswerEffect, FaultEffect DEF TypeInv, TypeOK, Kinds
  <2> QED BY <1>9, <2>2, <2>3, UnreadableAnswerEffect DEF TypeInv, Calling
<1> QED BY <1>1, <1>2, <1>3, <1>4, <1>5, <1>6, <1>7, <1>8, <1>9 DEF Next

LEMMA NextPunctual == DeliveryInv /\ [Next]_vars => Punctual'
<1> SUFFICES ASSUME TypeInv, Punctual, [Next]_vars, failed'["timeout"] = 0 PROVE Punctual'
  BY DEF DeliveryInv, Punctual
<1> USE BodyTypes
<1>1. CASE UNCHANGED vars
  BY <1>1 DEF vars, Punctual
<1>2. CASE Look \/ Work \/ Reset
  BY <1>2 DEF Look, Work, Reset, Claimable, Send, NoFault, Punctual, Terminal
<1>3. CASE Answered
  BY <1>3 DEF Answered, Return, NoFault, Punctual, TypeInv, TypeOK, Calling, Terminal
<1>4. CASE ResponseError
  BY <1>4, ResponseErrorEffect, FaultEffect DEF Punctual, Kinds
<1>5. ASSUME NEW kind \in {"connection", "timeout"}, SocketError(kind) PROVE Punctual'
  <2>1. kind = "connection" /\ failed["timeout"] = 0
    BY <1>5, SocketErrorEffect, FaultEffect DEF Kinds
  <2>2. /\ failed'["connection"] = failed["connection"] + 1
        /\ attempt <= failed["connection"] /\ failed["connection"] \in Nat
        /\ attempt \in Nat /\ reported' = "none"
    BY <1>5, <2>1, SocketErrorEffect, FaultEffect
       DEF Kinds, TypeInv, TypeOK, Counted, Calling
  <2>3. LastAttempt => failed'["connection"] >= Retries
    BY <2>2, StatusDeliveryAssumption DEF LastAttempt
  <2>4. pc' = "claim" => pc = "claim" /\ body = "IN_PROGRESS"
    BY <1>5, SocketErrorEffect DEF TypeInv, Calling
  <2>5. pc' = "idle" => LastAttempt
    BY <1>5, SocketErrorEffect
  <2> QED BY <1>5, <2>1, <2>2, <2>3, <2>4, <2>5, SocketErrorEffect DEF Punctual
<1>6. ASSUME NEW b \in Bodies, Late(b) PROVE FALSE
  BY <1>6, LateEffect
<1>7. CASE UnreadableAnswer
  BY <1>7, UnreadableAnswerEffect, FaultEffect DEF Punctual, Kinds
<1> QED BY <1>1, <1>2, <1>3, <1>4, <1>5, <1>6, <1>7 DEF Next

LEMMA InitDeliveryInv == Init => DeliveryInv
BY StatusDeliveryAssumption, BodyTypes
   DEF Init, DeliveryInv, TypeInv, TypeOK, Counted, Calling, Punctual, Kinds

LEMMA DeliveryInvHolds == Spec => []DeliveryInv
<1>1. DeliveryInv /\ [Next]_vars => DeliveryInv'
  BY NextTypeInv, NextPunctual DEF DeliveryInv
<1> QED BY <1>1, InitDeliveryInv, PTL DEF Spec

-------------------------------------------------------------------------------
\* update_job_status makes at most general.retries attempts per call, and no more of
\* them are late than have timed out.
THEOREM DeliveryTypes == Spec => []TypeOK
<1>1. DeliveryInv => TypeOK
  BY DEF DeliveryInv, TypeInv
<1> QED BY <1>1, DeliveryInvHolds, PTL

\* Fewer connection errors than general.retries leave no job IN_PROGRESS, for any
\* number of retries: the attempts lost in a call are never more than the errors.
THEOREM RetriesMask == Spec => []RetriesMaskErrors
<1>1. DeliveryInv => RetriesMaskErrors
  BY DEF DeliveryInv, TypeInv, TypeOK, Punctual, RetriesMaskErrors, Kinds
<1> QED BY <1>1, DeliveryInvHolds, PTL

\* What the Status API has answered is in place until the next call, as long as
\* nothing timed out.
THEOREM AnswersHold == Spec => []AcknowledgedStays
<1>1. DeliveryInv => AcknowledgedStays
  BY DEF DeliveryInv, Punctual, AcknowledgedStays
<1> QED BY <1>1, DeliveryInvHolds, PTL

\* Without a timeout no job goes back from a final status to IN_PROGRESS: a claim is
\* sent for an INITIALISED job only, and nothing of it comes after its call.
THEOREM NoWayBack == Spec => FinalIsFinal
<1>1. ASSUME DeliveryInv, Next, status \in Terminal, status' = "IN_PROGRESS"
      PROVE  failed["timeout"] > 0
  <2>1. CASE body = "IN_PROGRESS"
    BY <1>1, <2>1, StatusDeliveryAssumption
       DEF DeliveryInv, TypeInv, TypeOK, Calling, Punctual, Terminal, Bodies, Kinds
  <2>2. ASSUME NEW b \in Bodies, Late(b) PROVE failed["timeout"] > 0
    BY <1>1, <2>2, LateEffect DEF DeliveryInv
  <2>3. ~Look /\ ~Work /\ ~Reset
    BY <1>1 DEF Look, Work, Reset, Terminal
  <2>4. Answered \/ ResponseError \/ UnreadableAnswer \/ SocketError("connection") \/ SocketError("timeout") =>
            status' \in {status, body}
    BY DEF Answered, ResponseError, UnreadableAnswer, SocketError
  <2> QED BY <1>1, <2>1, <2>2, <2>3, <2>4 DEF Next, Terminal
<1>2. DeliveryInv /\ [Next]_vars =>
          [(status \in Terminal /\ status' = "IN_PROGRESS") => failed["timeout"] > 0]_vars
  BY <1>1
<1> QED BY <1>2, DeliveryInvHolds, PTL DEF Spec, FinalIsFinal

-------------------------------------------------------------------------------
Stragglers == {b \in Bodies : inflight[b] > 0}

LEMMA StepIsPatchStep ==
    ASSUME TypeInv, [Next]_vars
    PROVE  [Patch!PatchNext]_(Patch!patchVars)
<1>0. /\ body \in {"none"} \cup Bodies /\ "none" \notin Bodies
      /\ \A b \in Bodies : inflight[b] \in Nat
      /\ body # "none" => reported = "none"
  BY BodyTypes DEF TypeInv, TypeOK, Calling
<1>1. CASE UNCHANGED vars
  BY <1>1 DEF vars, Patch!patchVars
<1>2. CASE Look \/ Work
  <2>1. /\ body = "none" /\ body' \in Bodies /\ reported' = "none"
        /\ UNCHANGED <<status, inflight>>
    BY <1>2, BodyTypes DEF Look, Work, Send, TypeInv, Calling
  <2> QED BY <2>1 DEF Patch!PatchNext, Patch!Call
<1>3. CASE Answered
  BY <1>3 DEF Answered, Return, Patch!PatchNext, Patch!Succeed
<1>4. CASE ResponseError
  <2>1. Patch!GiveUp
    BY <1>0, <1>4, ResponseErrorEffect DEF Patch!GiveUp, Patch!Attempt
  <2> QED BY <2>1 DEF Patch!PatchNext
<1>5. ASSUME NEW kind \in {"connection", "timeout"}, SocketError(kind)
      PROVE  Patch!Retry \/ Patch!GiveUp
  <2>1. /\ body # "none" /\ status' \in {status, body} /\ reported' = reported
        /\ body' \in {body, "none"}
    BY <1>0, <1>5, SocketErrorEffect
  <2>2. Stragglers' \in {Stragglers, Stragglers \cup {body}}
    <3>1. \A b \in Bodies : inflight'[b] # inflight[b] => b = body /\ inflight'[b] > 0
      BY <1>5, SocketErrorEffect
    <3> QED BY <3>1 DEF Stragglers
  <2> QED BY <2>1, <2>2 DEF Stragglers, Patch!Retry, Patch!GiveUp, Patch!Attempt
<1>6. ASSUME NEW b \in Bodies, Late(b) PROVE Patch!Straggle
  <2>1. /\ b \in Stragglers /\ status' \in {status, b} /\ UNCHANGED <<body, reported>>
        /\ \A c \in Bodies : inflight'[c] <= inflight[c] /\ (c # b => inflight'[c] = inflight[c])
    BY <1>6, LateEffect DEF Stragglers
  <2>2. Stragglers' \in {Stragglers, Stragglers \ {b}}
    BY <2>1 DEF Stragglers
  <2> QED BY <2>1, <2>2 DEF Stragglers, Patch!Straggle
<1>7. CASE Reset
  BY <1>7 DEF Reset, Patch!PatchNext, Patch!Initialise
<1>8. CASE UnreadableAnswer
  <2>1. Patch!GiveUp
    BY <1>0, <1>8, UnreadableAnswerEffect DEF Patch!GiveUp, Patch!Attempt
  <2> QED BY <2>1 DEF Patch!PatchNext
<1> QED BY <1>1, <1>2, <1>3, <1>4, <1>5, <1>6, <1>7, <1>8 DEF Next, Patch!PatchNext

\* The retry loop implements the promise of one PATCH: an update takes effect during
\* its call, or as a straggler that timed out, and a call that succeeds has taken effect.
THEOREM RetriesImplementPatchCall == Spec => ImplementsPatchCall
<1>1. Init => /\ status = "INITIALISED" /\ body = "none" /\ reported = "none"
              /\ {b \in Bodies : inflight[b] > 0} = {}
  BY DEF Init
<1>2. DeliveryInv /\ [Next]_vars => [Patch!PatchNext]_(Patch!patchVars)
  BY StepIsPatchStep DEF DeliveryInv
<1> QED BY <1>1, <1>2, DeliveryInvHolds, PTL
        DEF Spec, ImplementsPatchCall, Patch!PatchSpec
===============================================================================

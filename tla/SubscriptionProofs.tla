--------------------------- MODULE SubscriptionProofs ---------------------------
(***************************************************************************)
(* The AMS subscription, for any number of daemons and commands and for    *)
(* every pull size, offset and bound.                                      *)
(***************************************************************************)
EXTENDS Subscription, TLAPS

Places == {"exited", "offsets", "modify", "print", "pull", "handle"}
Ackers == Modes \cup {"nobody", "operator", "purge"}

\* Who has pulled is about to handle it; with automation.tenants set only pipelines do.
Holding ==
    \A p \in Procs :
        /\ pc[p] # "handle" => ams_events[p] = {}
        /\ Managed /\ pc[p] \in {"pull", "handle"} => mode[p] = "pipeline"
        /\ pc[p] \in {"offsets", "modify", "print"} => p \in Commands
        /\ p \in Daemons => mode[p] = "pipeline"

TypeInv == TypeOK /\ Holding

\* Without ack the subscription stays at its start, and everybody sees its first
\* messages only.
AtStart ==
    ~ack /\ ~moved /\ min = 0 =>
        /\ offset = 0
        /\ handled \subseteq 1..PullMsgs
        /\ \A p \in Procs : ams_events[p] \subseteq 1..PullMsgs

\* What a command is about to set is what it was asked to skip ahead, or less: the
\* offset only grows meanwhile.
Ahead ==
    \A p \in Procs : pc[p] = "modify" => new_offset[p] - offset <= Max({0, delta[p]})

SubscriptionInv == TypeInv /\ NothingSkipped /\ AtStart

-------------------------------------------------------------------------------
LEMMA MaxOfTwo ==
    ASSUME NEW a \in Int, NEW b \in Int
    PROVE  Max({a, b}) = IF a >= b THEN a ELSE b
BY DEF Max

LEMMA MinOfTwo ==
    ASSUME NEW a \in Int, NEW b \in Int
    PROVE  Min({a, b}) = IF a <= b THEN a ELSE b
BY DEF Min

LEMMA GotoEffect ==
    ASSUME TypeOK, NEW p \in Procs, NEW l \in Places, Goto(p, l)
    PROVE  /\ pc' \in [Procs -> Places] /\ pc'[p] = l
           /\ mode' \in [Procs -> Modes] /\ add' \in [Procs -> BOOLEAN]
           /\ delta' \in [Procs -> Deltas \cup {0}]
           /\ \A q \in Procs : q # p => /\ pc'[q] = pc[q] /\ mode'[q] = mode[q]
                                        /\ delta'[q] = delta[q]
           /\ l # "exited" => mode' = mode /\ delta' = delta
           /\ mode'[p] \in {mode[p], "pipeline"}
<1>1. "pipeline" \in Modes
  BY DEF Modes
<1>2. pc' \in [Procs -> Places] /\ pc'[p] = l /\ \A q \in Procs : q # p => pc'[q] = pc[q]
  BY DEF Goto, TypeOK, Places
<1>3. CASE l = "exited"
  <2>1. /\ mode'  = [mode  EXCEPT ![p] = "pipeline"]
        /\ delta' = [delta EXCEPT ![p] = 0]
        /\ add'   = [add   EXCEPT ![p] = FALSE]
    BY <1>3 DEF Goto
  <2>2. add' \in [Procs -> BOOLEAN]
    BY <2>1 DEF TypeOK
  <2> QED BY <1>1, <1>2, <1>3, <2>1, <2>2 DEF TypeOK
<1>4. CASE l # "exited"
  BY <1>2, <1>4 DEF Goto, TypeOK, options
<1> QED BY <1>3, <1>4

\* The offset moves over messages, whose acker is then known.
LEMMA AdvanceEffect ==
    ASSUME TypeOK, NEW to, NEW who \in Ackers, Advance(to, who)
    PROVE  /\ offset' = to
           /\ acker' \in [1..MaxPublished -> Ackers]
           /\ \A i \in 1..MaxPublished :
                  acker'[i] = IF i \in (offset + 1)..to THEN who ELSE acker[i]
BY DEF Advance, TypeOK, Ackers

\* The last message of a pull.
LEMMA LastPulled ==
    ASSUME TypeOK, NEW last, last = Min({offset + PullMsgs, Len(topic)})
    PROVE  /\ last \in offset..Len(topic) /\ last <= offset + PullMsgs
           /\ offset \in Nat /\ Len(topic) \in Nat /\ Len(topic) <= MaxPublished
<1>1. /\ offset \in Nat /\ Len(topic) \in Nat /\ offset <= Len(topic)
      /\ Len(topic) <= MaxPublished /\ PullMsgs \in Nat
  BY SubscriptionAssumption DEF TypeOK
<1> QED BY <1>1, MinOfTwo

-------------------------------------------------------------------------------
\* What a process sends, pulls or handles, by what the invariants ask of it.
LEMMA PullEffect ==
    ASSUME TypeInv, NEW p \in Procs, PullMessages(p)
    PROVE  \E last \in offset..Len(topic) : \E matched \in SUBSET ((offset + 1)..last) :
               /\ pc[p] = "pull" /\ last <= offset + PullMsgs
               /\ \A i \in (offset + 1)..last : topic[i] = "event" => i \in matched
               /\ Advance(AckedUpTo(last), mode[p])
               /\ AckedUpTo(last) \in offset..last
               /\ \/ /\ lost' = lost \cup matched
                     /\ Goto(p, Resting(p)) /\ ams_events' = ams_events
                  \/ /\ Kept(p, matched) = {} /\ lost' = lost
                     /\ Goto(p, Resting(p)) /\ ams_events' = ams_events
                  \/ /\ lost' = lost /\ Goto(p, "handle")
                     /\ ams_events' = [ams_events EXCEPT ![p] = matched]
               /\ UNCHANGED <<topic, min, ack, new_offset, commands, faults, handled, moved>>
<1> DEFINE last    == Min({offset + PullMsgs, Len(topic)})
           pulled  == (offset + 1)..last
           matched == {i \in pulled : topic[i] = "event"}
           raises  == \E i \in pulled : topic[i] = "nonobject"
<1>1. /\ pc[p] = "pull" /\ Advance(AckedUpTo(last), mode[p])
      /\ IF raises \/ Kept(p, matched) = {}
         THEN /\ Goto(p, Resting(p))
              /\ lost' = lost \cup (IF raises THEN matched ELSE {})
              /\ ams_events' = ams_events
         ELSE /\ Goto(p, "handle")
              /\ ams_events' = [ams_events EXCEPT ![p] = matched]
              /\ lost' = lost
      /\ UNCHANGED <<topic, min, ack, new_offset, commands, faults, handled, moved>>
  BY DEF PullMessages, NoFault
<1>2. /\ last \in offset..Len(topic) /\ last <= offset + PullMsgs /\ offset \in Nat
  BY LastPulled DEF TypeInv
<1>3. AckedUpTo(last) \in offset..last
  BY <1>2 DEF AckedUpTo
<1>4. matched \in SUBSET pulled /\ \A i \in pulled : topic[i] = "event" => i \in matched
  OBVIOUS
<1>5. \/ /\ lost' = lost \cup matched
         /\ Goto(p, Resting(p)) /\ ams_events' = ams_events
      \/ /\ Kept(p, matched) = {} /\ lost' = lost
         /\ Goto(p, Resting(p)) /\ ams_events' = ams_events
      \/ /\ lost' = lost /\ Goto(p, "handle")
         /\ ams_events' = [ams_events EXCEPT ![p] = matched]
  <2>1. CASE raises
    BY <1>1, <2>1
  <2>2. CASE ~raises /\ Kept(p, matched) = {}
    <3>1. lost \cup {} = lost
      OBVIOUS
    <3> HIDE DEF matched, raises
    <3> QED BY <1>1, <2>2, <3>1
  <2>3. CASE ~raises /\ Kept(p, matched) # {}
    BY <1>1, <2>3
  <2> QED BY <2>1, <2>2, <2>3
<1> HIDE DEF last, matched, raises
<1> QED BY <1>1, <1>2, <1>3, <1>4, <1>5

LEMMA PullFailsEffect ==
    ASSUME TypeInv, NEW p \in Procs, PullFails(p)
    PROVE  \E last \in offset..Len(topic) :
               /\ pc[p] = "pull" /\ Goto(p, Resting(p))
               /\ \/ UNCHANGED <<offset, acker, lost>>
                  \/ /\ ack /\ Advance(last, mode[p])
                     /\ lost' = lost \cup (offset + 1)..last
               /\ faults' \in 0..MaxFaults
               /\ UNCHANGED <<topic, min, ack, new_offset, ams_events, commands, handled, moved>>
<1> DEFINE last == Min({offset + PullMsgs, Len(topic)})
<1>1. /\ pc[p] = "pull" /\ Goto(p, Resting(p))
      /\ \/ Fault("pull") /\ UNCHANGED <<offset, acker, lost>>
         \/ /\ ack /\ Fault("ack") /\ Advance(last, mode[p])
            /\ lost' = lost \cup (offset + 1)..last
      /\ UNCHANGED <<topic, min, ack, new_offset, ams_events, commands, handled, moved>>
  BY DEF PullFails
<1>2. last \in offset..Len(topic)
  BY LastPulled DEF TypeInv
<1>3. faults' \in 0..MaxFaults
  BY <1>1, SubscriptionAssumption DEF Fault, TypeInv, TypeOK
<1> HIDE DEF last
<1> QED BY <1>1, <1>2, <1>3

LEMMA PurgeEffect ==
    ASSUME TypeOK, Purge
    PROVE  \E to \in offset..Len(topic) :
               /\ Advance(to, "purge")
               /\ min' = min + 1 /\ min' \in 0..to
               /\ faults' \in 0..MaxFaults
               /\ UNCHANGED <<topic, ack, pc, options, new_offset, ams_events, commands, handled,
                              lost, moved>>
<1>1. /\ min < Len(topic) /\ min' = min + 1 /\ Advance(Max({offset, min + 1}), "purge")
      /\ faults < MaxFaults /\ faults' = faults + 1
      /\ UNCHANGED <<topic, ack, pc, options, new_offset, ams_events, commands, handled,
                     lost, moved>>
  BY DEF Purge, Fault
<1>2. /\ min \in Nat /\ offset \in Nat /\ Len(topic) \in Nat /\ offset <= Len(topic)
      /\ faults \in Nat /\ MaxFaults \in Nat
  BY SubscriptionAssumption DEF TypeOK
<1>3. Max({offset, min + 1}) = IF offset >= min + 1 THEN offset ELSE min + 1
  BY <1>2, MaxOfTwo
<1> QED BY <1>1, <1>2, <1>3

\* The offset that --offset asks for is one that the subscription has, and not further
\* ahead than it asks.
LEMMA NewOffsetRange ==
    ASSUME TypeOK, NEW n \in Int
    PROVE  /\ NewOffset(n) \in min..Len(topic)
           /\ NewOffset(n) - offset <= Max({0, n})
<1>1. /\ min \in Nat /\ offset \in Nat /\ Len(topic) \in Nat
      /\ min <= offset /\ offset <= Len(topic)
  BY DEF TypeOK
<1> DEFINE end == Min({Len(topic), offset + n})
<1>2. /\ end = IF Len(topic) <= offset + n THEN Len(topic) ELSE offset + n
      /\ end \in Int /\ NewOffset(n) = Max({min, end})
  BY <1>1, MinOfTwo DEF NewOffset
<1> HIDE DEF end
<1>3. Max({min, end}) = IF min >= end THEN min ELSE end
  BY <1>1, <1>2, MaxOfTwo
<1>4. Max({0, n}) = IF 0 >= n THEN 0 ELSE n
  BY MaxOfTwo
<1> QED BY <1>1, <1>2, <1>3, <1>4

-------------------------------------------------------------------------------
LEMMA AckerTypes ==
    ASSUME TypeInv
    PROVE  /\ "purge" \in Ackers /\ "operator" \in Ackers
           /\ \A p \in Procs : mode[p] \in Ackers
           /\ \A p \in Procs : Resting(p) \in Places
           /\ "handle" \in Places /\ "pull" \in Places /\ "exited" \in Places
           /\ "print" \in Places /\ "modify" \in Places
BY DEF TypeInv, TypeOK, Ackers, Places, Resting

\* The place a process goes to is one it may hold messages in.
LEMMA GoesHolding ==
    ASSUME TypeInv, NEW p \in Procs, NEW l \in Places, Goto(p, l),
           ams_events' \in [Procs -> SUBSET (1..MaxPublished)],
           \A q \in Procs : q # p => ams_events'[q] = ams_events[q],
           l # "handle" => ams_events'[p] = {},
           Managed /\ l \in {"pull", "handle"} => mode[p] = "pipeline",
           l \in {"offsets", "modify", "print"} => p \in Commands
    PROVE  /\ Holding'
           /\ pc' \in [Procs -> Places] /\ mode' \in [Procs -> Modes]
           /\ delta' \in [Procs -> Deltas \cup {0}] /\ add' \in [Procs -> BOOLEAN]
BY GotoEffect DEF TypeInv, Holding, Places

LEMMA StepTypeInv ==
    ASSUME TypeInv, NEW p \in Procs, Step(p)
    PROVE  TypeInv'
<1> USE SubscriptionAssumption
<1>0. /\ topic \in Seq(Kinds) /\ Len(topic) \in Nat /\ Len(topic) <= MaxPublished
      /\ min \in 0..Len(topic) /\ offset \in min..Len(topic)
      /\ handled \subseteq 1..MaxPublished /\ lost \subseteq 1..MaxPublished
      /\ ams_events \in [Procs -> SUBSET (1..MaxPublished)]
      /\ new_offset \in [Procs -> 0..MaxPublished]
      /\ pc[p] \in Places /\ delta[p] \in Int
  <2>1. /\ topic \in Seq(Kinds) /\ Len(topic) \in Nat /\ Len(topic) <= MaxPublished
        /\ min \in 0..Len(topic) /\ offset \in min..Len(topic)
    BY DEF TypeInv, TypeOK
  <2>2. /\ ams_events \in [Procs -> SUBSET (1..MaxPublished)]
        /\ new_offset \in [Procs -> 0..MaxPublished]
        /\ pc[p] \in Places /\ delta[p] \in Deltas \cup {0}
    BY DEF TypeInv, TypeOK, Places
  <2>3. handled \subseteq 1..MaxPublished /\ lost \subseteq 1..MaxPublished
    BY DEF TypeInv, TypeOK
  <2>4. delta[p] \in Int
    <3>1. \A d \in Deltas : d \in Int
      BY Zenon
    <3> HIDE SubscriptionAssumption
    <3> QED BY <2>2, <3>1
  <2> QED BY <2>1, <2>2, <2>3, <2>4
<1>1. CASE GetOffsets(p)
  <2>1. /\ pc[p] = "offsets" /\ Goto(p, "modify")
        /\ new_offset' = [new_offset EXCEPT ![p] = NewOffset(delta[p])]
        /\ UNCHANGED <<topic, min, offset, ack, ams_events, commands, faults, histories>>
    BY <1>1 DEF GetOffsets, NoFault
  <2>2. NewOffset(delta[p]) \in 0..MaxPublished
    <3>1. NewOffset(delta[p]) \in min..Len(topic)
      BY <1>0, NewOffsetRange DEF TypeInv
    <3> QED BY <1>0, <3>1
  <2>3. new_offset' \in [Procs -> 0..MaxPublished]
    BY <1>0, <2>1, <2>2
  <2>4. /\ Holding'
        /\ pc' \in [Procs -> Places] /\ mode' \in [Procs -> Modes]
        /\ delta' \in [Procs -> Deltas \cup {0}] /\ add' \in [Procs -> BOOLEAN]
    BY <1>0, <2>1, AckerTypes, GoesHolding DEF TypeInv, Holding
  <2> QED BY <2>1, <2>3, <2>4 DEF TypeInv, TypeOK, histories, Places
<1>2. CASE ModifyOffset(p)
  <2>1. PICK l \in {"print", "exited"} :
            /\ pc[p] = "modify" /\ Goto(p, l)
            /\ \/ UNCHANGED <<offset, acker, moved>>
               \/ /\ new_offset[p] \in min..Len(topic)
                  /\ Advance(new_offset[p], "operator") /\ moved' = TRUE
            /\ new_offset' = [new_offset EXCEPT ![p] = 0]
            /\ UNCHANGED <<topic, min, ack, ams_events, commands, faults, handled, lost>>
    BY <1>2 DEF ModifyOffset, NoFault
  <2>2. /\ offset' \in min..Len(topic)
        /\ acker' \in [1..MaxPublished -> Ackers]
    BY <1>0, <2>1, AdvanceEffect, AckerTypes DEF TypeInv, TypeOK, Ackers
  <2>3. /\ Holding'
        /\ pc' \in [Procs -> Places] /\ mode' \in [Procs -> Modes]
        /\ delta' \in [Procs -> Deltas \cup {0}] /\ add' \in [Procs -> BOOLEAN]
    BY <1>0, <2>1, AckerTypes, GoesHolding DEF TypeInv, Holding
  <2>4. new_offset' \in [Procs -> 0..MaxPublished]
    BY <1>0, <2>1
  <2>5. moved' \in BOOLEAN
    BY <2>1 DEF TypeInv, TypeOK
  <2> QED BY <2>1, <2>2, <2>3, <2>4, <2>5 DEF TypeInv, TypeOK, Ackers, Places
<1>3. CASE PullAndPrint(p)
  <2>1. PICK l \in {"pull", "exited"} :
            /\ pc[p] = "print" /\ Goto(p, l)
            /\ Managed => l = "exited"
            /\ UNCHANGED <<topic, min, offset, ack, new_offset, ams_events, commands, faults,
                           histories>>
    BY <1>3 DEF PullAndPrint, PullsTenants, NoFault
  <2>2. /\ Holding'
        /\ pc' \in [Procs -> Places] /\ mode' \in [Procs -> Modes]
        /\ delta' \in [Procs -> Deltas \cup {0}] /\ add' \in [Procs -> BOOLEAN]
    BY <1>0, <2>1, AckerTypes, GoesHolding DEF TypeInv, Holding
  <2> QED BY <2>1, <2>2 DEF TypeInv, TypeOK, histories, Places
<1>4. CASE PullMessages(p)
  <2>1. PICK last \in offset..Len(topic) : \E matched \in SUBSET ((offset + 1)..last) :
            /\ pc[p] = "pull"
            /\ Advance(AckedUpTo(last), mode[p]) /\ AckedUpTo(last) \in offset..last
            /\ \/ /\ lost' = lost \cup matched
                  /\ Goto(p, Resting(p)) /\ ams_events' = ams_events
               \/ /\ lost' = lost
                  /\ Goto(p, Resting(p)) /\ ams_events' = ams_events
               \/ /\ lost' = lost /\ Goto(p, "handle")
                  /\ ams_events' = [ams_events EXCEPT ![p] = matched]
            /\ UNCHANGED <<topic, min, ack, new_offset, commands, faults, handled, moved>>
    BY <1>4, PullEffect
  <2>2. PICK matched \in SUBSET ((offset + 1)..last) :
            \/ /\ lost' = lost \cup matched
               /\ Goto(p, Resting(p)) /\ ams_events' = ams_events
            \/ /\ lost' = lost
               /\ Goto(p, Resting(p)) /\ ams_events' = ams_events
            \/ /\ lost' = lost /\ Goto(p, "handle")
               /\ ams_events' = [ams_events EXCEPT ![p] = matched]
    BY <2>1
  <2>3. matched \in SUBSET (1..MaxPublished)
    BY <1>0, <2>1
  <2>4. /\ offset' \in min..Len(topic)
        /\ acker' \in [1..MaxPublished -> Ackers]
    BY <1>0, <2>1, AdvanceEffect, AckerTypes DEF TypeInv
  <2>5. /\ lost' \subseteq 1..MaxPublished
        /\ ams_events' \in [Procs -> SUBSET (1..MaxPublished)]
    BY <1>0, <2>2, <2>3
  <2>6. PICK l \in {"pull", "exited", "handle"} :
            Goto(p, l) /\ (l # "handle" => ams_events' = ams_events)
    BY <2>2 DEF Resting
  <2>7. \A q \in Procs : q # p => ams_events'[q] = ams_events[q]
    BY <1>0, <2>2
  <2>8. /\ Holding'
        /\ pc' \in [Procs -> Places] /\ mode' \in [Procs -> Modes]
        /\ delta' \in [Procs -> Deltas \cup {0}] /\ add' \in [Procs -> BOOLEAN]
    BY <2>1, <2>5, <2>6, <2>7, AckerTypes, GoesHolding DEF TypeInv, Holding
  <2> QED BY <2>1, <2>4, <2>5, <2>8 DEF TypeInv, TypeOK, Ackers, Places
<1>5. CASE PullFails(p)
  <2>1. PICK last \in offset..Len(topic) :
            /\ pc[p] = "pull" /\ Goto(p, Resting(p))
            /\ \/ UNCHANGED <<offset, acker, lost>>
               \/ /\ Advance(last, mode[p])
                  /\ lost' = lost \cup (offset + 1)..last
            /\ faults' \in 0..MaxFaults
            /\ UNCHANGED <<topic, min, ack, new_offset, ams_events, commands, handled, moved>>
    BY <1>5, PullFailsEffect
  <2>2. /\ offset' \in min..Len(topic) /\ lost' \subseteq 1..MaxPublished
        /\ acker' \in [1..MaxPublished -> Ackers]
    <3>1. CASE UNCHANGED <<offset, acker, lost>>
      BY <1>0, <3>1 DEF TypeInv, TypeOK, Ackers
    <3>2. CASE Advance(last, mode[p]) /\ lost' = lost \cup (offset + 1)..last
      BY <1>0, <3>2, AdvanceEffect, AckerTypes DEF TypeInv
    <3> QED BY <2>1, <3>1, <3>2
  <2>3. /\ Holding'
        /\ pc' \in [Procs -> Places] /\ mode' \in [Procs -> Modes]
        /\ delta' \in [Procs -> Deltas \cup {0}] /\ add' \in [Procs -> BOOLEAN]
    BY <1>0, <2>1, AckerTypes, GoesHolding DEF TypeInv, Holding, Resting
  <2> QED BY <2>1, <2>2, <2>3 DEF TypeInv, TypeOK, Ackers, Places
<1>6. CASE Handle(p)
  <2>1. /\ pc[p] = "handle" /\ Goto(p, Resting(p))
        /\ ams_events' = [ams_events EXCEPT ![p] = {}]
        /\ \E done \in SUBSET ams_events[p] :
               /\ handled' = handled \cup done
               /\ lost' = lost \cup (ams_events[p] \ done)
        /\ faults' = faults \/ (faults < MaxFaults /\ faults' = faults + 1)
        /\ UNCHANGED <<topic, min, offset, ack, new_offset, commands, acker, moved>>
    BY <1>6 DEF Handle, NoFault, Fault
  <2>2. handled' \subseteq 1..MaxPublished /\ lost' \subseteq 1..MaxPublished
    BY <1>0, <2>1
  <2>3. faults' \in 0..MaxFaults
    BY <2>1 DEF TypeInv, TypeOK
  <2>4. /\ Holding'
        /\ pc' \in [Procs -> Places] /\ mode' \in [Procs -> Modes]
        /\ delta' \in [Procs -> Deltas \cup {0}] /\ add' \in [Procs -> BOOLEAN]
    BY <1>0, <2>1, AckerTypes, GoesHolding DEF TypeInv, Holding, Resting
  <2>5. ams_events' \in [Procs -> SUBSET (1..MaxPublished)]
    BY <1>0, <2>1
  <2> QED BY <2>1, <2>2, <2>3, <2>4, <2>5 DEF TypeInv, TypeOK, Places
<1>7. CASE GivesUp(p)
  <2>1. /\ pc[p] # "handle" /\ Goto(p, "exited")
        /\ UNCHANGED <<topic, min, offset, ack, new_offset, ams_events, commands, histories>>
    BY <1>7 DEF GivesUp, Connects
  <2>2. faults' \in 0..MaxFaults
    BY <1>7 DEF GivesUp, Fault, TypeInv, TypeOK
  <2>3. /\ Holding'
        /\ pc' \in [Procs -> Places] /\ mode' \in [Procs -> Modes]
        /\ delta' \in [Procs -> Deltas \cup {0}] /\ add' \in [Procs -> BOOLEAN]
    BY <1>0, <2>1, AckerTypes, GoesHolding DEF TypeInv, Holding
  <2> QED BY <2>1, <2>2, <2>3 DEF TypeInv, TypeOK, histories, Places
<1> QED BY <1>1, <1>2, <1>3, <1>4, <1>5, <1>6, <1>7 DEF Step

LEMMA NextTypeInv == TypeInv /\ [Next]_vars => TypeInv'
<1> SUFFICES ASSUME TypeInv, [Next]_vars PROVE TypeInv'
  OBVIOUS
<1>1. CASE UNCHANGED vars
  BY <1>1 DEF vars, options, histories, TypeInv, TypeOK, Holding
<1>2. ASSUME NEW kind \in Kinds, Publish(kind) PROVE TypeInv'
  <2>1. /\ topic' = Append(topic, kind) /\ Len(topic) < MaxPublished
        /\ UNCHANGED <<min, offset, ack, pc, options, new_offset, ams_events, commands,
                       histories, faults>>
    BY <1>2 DEF Publish, NoFault
  <2>2. topic \in Seq(Kinds) /\ Len(topic) \in Nat /\ MaxPublished \in Nat
    BY SubscriptionAssumption DEF TypeInv, TypeOK
  <2>3. topic' \in Seq(Kinds) /\ Len(topic') = Len(topic) + 1
    BY <2>1, <2>2
  <2>4. Len(topic') <= MaxPublished /\ min \in 0..Len(topic') /\ offset \in min..Len(topic')
    BY <2>1, <2>2, <2>3 DEF TypeInv, TypeOK
  <2> QED BY <2>1, <2>3, <2>4 DEF options, histories, TypeInv, TypeOK, Holding
<1>3. CASE Purge
  <2>1. PICK to \in offset..Len(topic) :
               /\ Advance(to, "purge")
               /\ min' \in 0..to
               /\ faults' \in 0..MaxFaults
               /\ UNCHANGED <<topic, ack, pc, options, new_offset, ams_events, commands,
                              handled, lost, moved>>
    BY <1>3, PurgeEffect DEF TypeInv
  <2>2. /\ offset' = to /\ acker' \in [1..MaxPublished -> Ackers]
    BY <2>1, AdvanceEffect, AckerTypes DEF TypeInv
  <2>3. /\ offset \in Nat /\ Len(topic) \in Nat
    BY DEF TypeInv, TypeOK
  <2>4. min' \in 0..Len(topic) /\ offset' \in min'..Len(topic)
    BY <2>1, <2>2, <2>3
  <2> QED BY <2>1, <2>2, <2>4 DEF options, TypeInv, TypeOK, Holding, Ackers
<1>4. ASSUME NEW p \in Commands, Command(p) PROVE TypeInv'
  <2>1. PICK m \in Modes, d \in Deltas \cup {0}, adds \in BOOLEAN :
            /\ m # "only_ams" => d = 0
            /\ m = "pipeline" => ~adds
            /\ mode' = [mode EXCEPT ![p] = m]
            /\ delta' = [delta EXCEPT ![p] = d]
            /\ add' = [add EXCEPT ![p] = adds]
            /\ pc' = [pc EXCEPT ![p] =
                CASE m = "pipeline" -> "pull"
                  [] m = "only_ams" -> IF d = 0 THEN "print" ELSE "offsets"
                  [] m = "only_webapi" -> IF PullsTenants(adds) THEN "pull" ELSE "exited"]
    BY <1>4 DEF Command
  <2>2. /\ pc[p] = "exited" /\ commands < MaxCommands /\ commands' = commands + 1
        /\ UNCHANGED <<topic, min, offset, ack, new_offset, ams_events, histories, faults>>
    BY <1>4 DEF Command, NoFault
  <2>3. PICK l \in {"pull", "print", "offsets", "exited"} :
            /\ pc' = [pc EXCEPT ![p] = l]
            /\ Managed /\ l = "pull" => m = "pipeline"
    BY <2>1 DEF Modes, PullsTenants
  <2>4. p \in Procs
    BY DEF Procs
  <2>5. commands' \in 0..MaxCommands
    BY <2>2, SubscriptionAssumption DEF TypeInv, TypeOK
  <2>6. add' \in [Procs -> BOOLEAN]
    BY <2>1 DEF TypeInv, TypeOK
  <2>7. /\ pc' \in [Procs -> Places] /\ mode' \in [Procs -> Modes]
        /\ delta' \in [Procs -> Deltas \cup {0}]
    BY <2>1, <2>3 DEF TypeInv, TypeOK, Places
  <2>8. Holding'
    <3>1. p \notin Daemons
      BY SubscriptionAssumption
    <3>2. \A q \in Procs : q # p => mode'[q] = mode[q] /\ pc'[q] = pc[q]
      BY <2>1, <2>3 DEF TypeInv, TypeOK
    <3>3. mode'[p] = m /\ pc'[p] = l
      BY <2>1, <2>3, <2>4 DEF TypeInv, TypeOK
    <3> QED BY <2>2, <2>3, <2>4, <3>1, <3>2, <3>3 DEF TypeInv, Holding
  <2> QED BY <2>2, <2>5, <2>6, <2>7, <2>8 DEF histories, TypeInv, TypeOK, Places
<1>5. ASSUME NEW p \in Daemons, Restart(p) PROVE TypeInv'
  <2>1. /\ pc[p] = "exited" /\ Goto(p, "pull") /\ p \in Procs
        /\ UNCHANGED <<topic, min, offset, ack, new_offset, ams_events, commands, faults,
                       histories>>
    BY <1>5 DEF Restart, NoFault, Procs
  <2>2. /\ ams_events \in [Procs -> SUBSET (1..MaxPublished)]
        /\ ams_events[p] = {} /\ mode[p] = "pipeline"
    BY <1>5, <2>1 DEF TypeInv, TypeOK, Holding
  <2>3. /\ Holding'
        /\ pc' \in [Procs -> Places] /\ mode' \in [Procs -> Modes]
        /\ delta' \in [Procs -> Deltas \cup {0}] /\ add' \in [Procs -> BOOLEAN]
    BY <2>1, <2>2, AckerTypes, GoesHolding
  <2> QED BY <2>1, <2>3 DEF TypeInv, TypeOK, histories, Places
<1> QED BY <1>1, <1>2, <1>3, <1>4, <1>5, StepTypeInv DEF Next

LEMMA InitTypeInv == Init => TypeInv
<1> SUFFICES ASSUME Init PROVE TypeInv
  OBVIOUS
<1>1. topic \in Seq(Kinds) /\ Len(topic) = 0
  BY DEF Init
<1>2. 0 \in 0..MaxPublished /\ 0 \in 0..MaxCommands /\ 0 \in 0..MaxFaults
  BY SubscriptionAssumption
<1>3. Holding
  BY DEF Init, Holding, Procs
<1>4. /\ pc \in [Procs -> Places] /\ mode \in [Procs -> Modes]
      /\ delta \in [Procs -> Deltas \cup {0}] /\ add \in [Procs -> BOOLEAN]
      /\ new_offset \in [Procs -> 0..MaxPublished]
      /\ ams_events \in [Procs -> SUBSET (1..MaxPublished)]
      /\ acker \in [1..MaxPublished -> Ackers]
  BY <1>2 DEF Init, Places, Modes, Ackers
<1>5. /\ Len(topic) <= MaxPublished /\ min \in 0..Len(topic) /\ offset \in min..Len(topic)
      /\ commands \in 0..MaxCommands /\ faults \in 0..MaxFaults
  BY <1>1, <1>2, SubscriptionAssumption DEF Init
<1>6. /\ ack \in Acks /\ moved \in BOOLEAN
      /\ handled \subseteq 1..MaxPublished /\ lost \subseteq 1..MaxPublished
  BY DEF Init
<1> QED BY <1>1, <1>3, <1>4, <1>5, <1>6 DEF TypeInv, TypeOK, Places, Ackers

\* The offset stays between the oldest message that AMS keeps and the end, whoever
\* pulls, purges or moves it: what --offset sets is checked when it is set.
THEOREM SubscriptionTypes == Spec => []TypeOK
<1>1. TypeInv => TypeOK
  BY DEF TypeInv
<1> QED BY <1>1, InitTypeInv, NextTypeInv, PTL DEF Spec

-------------------------------------------------------------------------------
\* The messages that were behind the offset stay accounted for by a step that keeps
\* the topic, the histories and the messages in hand; the ones it moves over need
\* a reason.
LEMMA StaysAccounted ==
    ASSUME TypeInv, NothingSkipped,
           UNCHANGED <<topic, handled>>, lost \subseteq lost',
           \A q \in Procs : ams_events[q] \subseteq ams_events'[q],
           \A i \in 1..offset' : i <= offset => acker'[i] = acker[i],
           \A i \in 1..offset' : i > offset /\ Managed /\ topic[i] = "event" =>
               Accounted(i)' \/ \E q \in Procs : i \in ams_events'[q]
    PROVE  NothingSkipped'
<1>1. offset \in Nat
  BY DEF TypeInv, TypeOK
<1> SUFFICES ASSUME NEW i \in 1..offset', Managed, topic'[i] = "event"
             PROVE  Accounted(i)' \/ \E q \in Procs : i \in ams_events'[q]
  BY DEF NothingSkipped
<1>2. CASE i > offset
  BY <1>2
<1>3. CASE i <= offset
  <2>1. i \in 1..offset /\ topic[i] = "event" /\ acker'[i] = acker[i]
    BY <1>1, <1>3
  <2>2. Accounted(i) \/ \E q \in Procs : i \in ams_events[q]
    BY <2>1 DEF NothingSkipped
  <2> QED BY <2>1, <2>2 DEF Accounted
<1> QED BY <1>1, <1>2, <1>3

LEMMA StepAccounts ==
    ASSUME TypeInv, TypeInv', NothingSkipped, NEW p \in Procs, Step(p)
    PROVE  NothingSkipped'
<1>0. /\ offset \in Nat /\ offset' \in Nat /\ Len(topic) \in Nat /\ Len(topic) <= MaxPublished
      /\ MaxPublished \in Nat /\ ams_events \in [Procs -> SUBSET (1..MaxPublished)]
      /\ offset' <= MaxPublished
  BY SubscriptionAssumption DEF TypeInv, TypeOK
<1>1. CASE GetOffsets(p) \/ PullAndPrint(p) \/ GivesUp(p)
  BY <1>0, <1>1, StaysAccounted DEF GetOffsets, PullAndPrint, GivesUp, histories
<1>2. CASE ModifyOffset(p)
  <2>1. /\ \/ UNCHANGED <<offset, acker>>
           \/ Advance(new_offset[p], "operator")
        /\ UNCHANGED <<topic, ams_events, handled, lost>>
    BY <1>2 DEF ModifyOffset
  <2>2. CASE UNCHANGED <<offset, acker>>
    BY <1>0, <2>1, <2>2, StaysAccounted
  <2>3. CASE Advance(new_offset[p], "operator")
    <3>1. \A i \in 1..offset' : acker'[i] = IF i > offset THEN "operator" ELSE acker[i]
      BY <1>0, <2>3, AdvanceEffect, AckerTypes DEF TypeInv
    <3> QED BY <1>0, <2>1, <3>1, StaysAccounted DEF Accounted
  <2> QED BY <2>1, <2>2, <2>3
<1>3. CASE PullMessages(p)
  <2>1. PICK last \in offset..Len(topic) : \E matched \in SUBSET ((offset + 1)..last) :
            /\ pc[p] = "pull"
            /\ \A i \in (offset + 1)..last : topic[i] = "event" => i \in matched
            /\ Advance(AckedUpTo(last), mode[p])
            /\ AckedUpTo(last) \in offset..last
            /\ \/ lost' = lost \cup matched /\ ams_events' = ams_events
               \/ Kept(p, matched) = {} /\ lost' = lost /\ ams_events' = ams_events
               \/ lost' = lost /\ ams_events' = [ams_events EXCEPT ![p] = matched]
            /\ UNCHANGED <<topic, handled>>
    BY <1>3, PullEffect
  <2>2. PICK matched \in SUBSET ((offset + 1)..last) :
            /\ \A i \in (offset + 1)..last : topic[i] = "event" => i \in matched
            /\ \/ lost' = lost \cup matched /\ ams_events' = ams_events
               \/ Kept(p, matched) = {} /\ lost' = lost /\ ams_events' = ams_events
               \/ lost' = lost /\ ams_events' = [ams_events EXCEPT ![p] = matched]
    BY <2>1
  <2>3. Managed => Kept(p, matched) = matched
    BY <2>1 DEF TypeInv, Holding, Kept
  <2>4. ams_events[p] = {}
    BY <2>1 DEF TypeInv, Holding
  <2>5. /\ lost \subseteq lost'
        /\ \A q \in Procs : ams_events[q] \subseteq ams_events'[q]
    BY <1>0, <2>2, <2>4
  <2>6. offset' \in offset..last /\ \A i \in 1..offset' : i <= offset => acker'[i] = acker[i]
    BY <1>0, <2>1, AdvanceEffect, AckerTypes DEF TypeInv
  <2>7. ASSUME NEW i \in 1..offset', i > offset, Managed, topic[i] = "event"
        PROVE  i \in lost' \/ i \in ams_events'[p]
    BY <1>0, <2>2, <2>3, <2>6, <2>7
  <2> QED BY <2>1, <2>5, <2>6, <2>7, StaysAccounted DEF Accounted
<1>4. CASE PullFails(p)
  <2>1. PICK last \in offset..Len(topic) :
            /\ \/ UNCHANGED <<offset, acker, lost>>
               \/ /\ Advance(last, mode[p])
                  /\ lost' = lost \cup (offset + 1)..last
            /\ UNCHANGED <<topic, ams_events, handled>>
    BY <1>4, PullFailsEffect
  <2>2. CASE UNCHANGED <<offset, acker, lost>>
    BY <1>0, <2>1, <2>2, StaysAccounted
  <2>3. CASE Advance(last, mode[p]) /\ lost' = lost \cup (offset + 1)..last
    <3>1. offset' = last /\ \A i \in 1..offset' : i <= offset => acker'[i] = acker[i]
      BY <1>0, <2>3, AdvanceEffect, AckerTypes DEF TypeInv
    <3>2. \A i \in 1..offset' : i > offset => i \in lost'
      BY <1>0, <2>3, <3>1
    <3> QED BY <2>1, <2>3, <3>1, <3>2, StaysAccounted DEF Accounted
  <2> QED BY <2>1, <2>2, <2>3
<1>5. CASE Handle(p)
  <2>1. /\ ams_events' = [ams_events EXCEPT ![p] = {}]
        /\ \E done \in SUBSET ams_events[p] :
               /\ handled' = handled \cup done
               /\ lost' = lost \cup (ams_events[p] \ done)
        /\ UNCHANGED <<topic, offset, acker>>
    BY <1>5 DEF Handle
  <2>2. handled' \cup lost' = handled \cup lost \cup ams_events[p]
    BY <2>1
  <2>3. \A q \in Procs : q # p => ams_events'[q] = ams_events[q]
    BY <1>0, <2>1
  <2> QED BY <2>1, <2>2, <2>3 DEF NothingSkipped, Accounted
<1> QED BY <1>1, <1>2, <1>3, <1>4, <1>5 DEF Step

LEMMA NextAccounts ==
    ASSUME TypeInv, NothingSkipped, [Next]_vars PROVE NothingSkipped'
<1>0. /\ offset \in Nat /\ Len(topic) \in Nat /\ offset <= Len(topic)
      /\ topic \in Seq(Kinds)
  BY DEF TypeInv, TypeOK
<1>1. CASE UNCHANGED vars
  BY <1>1 DEF vars, histories, NothingSkipped, Accounted
<1>2. ASSUME NEW kind \in Kinds, Publish(kind) PROVE NothingSkipped'
  <2>1. /\ topic' = Append(topic, kind)
        /\ UNCHANGED <<offset, ams_events, acker, handled, lost>>
    BY <1>2 DEF Publish, histories
  <2>2. \A i \in 1..offset : topic'[i] = topic[i]
    BY <1>0, <2>1
  <2> QED BY <2>1, <2>2 DEF NothingSkipped, Accounted
<1>3. CASE Purge
  <2>1. PICK to \in offset..Len(topic) :
            /\ Advance(to, "purge")
            /\ UNCHANGED <<topic, ams_events, handled, lost>>
    BY <1>3, PurgeEffect DEF TypeInv
  <2>2. \A i \in 1..offset' : acker'[i] = IF i > offset THEN "purge" ELSE acker[i]
    BY <1>0, <2>1, AdvanceEffect, AckerTypes, SubscriptionAssumption DEF TypeInv, TypeOK
  <2>3. /\ \A i \in 1..offset' : i <= offset => acker'[i] = acker[i]
        /\ \A i \in 1..offset' : i > offset => Accounted(i)'
    BY <1>0, <2>1, <2>2, AdvanceEffect, AckerTypes DEF Accounted, TypeInv
  <2> QED BY <2>1, <2>3, StaysAccounted
<1>4. ASSUME NEW p, Command(p) \/ Restart(p) PROVE NothingSkipped'
  <2>1. UNCHANGED <<topic, offset, ams_events, histories>>
    BY <1>4 DEF Command, Restart
  <2> QED BY <2>1 DEF histories, NothingSkipped, Accounted
<1>5. ASSUME NEW p \in Procs, Step(p) PROVE NothingSkipped'
  BY <1>5, StepAccounts, StepTypeInv
<1> QED BY <1>1, <1>2, <1>3, <1>4, <1>5 DEF Next

-------------------------------------------------------------------------------
LEMMA StepAtStart ==
    ASSUME TypeInv, AtStart, NEW p \in Procs, Step(p), ~ack', ~moved', min' = 0
    PROVE  /\ offset' = 0 /\ handled' \subseteq 1..PullMsgs
           /\ \A q \in Procs : ams_events'[q] \subseteq 1..PullMsgs
<1>0. /\ ams_events \in [Procs -> SUBSET (1..MaxPublished)] /\ Len(topic) \in Nat
      /\ PullMsgs \in Nat
  BY SubscriptionAssumption DEF TypeInv, TypeOK
<1>1. CASE GetOffsets(p) \/ PullAndPrint(p) \/ GivesUp(p)
  BY <1>1 DEF GetOffsets, PullAndPrint, GivesUp, histories, AtStart
<1>2. CASE ModifyOffset(p)
  BY <1>2 DEF ModifyOffset, AtStart
<1>3. CASE PullMessages(p)
  <2>1. PICK last \in offset..Len(topic) : \E matched \in SUBSET ((offset + 1)..last) :
            /\ last <= offset + PullMsgs
            /\ Advance(AckedUpTo(last), mode[p])
            /\ \/ ams_events' = ams_events
               \/ ams_events' = [ams_events EXCEPT ![p] = matched]
            /\ UNCHANGED <<min, ack, handled, moved>>
    BY <1>3, PullEffect
  <2>2. PICK matched \in SUBSET ((offset + 1)..last) :
            \/ ams_events' = ams_events
            \/ ams_events' = [ams_events EXCEPT ![p] = matched]
    BY <2>1
  <2>3. /\ offset = 0 /\ handled \subseteq 1..PullMsgs
        /\ \A q \in Procs : ams_events[q] \subseteq 1..PullMsgs
    BY <2>1 DEF AtStart
  <2>4. offset' = 0
    BY <2>1, <2>3 DEF Advance, AckedUpTo
  <2>5. matched \subseteq 1..PullMsgs
    BY <1>0, <2>1, <2>3
  <2> QED BY <1>0, <2>1, <2>2, <2>3, <2>4, <2>5
<1>4. CASE PullFails(p)
  BY <1>4 DEF PullFails, AtStart
<1>5. CASE Handle(p)
  <2>1. /\ ams_events' = [ams_events EXCEPT ![p] = {}]
        /\ \E done \in SUBSET ams_events[p] : handled' = handled \cup done
        /\ UNCHANGED <<min, offset, ack, moved>>
    BY <1>5 DEF Handle
  <2> QED BY <1>0, <2>1 DEF AtStart
<1> QED BY <1>1, <1>2, <1>3, <1>4, <1>5 DEF Step

LEMMA NextAtStart ==
    ASSUME TypeInv, AtStart, [Next]_vars PROVE AtStart'
<1>1. CASE UNCHANGED vars
  BY <1>1 DEF vars, histories, AtStart
<1>2. ASSUME NEW kind \in Kinds, Publish(kind) PROVE AtStart'
  BY <1>2 DEF Publish, histories, AtStart
<1>3. CASE Purge
  <2>1. min' = min + 1 /\ min \in Nat
    BY <1>3 DEF Purge, TypeInv, TypeOK
  <2> QED BY <2>1 DEF AtStart
<1>4. ASSUME NEW p, Command(p) \/ Restart(p) PROVE AtStart'
  BY <1>4 DEF Command, Restart, histories, AtStart
<1>5. ASSUME NEW p \in Procs, Step(p) PROVE AtStart'
  BY <1>5, StepAtStart DEF AtStart
<1> QED BY <1>1, <1>2, <1>3, <1>4, <1>5 DEF Next

LEMMA SubscriptionInvHolds == Spec => []SubscriptionInv
<1>1. Init => SubscriptionInv
  BY InitTypeInv DEF Init, SubscriptionInv, NothingSkipped, AtStart
<1>2. SubscriptionInv /\ [Next]_vars => SubscriptionInv'
  BY NextTypeInv, NextAccounts, NextAtStart DEF SubscriptionInv
<1> QED BY <1>1, <1>2, PTL DEF Spec

\* With automation.tenants set, no event behind the offset is forgotten: it was or
\* will be handled, its cycle failed, or the operator or AMS moved past it.
THEOREM EventsAccounted == Spec => []NothingSkipped
<1>1. SubscriptionInv => NothingSkipped
  BY DEF SubscriptionInv
<1> QED BY <1>1, SubscriptionInvHolds, PTL

\* Without ack every process sees the same first ams.pullmsgs messages, for ever.
THEOREM NoAckNoProgress == Spec => []StuckWithoutAck
<1>1. SubscriptionInv => StuckWithoutAck
  BY DEF SubscriptionInv, AtStart, StuckWithoutAck
<1> QED BY <1>1, SubscriptionInvHolds, PTL

-------------------------------------------------------------------------------
OneCommand == \A p, q \in Commands : p = q

LEMMA MoveAhead ==
    ASSUME TypeInv, TypeInv', Ahead, [Next]_vars, OneCommand
    PROVE  Ahead'
<1>0. offset \in Nat /\ offset' \in Nat
  BY DEF TypeInv, TypeOK
<1>1. ASSUME UNCHANGED new_offset, offset <= offset',
             \A q \in Procs : pc'[q] = "modify" => pc[q] = "modify" /\ delta'[q] = delta[q]
      PROVE  Ahead'
  <2> SUFFICES ASSUME NEW q \in Procs, pc'[q] = "modify"
               PROVE  new_offset[q] - offset' <= Max({0, delta[q]})
    BY <1>1 DEF Ahead
  <2>1. /\ new_offset[q] \in Nat /\ delta[q] \in Deltas \cup {0}
        /\ new_offset[q] - offset <= Max({0, delta[q]})
    BY <1>1 DEF Ahead, TypeInv, TypeOK
  <2>2. \A d \in Deltas : d \in Int
    BY SubscriptionAssumption, Zenon
  <2>3. delta[q] \in Int
    BY <2>1, <2>2
  <2>4. Max({0, delta[q]}) \in Int
    BY <2>3, MaxOfTwo
  <2> QED BY <1>0, <1>1, <2>1, <2>4
<1>2. CASE UNCHANGED vars
  BY <1>0, <1>1, <1>2 DEF vars, options
<1>3. ASSUME NEW kind \in Kinds, Publish(kind) PROVE Ahead'
  BY <1>0, <1>1, <1>3 DEF Publish, options
<1>4. CASE Purge
  <2>1. offset <= offset' /\ UNCHANGED <<pc, options, new_offset>>
    BY <1>0, <1>4, PurgeEffect, AdvanceEffect, AckerTypes DEF TypeInv
  <2> QED BY <1>1, <2>1 DEF options
<1>5. ASSUME NEW p \in Commands, Command(p) PROVE Ahead'
  <2>1. /\ pc'[p] # "modify" /\ UNCHANGED <<offset, new_offset>>
        /\ \A q \in Procs : q # p => pc'[q] = pc[q] /\ delta'[q] = delta[q]
    BY <1>5 DEF Command, TypeInv, TypeOK, Modes, Procs
  <2> QED BY <1>0, <1>1, <2>1
<1>6. ASSUME NEW p \in Procs, Step(p) PROVE Ahead'
  <2>1. CASE GetOffsets(p)
    <3>1. /\ Goto(p, "modify") /\ offset' = offset
          /\ new_offset' = [new_offset EXCEPT ![p] = NewOffset(delta[p])]
      BY <2>1 DEF GetOffsets
    <3>2. /\ \A q \in Procs : pc'[q] = IF q = p THEN "modify" ELSE pc[q]
          /\ delta' = delta
      BY <3>1, GotoEffect, AckerTypes DEF TypeInv
    <3>3. \A q \in Procs : new_offset'[q] = IF q = p THEN NewOffset(delta[p]) ELSE new_offset[q]
      BY <3>1 DEF TypeInv, TypeOK
    <3>4. delta[p] \in Int
      <4>1. delta[p] \in Deltas \cup {0}
        BY DEF TypeInv, TypeOK
      <4>2. \A d \in Deltas : d \in Int
        BY SubscriptionAssumption, Zenon
      <4> QED BY <4>1, <4>2
    <3>5. NewOffset(delta[p]) - offset <= Max({0, delta[p]})
      BY <3>4, NewOffsetRange DEF TypeInv
    <3> QED BY <3>1, <3>2, <3>3, <3>5 DEF Ahead
  <2>2. CASE ModifyOffset(p)
    <3>1. \A q \in Procs : pc'[q] # "modify"
      <4>1. pc[p] = "modify" /\ \E l \in {"print", "exited"} : Goto(p, l)
        BY <2>2 DEF ModifyOffset
      <4>2. /\ pc'[p] # "modify" /\ p \in Commands
            /\ \A q \in Procs : q # p => pc'[q] = pc[q]
        BY <4>1, GotoEffect, AckerTypes DEF TypeInv, Holding
      <4> QED BY <4>2 DEF TypeInv, Holding, OneCommand
    <3> QED BY <3>1 DEF Ahead
  <2>3. CASE PullAndPrint(p) \/ PullMessages(p) \/ PullFails(p) \/ Handle(p) \/ GivesUp(p)
    <3>1. /\ new_offset' = new_offset
          /\ \E l \in {"pull", "exited", "handle"} : Goto(p, l)
      BY <2>3 DEF PullAndPrint, PullMessages, PullFails, Handle, GivesUp, Resting
    <3>2. offset <= offset'
      <4>1. CASE PullAndPrint(p) \/ Handle(p) \/ GivesUp(p)
        BY <1>0, <4>1 DEF PullAndPrint, Handle, GivesUp
      <4>2. CASE PullMessages(p)
        BY <1>0, <4>2, PullEffect, AdvanceEffect, AckerTypes DEF TypeInv
      <4>3. CASE PullFails(p)
        BY <1>0, <4>3, PullFailsEffect, AdvanceEffect, AckerTypes DEF TypeInv
      <4> QED BY <2>3, <4>1, <4>2, <4>3
    <3>3. \A q \in Procs : pc'[q] = "modify" => pc[q] = "modify" /\ delta'[q] = delta[q]
      BY <3>1, GotoEffect, AckerTypes DEF TypeInv
    <3> QED BY <1>1, <3>1, <3>2, <3>3
  <2> QED BY <1>6, <2>1, <2>2, <2>3 DEF Step
<1>7. ASSUME NEW p \in Daemons, Restart(p) PROVE Ahead'
  <2>1. Goto(p, "pull") /\ p \in Procs /\ UNCHANGED <<offset, new_offset>>
    BY <1>7 DEF Restart, Procs
  <2>2. \A q \in Procs : pc'[q] = "modify" => pc[q] = "modify" /\ delta'[q] = delta[q]
    BY <2>1, GotoEffect, AckerTypes DEF TypeInv
  <2> QED BY <1>0, <1>1, <2>1, <2>2
<1> QED BY <1>2, <1>3, <1>4, <1>5, <1>6, <1>7 DEF Next

\* As long as one command at a time moves the subscription, --offset skips no more
\* than it was asked to, whatever daemons pull between the two calls that it makes.
THEOREM OffsetSkipsAtMostAsked ==
    ASSUME OneCommand PROVE Spec => SkipsAtMostAsked
<1>1. Init => Ahead
  BY DEF Init, Ahead
<1>2. TypeInv /\ TypeInv' /\ Ahead /\ [Next]_vars => Ahead'
  BY MoveAhead
<1>3. ASSUME TypeInv, Ahead, Next, NEW p \in Procs, pc[p] = "modify", pc'[p] # "modify"
      PROVE  offset' - offset <= Max({0, delta[p]})
  <2>1. ModifyOffset(p)
    <3>1. CASE (\E kind \in Kinds : Publish(kind)) \/ Purge
      BY <1>3, <3>1 DEF Publish, Purge
    <3>2. ASSUME NEW q \in Commands, Command(q) PROVE FALSE
      BY <1>3, <3>2 DEF Command, TypeInv, TypeOK, Procs
    <3>3. ASSUME NEW q \in Procs, Step(q) PROVE q = p /\ ModifyOffset(p)
      <4>1. \E l \in Places : Goto(q, l)
        <5>1. \/ \E l \in {"modify", "print", "exited", "pull", "handle"} : Goto(q, l)
              \/ Goto(q, Resting(q))
          BY <3>3 DEF Step, GetOffsets, ModifyOffset, PullAndPrint, PullMessages, PullFails,
             Handle, GivesUp
        <5> QED BY <1>3, <5>1, AckerTypes
      <4>2. q = p
        BY <1>3, <4>1, GotoEffect DEF TypeInv
      <4> QED BY <1>3, <3>3, <4>2 DEF Step, GetOffsets, PullAndPrint, PullMessages,
              PullFails, Handle, GivesUp, Connects
    <3>4. ASSUME NEW q \in Daemons, Restart(q) PROVE FALSE
      BY <1>3, <3>4, GotoEffect, AckerTypes DEF Restart, TypeInv, Procs
    <3> QED BY <1>3, <3>1, <3>2, <3>3, <3>4 DEF Next
  <2>2. /\ offset' = offset \/ offset' = new_offset[p]
        /\ new_offset[p] - offset <= Max({0, delta[p]})
    BY <1>3, <2>1 DEF ModifyOffset, Advance, Ahead
  <2>3. /\ offset \in Nat /\ delta[p] \in Deltas \cup {0}
    BY <1>3 DEF TypeInv, TypeOK
  <2>4. \A d \in Deltas : d \in Int
    BY SubscriptionAssumption, Zenon
  <2>5. Max({0, delta[p]}) \in Nat
    BY <2>3, <2>4, MaxOfTwo
  <2> QED BY <2>2, <2>3, <2>5
<1>4. TypeInv /\ Ahead /\ [Next]_vars =>
          [\A p \in Procs : pc[p] = "modify" /\ pc'[p] # "modify" =>
                offset' - offset <= Max({0, delta[p]})]_vars
  BY <1>3
<1>5. SubscriptionInv => TypeInv
  BY DEF SubscriptionInv
<1> QED BY <1>1, <1>2, <1>4, <1>5, SubscriptionInvHolds, PTL DEF Spec, SkipsAtMostAsked
===============================================================================

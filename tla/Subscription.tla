------------------------------ MODULE Subscription ------------------------------
(***************************************************************************)
(* The AMS subscription and everybody who pulls from it or moves it: the   *)
(* pipeline of argo-cpasd and argo-cpas, and the modes --only-ams, with    *)
(* or without --offset, and --only-webapi.                                 *)
(***************************************************************************)
EXTENDS Integers, Sequences, FiniteSetsExt

CONSTANTS
    Daemons,        \* argo-cpasd processes
    Commands,       \* argo-cpas processes
    Managed,        \* automation.tenants is set
    Acks,           \* what ams.ack may be
    PullMsgs,       \* ams.pullmsgs
    Deltas,         \* what --offset may ask for
    MaxPublished,   \* bound on the messages published
    MaxCommands,    \* bound on how often argo-cpas is started
    Faults,         \* "ams", "pull", "ack", "exception", "purge"
    MaxFaults       \* bound on their number

Procs == Daemons \cup Commands
Modes == {"pipeline", "only_ams", "only_webapi"}

\* "event": matches the filters; "other": does not, or is no JSON; "nonobject":
\* JSON that is not an object.
Kinds == {"event", "other", "nonobject"}

ASSUME SubscriptionAssumption ==
    /\ Daemons \cap Commands = {}
    /\ Managed \in BOOLEAN /\ Acks \subseteq BOOLEAN
    /\ PullMsgs \in Nat \ {0} /\ Deltas \subseteq Int
    /\ MaxPublished \in Nat /\ MaxCommands \in Nat /\ MaxFaults \in Nat

VARIABLES
    topic,      \* kinds of the messages, in the order of publication
    min,        \* how many of the oldest AMS has dropped
    offset,     \* of the subscription: how many are behind it
    ack,        \* ams.ack, fixed at the start
    pc, mode,   \* where each process is, and what it was started for
    delta,      \* --offset of each process, 0 when it is not given
    add,        \* whether --add-tenants is given
    new_offset, \* what each process is about to set
    ams_events, \* what each process has pulled
    commands, faults,
    handled,    \* history: messages whose event went through the event loop
    acker,      \* history: who moved the offset over each message, last
    lost,       \* history: messages of a pull or a cycle that failed
    moved       \* history: --offset has moved the subscription

options == <<mode, delta, add>>
histories == <<handled, acker, lost, moved>>
vars == <<topic, min, offset, ack, pc, options, new_offset, ams_events, commands,
          faults, histories>>

Init ==
    /\ topic = <<>> /\ min = 0 /\ offset = 0 /\ ack \in Acks
    /\ pc = [p \in Procs |-> IF p \in Daemons THEN "pull" ELSE "exited"]
    /\ mode = [p \in Procs |-> "pipeline"]
    /\ delta = [p \in Procs |-> 0] /\ add = [p \in Procs |-> FALSE]
    /\ new_offset = [p \in Procs |-> 0] /\ ams_events = [p \in Procs |-> {}]
    /\ commands = 0 /\ faults = 0
    /\ handled = {} /\ acker = [i \in 1..MaxPublished |-> "nobody"] /\ lost = {}
    /\ moved = FALSE

\* The process goes to label l; an argo-cpas that ends forgets its options.
Goto(p, l) ==
    /\ pc' = [pc EXCEPT ![p] = l]
    /\ IF l = "exited"
       THEN /\ mode'  = [mode  EXCEPT ![p] = "pipeline"]
            /\ delta' = [delta EXCEPT ![p] = 0]
            /\ add'   = [add   EXCEPT ![p] = FALSE]
       ELSE UNCHANGED options
NoFault == faults' = faults
Fault(kind) == kind \in Faults /\ faults < MaxFaults /\ faults' = faults + 1

\* The offset goes from one value to another, over the messages between.
Advance(to, who) ==
    /\ offset' = to
    /\ acker' = [i \in DOMAIN acker |-> IF i \in (offset + 1)..to THEN who ELSE acker[i]]

-------------------------------------------------------------------------------
Publish(kind) ==
    /\ Len(topic) < MaxPublished
    /\ topic' = Append(topic, kind)
    /\ NoFault
    /\ UNCHANGED <<min, offset, ack, pc, options, new_offset, ams_events, commands,
                   histories>>

\* AMS keeps messages for a limited time.
Purge ==
    /\ Fault("purge")
    /\ min < Len(topic) /\ min' = min + 1
    /\ Advance(Max({offset, min + 1}), "purge")
    /\ UNCHANGED <<topic, ack, pc, options, new_offset, ams_events, commands, handled,
                   lost, moved>>

\* Whether the mode pulls events to learn for which tenants to refresh tokens.
\* (Mutant: always.)
PullsTenantsAlways(adds) == ~adds
PullsTenants(adds) == ~adds /\ ~Managed

\* argo-cpas is started in one of its modes.
Command(p) ==
    /\ pc[p] = "exited" /\ commands < MaxCommands
    /\ commands' = commands + 1
    /\ \E m \in Modes, d \in Deltas \cup {0}, adds \in BOOLEAN :
        /\ m # "only_ams" => d = 0
        /\ m = "pipeline" => ~adds
        /\ mode' = [mode EXCEPT ![p] = m]
        /\ delta' = [delta EXCEPT ![p] = d]
        /\ add' = [add EXCEPT ![p] = adds]
        /\ pc' = [pc EXCEPT ![p] =
                CASE m = "pipeline" -> "pull"
                  [] m = "only_ams" -> IF d = 0 THEN "print" ELSE "offsets"
                  [] m = "only_webapi" -> IF PullsTenants(adds) THEN "pull" ELSE "exited"]
    /\ NoFault
    /\ UNCHANGED <<topic, min, offset, ack, new_offset, ams_events, histories>>

\* AMS() is next: at the start of a cycle, of --only-webapi's pull, of --only-ams.
Connects(p) == \/ pc[p] = "pull" /\ mode[p] # "only_ams"
               \/ pc[p] = "offsets"
               \/ pc[p] = "print" /\ delta[p] = 0

\* AMS() exits when it cannot confirm the subscription, and takes the daemon with it ...
GivesUp(p) ==
    /\ Connects(p)
    /\ Fault("ams")
    /\ Goto(p, "exited")
    /\ UNCHANGED <<topic, min, offset, ack, new_offset, ams_events, commands, histories>>

\* ... until an operator starts it again.
Restart(p) ==
    /\ pc[p] = "exited"
    /\ Goto(p, "pull")
    /\ NoFault
    /\ UNCHANGED <<topic, min, offset, ack, new_offset, ams_events, commands, histories>>

\* The offset that --offset n leads to.  (Mutants: counted from the end; not kept
\* within the subscription.)
NewOffsetUnclamped(n) == offset + n
NewOffsetFromEnd(n) == Max({min, Min({Len(topic), Len(topic) + n})})
NewOffset(n) == Max({min, Min({Len(topic), offset + n})})

\* move_offset reads the offsets ...
GetOffsets(p) ==
    /\ pc[p] = "offsets"
    /\ new_offset' = [new_offset EXCEPT ![p] = NewOffset(delta[p])]
    /\ Goto(p, "modify")
    /\ NoFault
    /\ UNCHANGED <<topic, min, offset, ack, ams_events, commands, histories>>

\* ... and sets what it made of them; AMS refuses an offset that is out of range,
\* and the exception ends the command.
ModifyOffset(p) ==
    /\ pc[p] = "modify"
    /\ IF new_offset[p] \in min..Len(topic)
       THEN /\ Advance(new_offset[p], "operator")
            /\ moved' = TRUE
            /\ Goto(p, "print")
       ELSE /\ Goto(p, "exited")
            /\ UNCHANGED <<offset, acker, moved>>
    /\ new_offset' = [new_offset EXCEPT ![p] = 0]
    /\ NoFault
    /\ UNCHANGED <<topic, min, ack, ams_events, commands, handled, lost>>

\* pull_and_print acknowledges nothing; a payload that is not an object raises out
\* of the filter where --filter-events is given.
PullAndPrint(p) ==
    /\ pc[p] = "print"
    /\ \/ Goto(p, IF PullsTenants(add[p]) THEN "pull" ELSE "exited")
       \/ /\ \E i \in (offset + 1)..Min({offset + PullMsgs, Len(topic)}) :
                topic[i] = "nonobject"
          /\ Goto(p, "exited")
    /\ NoFault
    /\ UNCHANGED <<topic, min, offset, ack, new_offset, ams_events, commands,
                   histories>>

-------------------------------------------------------------------------------
\* The end of a cycle, or of the command.
Resting(p) == IF p \in Daemons THEN "pull" ELSE "exited"

\* What the pull leaves behind the offset.  (Mutants: pull_sub whatever ams.ack says,
\* pullack_sub whatever it says.)
AckedUpToNever(last) == offset
AckedUpToAlways(last) == last
AckedUpTo(last) == IF ack THEN last ELSE offset

\* What a process does with what it pulled: the modes only refresh tokens.
Kept(p, matched) == IF mode[p] = "pipeline" THEN matched ELSE {}

\* pull_messages.  One payload that is not an object loses what was pulled with it.
PullMessages(p) ==
    LET last    == Min({offset + PullMsgs, Len(topic)})
        pulled  == (offset + 1)..last
        matched == {i \in pulled : topic[i] = "event"}
        raises  == \E i \in pulled : topic[i] = "nonobject"
    IN  /\ pc[p] = "pull"
        /\ Advance(AckedUpTo(last), mode[p])
        /\ IF raises \/ Kept(p, matched) = {}
           THEN /\ Goto(p, Resting(p))
                /\ lost' = lost \cup (IF raises THEN matched ELSE {})
                /\ ams_events' = ams_events
           ELSE /\ Goto(p, "handle")
                /\ ams_events' = [ams_events EXCEPT ![p] = matched]
                /\ lost' = lost
        /\ NoFault
        /\ UNCHANGED <<topic, min, ack, new_offset, commands, handled, moved>>

\* A pull that fails returns no messages, also when pullack_sub had pulled them and
\* only the answer to its acknowledgement was lost.
PullFails(p) ==
    LET last == Min({offset + PullMsgs, Len(topic)})
    IN  /\ pc[p] = "pull"
        /\ \/ Fault("pull") /\ UNCHANGED <<offset, acker, lost>>
           \/ /\ ack /\ Fault("ack")
              /\ Advance(last, mode[p])
              /\ lost' = lost \cup (offset + 1)..last
        /\ Goto(p, Resting(p))
        /\ UNCHANGED <<topic, min, ack, new_offset, ams_events, commands,
                       handled, moved>>

\* The event loop; an exception ends the cycle before its end.
Handle(p) ==
    /\ pc[p] = "handle"
    /\ \E done \in SUBSET ams_events[p] :
        /\ IF done = ams_events[p] THEN NoFault ELSE Fault("exception")
        /\ handled' = handled \cup done
        /\ lost' = lost \cup (ams_events[p] \ done)
    /\ ams_events' = [ams_events EXCEPT ![p] = {}]
    /\ Goto(p, Resting(p))
    /\ UNCHANGED <<topic, min, offset, ack, new_offset, commands, acker, moved>>

Step(p) == GetOffsets(p) \/ ModifyOffset(p) \/ PullAndPrint(p)
           \/ PullMessages(p) \/ PullFails(p) \/ Handle(p) \/ GivesUp(p)

Next == \/ \E kind \in Kinds : Publish(kind)
        \/ Purge
        \/ \E p \in Commands : Command(p)
        \/ \E p \in Daemons : Restart(p)
        \/ \E p \in Procs : Step(p)

Spec == Init /\ [][Next]_vars

\* A process that runs is scheduled, and its calls come back; nobody has to start one.
FairSpec == Spec /\ \A p \in Procs : WF_vars(Step(p))

-------------------------------------------------------------------------------
\* Types: the offset stays between the oldest message AMS keeps and the end.
TypeOK ==
    /\ topic \in Seq(Kinds) /\ Len(topic) <= MaxPublished
    /\ min \in 0..Len(topic) /\ offset \in min..Len(topic)
    /\ ack \in Acks
    /\ pc \in [Procs -> {"exited", "offsets", "modify", "print", "pull", "handle"}]
    /\ mode \in [Procs -> Modes]
    /\ delta \in [Procs -> Deltas \cup {0}] /\ add \in [Procs -> BOOLEAN]
    /\ new_offset \in [Procs -> 0..MaxPublished]
    /\ ams_events \in [Procs -> SUBSET (1..MaxPublished)]
    /\ commands \in 0..MaxCommands /\ faults \in 0..MaxFaults
    /\ handled \subseteq 1..MaxPublished /\ lost \subseteq 1..MaxPublished
    /\ acker \in [1..MaxPublished -> Modes \cup {"nobody", "operator", "purge"}]
    /\ moved \in BOOLEAN

Accounted(i) == i \in handled \cup lost \/ acker[i] \in {"operator", "purge"}

\* With automation.tenants set, an event behind the offset went through the event
\* loop or is in the hands of a process that will take it there, unless the
\* operator moved the offset over it, AMS dropped it, or its pull or cycle failed:
\* no mode that only looks at the subscription swallows it.
NothingSkipped ==
    \A i \in 1..offset :
        Managed /\ topic[i] = "event" =>
            Accounted(i) \/ \E p \in Procs : i \in ams_events[p]

\* --offset never skips more than it was asked to, even though a daemon or the
\* portal may move the subscription between the two calls it makes.
SkipsAtMostAsked ==
    [][\A p \in Procs : pc[p] = "modify" /\ pc'[p] # "modify" =>
            offset' - offset <= Max({0, delta[p]})]_vars

\* Without ack nothing gets past the first pullmsgs messages, whatever is published
\* and however many processes pull, until somebody moves the offset.
StuckWithoutAck ==
    ~ack /\ ~moved /\ min = 0 => handled \subseteq 1..PullMsgs

\* With ack every event is reached in the end, whoever else pulls and whatever fails on
\* the way, unless an outage of AMS has ended every daemon.
Down == \A p \in Daemons : pc[p] = "exited"
EventuallyHandled ==
    \A i \in 1..MaxPublished :
        (i \in DOMAIN topic /\ ack /\ Managed) ~>
            (i \in DOMAIN topic /\ (topic[i] # "event" \/ Accounted(i) \/ Down))

\* --only-ams always pulls without ack, regardless of the ack setting (README.md).
OnlyAmsNeverAcks == \A i \in 1..MaxPublished : acker[i] # "only_ams"
===============================================================================

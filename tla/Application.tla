------------------------------- MODULE Application -------------------------------
(***************************************************************************)
(* The whole service: processes that run pipeline cycles (argo-cpasd again *)
(* and again, argo-cpas once each time it is started) next to the portal   *)
(* that publishes events, the operator, and the faults of the environment. *)
(***************************************************************************)
EXTENDS PlaybookEvents, MonboxEvents

Init ==
    /\ topic = << >> /\ offset = 0
    /\ status = [j \in Jobs |-> "NONE"]
    /\ spool = [t \in TokenTypes |-> {}]
    /\ restSpool = InitialRestTokens
    /\ configured = {} /\ monboxes = {}
    /\ git = [r \in Repos |-> {}]
    /\ pc = [p \in Procs |-> IF p \in Daemons THEN "idle" ELSE "exited"]
    /\ run = [p \in Procs |-> NewCycle]
    /\ stop = [p \in Procs |-> FALSE]
    /\ faults = 0

-------------------------------------------------------------------------------
\* The loop of argo-cpasd leaves when the stop event is set.
DaemonStops(p) ==
    /\ pc[p] = "idle" /\ stop[p]
    /\ Goto(p, "exited", NewCycle)
    /\ NoFault
    /\ UNCHANGED <<amsVars, spoolVars, hostVars, status, git, stop>>

\* SIGTERM or SIGINT sets the stop event; the cycle goes on.
Signal(p) ==
    /\ "stop" \in Operator
    /\ p \in Daemons /\ pc[p] # "exited"
    /\ stop' = [stop EXCEPT ![p] = TRUE]
    /\ NoFault
    /\ UNCHANGED <<amsVars, spoolVars, hostVars, status, git, pc, run>>

\* An exception other than ClientError escapes run(): a request that timed out on
\* every attempt, a git clone that failed, a file that cannot be written.
Raise(p) ==
    /\ pc[p] \notin {"idle", "exited"}
    /\ Fault("exception")
    /\ EndCycle(p)
    /\ UNCHANGED <<amsVars, spoolVars, hostVars, status, git, stop>>

Crash(p) ==
    /\ pc[p] # "exited"
    /\ Fault("crash")
    /\ Goto(p, "exited", NewCycle)
    /\ UNCHANGED <<amsVars, spoolVars, hostVars, status, git, stop>>

\* The operator starts a process.
Start(p) ==
    /\ "start" \in Operator
    /\ pc[p] = "exited"
    /\ Goto(p, "idle", NewCycle)
    /\ stop' = [stop EXCEPT ![p] = FALSE]
    /\ NoFault
    /\ UNCHANGED <<amsVars, spoolVars, hostVars, status, git>>

\* argo-cpas --only-statusapi <tenant> --event <event> --update-status <s>.
UpdateStatus(j, s) ==
    /\ "update" \in Operator
    /\ status[j] # "NONE" /\ s \in OperatorStatuses
    /\ status' = [status EXCEPT ![j] = s]
    /\ NoFault
    /\ UNCHANGED <<amsVars, spoolVars, hostVars, git, pc, run, stop>>

\* The portal registers a job with the Status API and publishes its event; an
\* event may be published again.
Publish(m) ==
    LET j == <<m.tenant, m.name>>
    IN  /\ Len(topic) < MaxPublished
        /\ topic' = Append(topic, m)
        /\ status' = IF m.form = "event" /\ status[j] = "NONE"
                     THEN [status EXCEPT ![j] = "INITIALISED"] ELSE status
        /\ NoFault
        /\ UNCHANGED <<offset, spoolVars, hostVars, git, pc, run, stop>>

ProcessStep(p) == PlaybookStep(p) \/ MonboxStep(p) \/ DaemonStops(p)

Next ==
    \/ \E p \in Procs : \/ ProcessStep(p)
                        \/ Signal(p) \/ Raise(p) \/ Crash(p) \/ Start(p)
    \/ \E j \in Jobs, s \in Statuses : UpdateStatus(j, s)
    \/ \E m \in Messages : Publish(m)

Spec == Init /\ [][Next]_vars

\* A process that is running is scheduled, and its remote calls come back.
FairSpec == Spec /\ \A p \in Procs : WF_vars(ProcessStep(p))

-------------------------------------------------------------------------------
\* The state keeps its types, whatever fails: what processes hold are messages.
TypeOK ==
    /\ topic \in Seq(Messages) /\ offset \in Nat
    /\ status \in [Jobs -> Statuses]
    /\ spool \in [TokenTypes -> SUBSET (Tenants \X STRING)]
    /\ restSpool \subseteq Tenants
    /\ configured \subseteq Jobs
    /\ git \in [Repos -> SUBSET Tenants]
    /\ monboxes \subseteq BackendHosts \X Tenants
    /\ pc \in [Procs -> Labels]
    /\ run \in [Procs -> Cycle]
    /\ stop \in [Procs -> BOOLEAN]
    /\ faults \in 0..MaxFaults

\* A connector or POEM job is COMPLETED only if its playbook has configured the
\* tenant, whatever is lost, raised or killed on the way and however many
\* processes work on it.
CompletedMeansConfigured ==
    \A j \in Jobs :
        /\ status[j] = "COMPLETED"
        /\ EventPlaybook(j[2]) \in {"connectors", "poem"}
        => j \in configured

\* The same of the archiver, as its COMPLETED message says.
ArchiverCompletedMeansConfigured ==
    \A j \in Jobs :
        /\ status[j] = "COMPLETED"
        /\ EventPlaybook(j[2]) = "archiver"
        => j \in configured

\* A monitoring-box job is COMPLETED only if some backend host publishes for the
\* tenant.
CompletedMeansPublishing ==
    \A t \in Tenants :
        status[<<t, "INIT_MONITORING_BOX">>] = "COMPLETED" =>
            \E h \in BackendHosts : <<h, t>> \in monboxes

\* Without a fault no job is ever left IN_PROGRESS by everyone, not even when the
\* daemon is told to stop or two processes race for the job.
OrphanedOnlyByFault == (\E j \in Jobs : Orphaned(j)) => faults > 0

\* From the puppet run on, the tenants added in this cycle are in both
\* configuration branches.
PushedBeforePuppet ==
    \A p \in Procs :
        pc[p] \in {"puppet", "check", "report_monbox"} => run[p].new_tenant_entries \subseteq git["backend"] \cap git["agent"]

\* A single daemon never works on a job that is finished, whatever it lost or how
\* often the event is delivered.
WorksOnOpenJobs ==
    \A p \in Procs :
        pc[p] \notin {"idle", "exited", "report", "fail", "report_monbox"} =>
            \A j \in Holding(p) : status[j] \notin Terminal

\* A job that a crash, a lost update or an exception has orphaned is nobody's for
\* ever: the next cycles do not take it up, however often the daemon restarts and its
\* event is delivered, until an operator sets its status.
OrphansStay ==
    [][\A j \in Jobs : Orphaned(j) => Orphaned(j)' \/ status'[j] \in OperatorStatuses]_vars

\* An acknowledged event is never delivered again, so some process must still have
\* it in hand while its job is INITIALISED: only a fault, or a payload that is not
\* an object pulled with it, loses an event.
Served(j) == /\ j[1] \notin FilteredTenants
             /\ MatchesFilter([tenant |-> j[1], name |-> j[2], form |-> "event"])
             /\ \/ EventPlaybook(j[2]) # "none"
                \/ j[2] = "INIT_MONITORING_BOX"
InHand(p) == {Job(i) : i \in run[p].todo \cup run[p].monbox_init_events}
AckedNotLost ==
    \A i \in 1..Len(topic) :
        /\ i <= offset
        /\ Served(Job(i)) /\ status[Job(i)] = "INITIALISED"
        /\ topic[i].form = "event"
        /\ \A k \in 1..Len(topic) : topic[k].form # "nonobject"
        => faults > 0 \/ \E p \in Procs : Job(i) \in InHand(p)

-------------------------------------------------------------------------------
\* The statuses go through the life cycle that the service promises.
Lifecycle == INSTANCE JobLifecycle
FollowsLifecycle == Lifecycle!Spec

\* Every job in reach of the daemon is finished in the end, unless it is orphaned
\* or the daemon goes down.
Down == \E p \in Daemons : pc[p] = "exited"
JobsSettle ==
    \A j \in {k \in Jobs : Served(k)} :
        status[j] = "INITIALISED" ~> (status[j] \in Terminal \/ Orphaned(j) \/ Down)

\* A stop signal ends the daemon, after the cycle it is in.
StopHonoured == \A p \in Daemons : stop[p] ~> pc[p] = "exited"
===============================================================================

------------------------------- MODULE CpasState -------------------------------
(***************************************************************************)
(* The state of argo-automation-cpas: what is shared between processes     *)
(* (the AMS subscription, the Status API, the token spool files, the git   *)
(* branches of the monitoring boxes, the hosts) and what one process keeps *)
(* while it runs one pipeline cycle (the locals of Application.run and of  *)
(* the objects it builds).  The remote calls every component makes are     *)
(* here; PlaybookEvents and MonboxEvents are the steps made of them.       *)
(***************************************************************************)
EXTENDS Integers, Sequences, FiniteSets, FiniteSetsExt

CONSTANTS
    Procs,              \* every process that may run the pipeline
    Daemons,            \* those that are argo-cpasd; the others are argo-cpas
    Tenants,
    FilteredTenants,    \* automation.filter_tenants
    ManagedTenants,     \* automation.tenants, {} when it is not set
    AmsEvents,          \* ams.events, {} when it is not set
    PlaybookKind,       \* by event, the prefix of the configured playbook name
    ManualTokens,       \* tenants with a manual connector token
    Components,         \* webapi.components and ams.components
    InitialRestTokens,  \* tenants in the REST-API token spool at the start
    Ack,                \* ams.ack
    PullMsgs,           \* ams.pullmsgs
    InitCheckCount,     \* monboxgit.init_check_count
    BackendHosts,       \* hosts of the group sensu-backend
    Messages,           \* what the portal may publish
    MaxPublished,       \* bound on the messages published
    Faults,             \* kinds of fault that may happen
    MaxFaults,          \* bound on their number
    Operator,           \* what the operator does: "start", "stop", "update"
    OperatorStatuses    \* statuses the operator sets with --update-status

MappedEvents == {"INIT_TOPOLOGY_CONNECTOR", "INIT_POEM", "INIT_ARCHIVER"}
EventNames   == MappedEvents \cup {"INIT_MONITORING_BOX", "OTHER"}
Jobs         == Tenants \X EventNames
Statuses     == {"NONE", "INITIALISED", "IN_PROGRESS", "COMPLETED", "FAILED"}
Terminal     == {"COMPLETED", "FAILED"}
TokenTypes   == {"webapi", "ams"}
Repos        == {"backend", "agent"}
PlaybookKinds == {"connectors", "poem", "archiver"}

\* "unusable": not JSON, or without a tenant; "nonobject": JSON, not an object.
Message == [tenant : Tenants, name : EventNames,
            form : {"event", "unusable", "nonobject"}]

ASSUME ConfigAssumption ==
    /\ Daemons \subseteq Procs
    /\ PlaybookKind \in [MappedEvents -> PlaybookKinds \cup {"other", "none"}]
    /\ Components \in [TokenTypes -> SUBSET STRING]
    /\ InitialRestTokens \subseteq Tenants
    /\ Ack \in BOOLEAN /\ PullMsgs \in Nat /\ InitCheckCount \in Nat
    /\ Messages \subseteq Message
    /\ MaxPublished \in Nat /\ MaxFaults \in Nat
    /\ OperatorStatuses \subseteq Statuses \ {"NONE"}

VARIABLES
    topic,      \* messages of the AMS topic, in the order of publication
    offset,     \* how many of them the subscription has acknowledged
    status,     \* the Status API: the status of every job
    spool,      \* component tokens in the spool files, as <<tenant, component>>
    restSpool,  \* tenants with a token in the REST-API token spool
    configured, \* jobs whose tenant the playbooks have configured on the hosts
    git,        \* tenants in the config file of each monitoring-box branch
    monboxes,   \* <<host, tenant>>: monitoring boxes that publish metrics
    pc,         \* where each process is
    run,        \* its locals
    stop,       \* its stop event
    faults      \* number of faults so far

hostVars  == <<configured, monboxes>>
spoolVars == <<spool, restSpool>>
amsVars   == <<topic, offset>>
vars == <<topic, offset, status, spool, restSpool, configured, git, monboxes,
          pc, run, stop, faults>>

-------------------------------------------------------------------------------
\* Loops run over positions of the topic, in the order of the topic: "todo" is
\* what is left of the list that the current loop iterates over.
Cycle == [todo : SUBSET Nat,                \* ams_events, later init_events
          monbox_init_events : SUBSET Nat,
          token : BOOLEAN,                  \* the services accept the IAM token
          tokens : [TokenTypes -> SUBSET (Tenants \X STRING)],
          any_refresh : BOOLEAN,
          restapi_tokens : SUBSET Tenants,
          ok : BOOLEAN,                     \* of Ansible.run
          new_tenant_entries : SUBSET Tenants,
          yaml_data : SUBSET Tenants,
          backend_commit_status : BOOLEAN,
          checks : Nat,
          all_tenants_inited : BOOLEAN,
          inited_tenants : SUBSET Tenants]

NewCycle == [todo |-> {}, monbox_init_events |-> {}, token |-> FALSE,
             tokens |-> [t \in TokenTypes |-> {}], any_refresh |-> FALSE,
             restapi_tokens |-> {}, ok |-> FALSE, new_tenant_entries |-> {},
             yaml_data |-> {}, backend_commit_status |-> FALSE, checks |-> 0,
             all_tenants_inited |-> FALSE, inited_tenants |-> {}]

Labels == {"idle", "exited", "iam",
           "refresh_webapi", "save_webapi", "refresh_ams", "save_ams",
           "events", "recheck", "claim", "playbook", "report",
           "add", "add_claim", "push_backend", "download_agent", "push_agent",
           "fail", "puppet", "check", "report_monbox"}

Job(i) == <<topic[i].tenant, topic[i].name>>
Current(p) == Min(run[p].todo)
CurrentJob(p) == Job(Current(p))
Rest(p) == run[p].todo \ {Current(p)}

\* The process goes to label l with locals r.
Goto(p, l, r) == /\ pc'  = [pc  EXCEPT ![p] = l]
                 /\ run' = [run EXCEPT ![p] = r]

\* run() returned or raised: argo-cpasd sleeps until its next cycle (it logs
\* whatever exception escaped), argo-cpas exits.
EndCycle(p) == Goto(p, IF p \in Daemons THEN "idle" ELSE "exited", NewCycle)

-------------------------------------------------------------------------------
\* Faults of the environment, each kind drawn from one budget.
NoFault == faults' = faults
Fault(kind) == /\ kind \in Faults
               /\ faults < MaxFaults
               /\ faults' = faults + 1

\* get_job_status returns seen; a ClientError (lost, or a refused token) is None.
GetStatus(p, j, seen) ==
    \/ run[p].token  /\ NoFault       /\ seen = status[j]
    \/ run[p].token  /\ Fault("lost") /\ seen = "NONE"
    \/ ~run[p].token /\ NoFault       /\ seen = "NONE"

\* update_job_status: a ClientError is logged and the caller goes on.
PatchStatus(p, j, s) ==
    \/ run[p].token  /\ NoFault       /\ status' = [status EXCEPT ![j] = s]
    \/ run[p].token  /\ Fault("lost") /\ status' = status
    \/ ~run[p].token /\ NoFault       /\ status' = status

\* Jobs that a process took up, or is about to report on, in its cycle.
Holding(p) ==
    CASE pc[p] \in {"playbook", "report"} -> {CurrentJob(p)}
      [] pc[p] \in {"fail", "report_monbox"} -> {Job(i) : i \in run[p].todo}
      [] pc[p] \in {"add", "add_claim", "push_backend", "download_agent",
                    "push_agent", "puppet", "check"} ->
            {Job(i) : i \in run[p].monbox_init_events}
      [] OTHER -> {}

\* In progress, and no process will ever report on it.
Orphaned(j) == status[j] = "IN_PROGRESS" /\ \A p \in Procs : j \notin Holding(p)
===============================================================================

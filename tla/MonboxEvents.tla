------------------------------ MODULE MonboxEvents ------------------------------
(***************************************************************************)
(* _process_monbox_init_events: queue and claim the tenants, push them to  *)
(* the two configuration branches, run puppet, wait for the monitoring     *)
(* boxes to publish, report.                                               *)
(***************************************************************************)
EXTENDS CpasState

-------------------------------------------------------------------------------
\* add_new_tenant.  The REST-API tokens are those read when the cycle began;
\* the component tokens are read from the spool files again.
CanAdd(p, tenant) ==
    /\ tenant \notin run[p].new_tenant_entries
    /\ tenant \in run[p].restapi_tokens
    /\ <<tenant, "monbox">> \in spool["webapi"]
    /\ <<tenant, "argo-monbox">> \in spool["ams"]

AddNewTenant(p) ==
    LET tenant == topic[Current(p)].tenant
    IN  /\ pc[p] = "add" /\ run[p].todo # {}
        /\ IF CanAdd(p, tenant)
           THEN Goto(p, "add_claim", [run[p] EXCEPT !.new_tenant_entries = @ \cup {tenant}])
           ELSE Goto(p, "add", [run[p] EXCEPT !.todo = Rest(p)])
        /\ NoFault
        /\ UNCHANGED <<amsVars, spoolVars, hostVars, status, git, stop>>

ClaimMonbox(p) ==
    /\ pc[p] = "add_claim"
    /\ PatchStatus(p, CurrentJob(p), "IN_PROGRESS")
    /\ Goto(p, "add", [run[p] EXCEPT !.todo = Rest(p)])
    /\ UNCHANGED <<amsVars, spoolVars, hostVars, git, stop>>

-------------------------------------------------------------------------------
\* commit_new_tenants: clone a branch and read the file ...
DownloadConfig(p, repo, at, next) ==
    /\ pc[p] = at /\ run[p].todo = {}
    /\ Goto(p, next, [run[p] EXCEPT !.yaml_data = git[repo]])
    /\ NoFault
    /\ UNCHANGED <<amsVars, spoolVars, hostVars, status, git, stop>>

\* ... then overwrite the file on top of a fresh fetch.  Any exception counts as
\* an unsuccessful commit, also one raised after the push has gone through.
PushConfig(repo, content, committed) ==
    \/ committed  /\ NoFault      /\ git' = [git EXCEPT ![repo] = content]
    \/ ~committed /\ Fault("git") /\ \/ git' = git
                                     \/ git' = [git EXCEPT ![repo] = content]

\* Both branches must have been committed.  (Mutant: the second one is not asked.)
CommitOfBackendOnly(backend, agent) == backend
CommitSuccess(backend, agent) == backend /\ agent

NewConfig(p) == run[p].yaml_data \cup run[p].new_tenant_entries

CommitBackend(p) ==
    /\ pc[p] = "push_backend"
    /\ \E committed \in BOOLEAN :
        /\ PushConfig("backend", NewConfig(p), committed)
        /\ Goto(p, "download_agent",
                [run[p] EXCEPT !.backend_commit_status = committed])
    /\ UNCHANGED <<amsVars, spoolVars, hostVars, status, stop>>

CommitAgent(p) ==
    /\ pc[p] = "push_agent"
    /\ \E committed \in BOOLEAN :
        /\ PushConfig("agent", NewConfig(p), committed)
        /\ IF CommitSuccess(run[p].backend_commit_status, committed)
           THEN Goto(p, "puppet", run[p])
           ELSE Goto(p, "fail", [run[p] EXCEPT !.todo = run[p].monbox_init_events])
    /\ UNCHANGED <<amsVars, spoolVars, hostVars, status, stop>>

-------------------------------------------------------------------------------
\* start_monboxgit_runner: run-puppet.sh reaches some of the backend hosts, which
\* then publish for the tenants in both configurations.  Only rc 1 is a failure:
\* a run with failed or unreachable hosts (rc 2 or 4) goes on.
RunPuppet(p) ==
    /\ pc[p] = "puppet"
    /\ \E rc \in {0, 1, 2}, reached \in SUBSET BackendHosts :
        /\ rc = 0 => reached = BackendHosts
        /\ monboxes' = monboxes \cup (reached \X (git["backend"] \cap git["agent"]))
        /\ IF rc = 1
           THEN Goto(p, "fail", [run[p] EXCEPT !.todo = run[p].monbox_init_events])
           ELSE Goto(p, "check", run[p])
    /\ NoFault
    /\ UNCHANGED <<amsVars, spoolVars, configured, status, git, stop>>

\* _check_if_all_tenants_inited counts the lines that name a queued tenant.
\* (Mutant: one line is enough.)
AllInitedIfAny(lines, entries) == lines # {} \/ entries = {}
AllInited(lines, entries) == Cardinality(lines) = Cardinality(entries)

\* start_monbox_init_check: every backend host prints the tenants it publishes
\* for; a monitoring box may take its time.
CheckInit(p) ==
    LET entries == run[p].new_tenant_entries
    IN  /\ pc[p] = "check" /\ ~run[p].all_tenants_inited
        /\ run[p].checks < InitCheckCount
        /\ \E lines \in SUBSET (monboxes \cap (BackendHosts \X entries)) :
            Goto(p, "check", [run[p] EXCEPT
                !.checks = @ + 1,
                !.all_tenants_inited = AllInited(lines, entries),
                !.inited_tenants = {line[2] : line \in lines}])
        /\ NoFault
        /\ UNCHANGED <<amsVars, spoolVars, hostVars, status, git, stop>>

\* The loop of checks ends early, or with the last one.  (Mutant: it has no bound.)
ChecksUntilInited(p) == run[p].all_tenants_inited
ChecksOver(p) == run[p].all_tenants_inited \/ run[p].checks = InitCheckCount

\* The package updates change nothing that is kept here; the token is new.
FetchTokenAgain(p) ==
    /\ pc[p] = "check"
    /\ ChecksOver(p)
    /\ \E token \in BOOLEAN :
        /\ IF token THEN NoFault ELSE Fault("iam")
        /\ Goto(p, "report_monbox", [run[p] EXCEPT
                !.token = token, !.todo = run[p].monbox_init_events])
    /\ UNCHANGED <<amsVars, spoolVars, hostVars, status, git, stop>>

\* Every queued event is reported on, added or not.  (Mutant: the status word of
\* the README's example.)
InitOutcomeDone(p, tenant) == IF run[p].all_tenants_inited THEN "DONE" ELSE "FAILED"
InitOutcome(p, tenant) ==
    IF run[p].all_tenants_inited \/ tenant \in run[p].inited_tenants
    THEN "COMPLETED" ELSE "FAILED"

ReportMonbox(p) ==
    /\ pc[p] = "report_monbox" /\ run[p].todo # {}
    /\ PatchStatus(p, CurrentJob(p), InitOutcome(p, topic[Current(p)].tenant))
    /\ Goto(p, "report_monbox", [run[p] EXCEPT !.todo = Rest(p)])
    /\ UNCHANGED <<amsVars, spoolVars, hostVars, git, stop>>

ReportFailure(p) ==
    /\ pc[p] = "fail" /\ run[p].todo # {}
    /\ PatchStatus(p, CurrentJob(p), "FAILED")
    /\ Goto(p, "fail", [run[p] EXCEPT !.todo = Rest(p)])
    /\ UNCHANGED <<amsVars, spoolVars, hostVars, git, stop>>

\* The loops over the queued events, by the labels of their bodies, end when no
\* event is left.  (Mutant: they end after any of them.)
LoopAbandoned(p) == pc[p] \in {"fail", "report_monbox"}
LoopOver(p) == pc[p] \in {"fail", "report_monbox"} /\ run[p].todo = {}

\* The RuntimeError after the loop, or the normal return, ends the cycle.
EndMonbox(p) ==
    /\ LoopOver(p)
    /\ EndCycle(p)
    /\ NoFault
    /\ UNCHANGED <<amsVars, spoolVars, hostVars, status, git, stop>>

MonboxStep(p) ==
    \/ AddNewTenant(p) \/ ClaimMonbox(p)
    \/ DownloadConfig(p, "backend", "add", "push_backend") \/ CommitBackend(p)
    \/ DownloadConfig(p, "agent", "download_agent", "push_agent") \/ CommitAgent(p)
    \/ RunPuppet(p) \/ CheckInit(p) \/ FetchTokenAgain(p)
    \/ ReportMonbox(p) \/ ReportFailure(p) \/ EndMonbox(p)
===============================================================================

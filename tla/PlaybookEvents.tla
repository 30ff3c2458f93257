----------------------------- MODULE PlaybookEvents -----------------------------
(***************************************************************************)
(* The pipeline of Application.run up to the end of its event loop: pull   *)
(* from AMS, get the IAM token, refresh and save the component tokens,     *)
(* then for every event read the job status, claim the job, run its        *)
(* playbook and report.  A step ends where the code awaits a remote call   *)
(* or where another process may come in between two accesses to a file.    *)
(***************************************************************************)
EXTENDS CpasState

\* AMS._matches_filter, after _decode_message.
MatchesFilter(m) ==
    /\ m.form = "event"
    /\ ManagedTenants = {} \/ m.tenant \in ManagedTenants
    /\ AmsEvents = {} \/ m.name \in AmsEvents

\* _event_playbook: which playbook an event name maps to.
EventPlaybook(name) == IF name \in MappedEvents THEN PlaybookKind[name] ELSE "none"

\* The status under which an event is processed.  (Mutant: any status.)
ClaimableAlways(seen) == TRUE
Claimable(seen) == seen = "INITIALISED"

-------------------------------------------------------------------------------
\* AMS() exits the process when the subscription cannot be confirmed, since
\* SystemExit is no Exception; a pull that fails returns no messages.
AmsUnreachable(p) ==
    /\ pc[p] = "idle" /\ ~stop[p]
    /\ Fault("ams")
    /\ Goto(p, "exited", NewCycle)
    /\ UNCHANGED <<amsVars, spoolVars, hostVars, status, git, stop>>

PullFails(p) ==
    /\ pc[p] = "idle" /\ ~stop[p]
    /\ Fault("pull")
    /\ EndCycle(p)
    /\ UNCHANGED <<amsVars, spoolVars, hostVars, status, git, stop>>

\* pullack_sub acknowledges what it pulled, pull_sub nothing.  (Mutant: the number
\* asked for is acknowledged.)
AckedRequested(last) == IF Ack THEN offset + PullMsgs ELSE offset
AckedUpTo(last) == IF Ack THEN last ELSE offset

\* pull_messages.  A payload that is not an object raises out of the filter.
Pull(p) ==
    LET last    == Min({offset + PullMsgs, Len(topic)})
        matched == {i \in (offset + 1)..last : MatchesFilter(topic[i])}
        raises  == \E i \in (offset + 1)..last : topic[i].form = "nonobject"
    IN  /\ pc[p] = "idle" /\ ~stop[p]
        /\ NoFault
        /\ offset' = AckedUpTo(last)
        /\ IF raises \/ matched = {}
           THEN EndCycle(p)
           ELSE Goto(p, "iam", [NewCycle EXCEPT !.todo = matched,
                                                !.restapi_tokens = restSpool])
        /\ UNCHANGED <<topic, spoolVars, hostVars, status, git, stop>>

\* fetch_token, cached or new; None when the request fails.
FetchToken(p) ==
    /\ pc[p] = "iam"
    /\ \E token \in BOOLEAN :
        /\ IF token THEN NoFault ELSE Fault("iam")
        /\ Goto(p, "refresh_webapi", [run[p] EXCEPT !.token = token])
    /\ UNCHANGED <<amsVars, spoolVars, hostVars, status, git, stop>>

\* A cycle outlives the 30 s margin of the cached token.
TokenExpires(p) ==
    /\ run[p].token
    /\ Fault("expiry")
    /\ run' = [run EXCEPT ![p].token = FALSE]
    /\ UNCHANGED <<amsVars, spoolVars, hostVars, status, git, pc, stop>>

AllowedTenants(p) == {topic[i].tenant : i \in run[p].todo} \ FilteredTenants

\* refresh_tokens: load the spool, then one request per token it lacks.
RefreshTokens(p, type_tok, at, next) ==
    LET missing == (AllowedTenants(p) \X Components[type_tok]) \ spool[type_tok]
    IN  /\ pc[p] = at
        /\ \E failed \in SUBSET missing :
            /\ IF failed = {} THEN NoFault ELSE Fault("refresh")
            /\ Goto(p, next, [run[p] EXCEPT
                    !.tokens[type_tok] = spool[type_tok] \cup (missing \ failed),
                    !.any_refresh = missing # failed])
        /\ UNCHANGED <<amsVars, spoolVars, hostVars, status, git, stop>>

\* save_tokens overwrites the whole file with what was loaded and refreshed.
SaveTokens(p, type_tok, at, next) ==
    /\ pc[p] = at
    /\ spool' = IF run[p].any_refresh
                THEN [spool EXCEPT ![type_tok] = run[p].tokens[type_tok]]
                ELSE spool
    /\ Goto(p, next, [run[p] EXCEPT !.any_refresh = FALSE])
    /\ NoFault
    /\ UNCHANGED <<amsVars, restSpool, hostVars, status, git, stop>>

-------------------------------------------------------------------------------
SkipFiltered(p) ==
    /\ pc[p] = "events" /\ run[p].todo # {}
    /\ topic[Current(p)].tenant \in FilteredTenants
    /\ Goto(p, "events", [run[p] EXCEPT !.todo = Rest(p)])
    /\ NoFault
    /\ UNCHANGED <<amsVars, spoolVars, hostVars, status, git, stop>>

\* The status is read before it is known what the event asks for.
GetJobStatus(p) ==
    /\ pc[p] = "events" /\ run[p].todo # {}
    /\ topic[Current(p)].tenant \notin FilteredTenants
    /\ \E seen \in Statuses :
        LET name == topic[Current(p)].name
        IN  /\ GetStatus(p, CurrentJob(p), seen)
            /\ CASE EventPlaybook(name) # "none" /\ Claimable(seen) ->
                        Goto(p, "claim", run[p])
                 [] name = "INIT_MONITORING_BOX" ->
                        Goto(p, "recheck", run[p])
                 [] OTHER ->
                        Goto(p, "events", [run[p] EXCEPT !.todo = Rest(p)])
    /\ UNCHANGED <<amsVars, spoolVars, hostVars, status, git, stop>>

\* The second read, for monitoring boxes, queues the event.
RecheckMonbox(p) ==
    /\ pc[p] = "recheck"
    /\ \E seen \in Statuses :
        /\ GetStatus(p, CurrentJob(p), seen)
        /\ Goto(p, "events",
                [run[p] EXCEPT
                    !.todo = Rest(p),
                    !.monbox_init_events =
                        IF Claimable(seen) THEN @ \cup {Current(p)} ELSE @])
    /\ UNCHANGED <<amsVars, spoolVars, hostVars, status, git, stop>>

Claim(p) ==
    /\ pc[p] = "claim"
    /\ PatchStatus(p, CurrentJob(p), "IN_PROGRESS")
    /\ Goto(p, "playbook", run[p])
    /\ UNCHANGED <<amsVars, spoolVars, hostVars, git, stop>>

-------------------------------------------------------------------------------
\* Whether the extra variables name the tenant: it has the tokens its role needs.
HasTokens(p, tenant, kind) ==
    CASE kind = "connectors" -> \/ <<tenant, "connector">> \in run[p].tokens["webapi"]
                                \/ tenant \in ManualTokens
      [] kind = "poem"       -> \A c \in {"poem-viewer", "poem-admin"} :
                                    <<tenant, c>> \in run[p].tokens["webapi"]
      [] kind = "archiver"   -> <<tenant, "argo-archiver">> \in run[p].tokens["ams"]

\* A connector or POEM run without any tenant is refused; an archiver run is not.
Runs(p, tenant, kind) == kind = "archiver" \/ HasTokens(p, tenant, kind)

\* The verdict of Ansible.run on what ansible-runner returned.  (Mutant: any run
\* that ends is a success.)
VerdictIgnoresRc(rc) == TRUE
Verdict(rc) == rc = 0

\* Ansible.run for one tenant.  A run that fails may have done its work or not.
RunPlaybook(p) ==
    LET i      == Current(p)
        tenant == topic[i].tenant
        kind   == EventPlaybook(topic[i].name)
    IN  /\ pc[p] = "playbook" /\ kind \in PlaybookKinds
        /\ restSpool' = IF kind = "poem" THEN restSpool \cup {tenant} ELSE restSpool
        /\ \/ /\ ~Runs(p, tenant, kind)
              /\ configured' = configured
              /\ Goto(p, "report", [run[p] EXCEPT !.ok = FALSE])
           \/ /\ Runs(p, tenant, kind)
              /\ \E rc \in {0, 2}, done \in BOOLEAN :
                  /\ rc = 0 => done
                  /\ configured' = IF done /\ HasTokens(p, tenant, kind)
                                   THEN configured \cup {Job(i)} ELSE configured
                  /\ Goto(p, "report", [run[p] EXCEPT !.ok = Verdict(rc)])
        /\ NoFault
        /\ UNCHANGED <<amsVars, spool, monboxes, status, git, stop>>

\* "Invalid ansible playbook name": logged, and the loop goes on.
InvalidPlaybook(p) ==
    /\ pc[p] = "playbook"
    /\ EventPlaybook(topic[Current(p)].name) \notin PlaybookKinds
    /\ Goto(p, "events", [run[p] EXCEPT !.todo = Rest(p)])
    /\ NoFault
    /\ UNCHANGED <<amsVars, spoolVars, hostVars, status, git, stop>>

Report(p) ==
    /\ pc[p] = "report"
    /\ PatchStatus(p, CurrentJob(p), IF run[p].ok THEN "COMPLETED" ELSE "FAILED")
    /\ Goto(p, "events", [run[p] EXCEPT !.todo = Rest(p)])
    /\ UNCHANGED <<amsVars, spoolVars, hostVars, git, stop>>

\* (Mutant: an off-by-one in the test of the queue's length.)
StartMonboxIfSeveral(events) == Cardinality(events) > 1
StartMonboxInit(events) == Cardinality(events) > 0

\* The event loop is over: the monitoring boxes are next, if any is queued.
EndEvents(p) ==
    /\ pc[p] = "events" /\ run[p].todo = {}
    /\ IF StartMonboxInit(run[p].monbox_init_events)
       THEN Goto(p, "add", [run[p] EXCEPT !.todo = run[p].monbox_init_events])
       ELSE EndCycle(p)
    /\ NoFault
    /\ UNCHANGED <<amsVars, spoolVars, hostVars, status, git, stop>>

PlaybookStep(p) ==
    \/ AmsUnreachable(p) \/ PullFails(p) \/ Pull(p)
    \/ FetchToken(p) \/ TokenExpires(p)
    \/ RefreshTokens(p, "webapi", "refresh_webapi", "save_webapi")
    \/ SaveTokens(p, "webapi", "save_webapi", "refresh_ams")
    \/ RefreshTokens(p, "ams", "refresh_ams", "save_ams")
    \/ SaveTokens(p, "ams", "save_ams", "events")
    \/ SkipFiltered(p) \/ GetJobStatus(p) \/ RecheckMonbox(p)
    \/ Claim(p) \/ RunPlaybook(p) \/ InvalidPlaybook(p) \/ Report(p)
    \/ EndEvents(p)
===============================================================================

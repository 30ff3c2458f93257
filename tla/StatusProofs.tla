----------------------------- MODULE StatusProofs -----------------------------
(***************************************************************************)
(* That the statuses tell the truth: of any number of processes first,     *)
(* then of one at a time.                                                  *)
(*                                                                         *)
(* A connector or POEM job that is COMPLETED has been configured.  The     *)
(* property is not inductive: whoever is about to report must be known to  *)
(* have seen its playbook succeed (Reported), and the loop that reports on *)
(* monitoring boxes must be known to hold no other events (Queued).        *)
(***************************************************************************)
EXTENDS ApplicationProofs

Playbooks == {"connectors", "poem"}
Boxes == "INIT_MONITORING_BOX"

Earned(j, s, conf) ==
    s = "COMPLETED" /\ EventPlaybook(j[2]) \in Playbooks => j \in conf

\* What label l and locals r say, when the jobs in conf are configured.
Reported(l, r, conf) ==
    l = "report" /\ r.ok => Earned(Job(Min(r.todo)), "COMPLETED", conf)
Queued(l, r) ==
    /\ \A i \in r.monbox_init_events : topic[i].name = Boxes
    /\ l = "recheck" => topic[Min(r.todo)].name = Boxes
    /\ l = "report_monbox" => r.todo \subseteq r.monbox_init_events

CInv == /\ Inv /\ CompletedMeansConfigured
        /\ \A p \in Procs : Reported(pc[p], run[p], configured) /\ Queued(pc[p], run[p])

-------------------------------------------------------------------------------
\* A status only changes to one that is earned.
StatusEarned ==
    \/ status' = status
    \/ \E j \in Jobs, s \in Statuses : /\ Earned(j, s, configured')
                                       /\ status' = [status EXCEPT ![j] = s]

LEMMA CompletedStep ==
    ASSUME CInv, StatusEarned, configured \subseteq configured'
    PROVE  CompletedMeansConfigured'
<1>1. CASE status' = status
  BY <1>1 DEF CInv, CompletedMeansConfigured
<1>2. ASSUME NEW j \in Jobs, NEW s \in Statuses, Earned(j, s, configured'),
             status' = [status EXCEPT ![j] = s]
      PROVE  CompletedMeansConfigured'
  <2>1. ASSUME NEW k \in Jobs, status'[k] = "COMPLETED",
               EventPlaybook(k[2]) \in Playbooks
        PROVE  k \in configured'
    <3>1. CASE k = j
      <4>1. s = "COMPLETED"
        BY <1>2, <2>1, <3>1 DEF CInv, Inv, TypeOK
      <4> QED BY <1>2, <2>1, <3>1, <4>1 DEF Earned
    <3>2. CASE k # j
      <4>1. status[k] = "COMPLETED"
        BY <1>2, <2>1, <3>2 DEF CInv, Inv, TypeOK
      <4>2. k \in configured
        BY <2>1, <4>1 DEF CInv, CompletedMeansConfigured, Playbooks
      <4> QED BY <4>2
    <3> QED BY <3>1, <3>2
  <2> QED BY <2>1 DEF CompletedMeansConfigured, EventPlaybook, Playbooks
<1> QED BY <1>1, <1>2 DEF StatusEarned

LEMMA GotoCInv ==
    ASSUME CInv, Inv', NEW p \in Procs, NEW l, NEW r, Goto(p, l, r),
           Reported(l, r, configured'), Queued(l, r),
           topic' = topic, configured \subseteq configured', StatusEarned
    PROVE  CInv'
<1>1. CompletedMeansConfigured'
  BY CompletedStep
<1>2. ASSUME NEW q \in Procs
      PROVE  Reported(pc[q], run[q], configured)' /\ Queued(pc[q], run[q])'
  <2>1. CASE q = p
    <3>1. pc'[q] = l /\ run'[q] = r
      BY <2>1 DEF CInv, Inv, TypeOK, Goto
    <3> QED BY <3>1 DEF Reported, Queued, Earned, Job, EventPlaybook
  <2>2. CASE q # p
    <3>1. pc'[q] = pc[q] /\ run'[q] = run[q]
      BY <2>2 DEF CInv, Inv, TypeOK, Goto
    <3> QED BY <3>1 DEF CInv, Reported, Queued, Earned, Job, EventPlaybook
  <2> QED BY <2>1, <2>2
<1> QED BY <1>1, <1>2 DEF CInv

\* Most labels say nothing, as long as no event is queued.
LEMMA QuietGoto ==
    ASSUME CInv, Inv', NEW p \in Procs,
           NEW l \in Labels \ {"report", "recheck", "report_monbox"}, NEW r,
           r.monbox_init_events \subseteq run[p].monbox_init_events,
           Goto(p, l, r), topic' = topic, configured' = configured, StatusEarned
    PROVE  CInv'
BY GotoCInv DEF CInv, Reported, Queued

LEMMA QuietNewCycle ==
    ASSUME CInv, Inv', NEW p \in Procs,
           \/ Goto(p, "exited", NewCycle) \/ Goto(p, "idle", NewCycle) \/ EndCycle(p),
           topic' = topic, configured' = configured, status' = status
    PROVE  CInv'
BY QuietGoto, NewCycleType DEF EndCycle, Labels, StatusEarned

LEMMA PatchEarned ==
    ASSUME NEW p \in Procs, NEW j \in Jobs, NEW s \in Statuses,
           PatchStatus(p, j, s), Earned(j, s, configured')
    PROVE  StatusEarned
BY DEF PatchStatus, StatusEarned

-------------------------------------------------------------------------------
LEMMA PullCInv ==
    ASSUME CInv, Inv', NEW p \in Procs,
           AmsUnreachable(p) \/ PullFails(p) \/ Pull(p)
    PROVE  CInv'
<1>1. topic' = topic /\ configured' = configured /\ status' = status
  BY DEF AmsUnreachable, PullFails, Pull, hostVars, amsVars
<1>2. CASE \E S, T : Goto(p, "iam", [NewCycle EXCEPT !.todo = S, !.restapi_tokens = T])
  <2>1. PICK S, T : Goto(p, "iam", [NewCycle EXCEPT !.todo = S, !.restapi_tokens = T])
    BY <1>2
  <2>2. [NewCycle EXCEPT !.todo = S, !.restapi_tokens = T].monbox_init_events = {}
    BY DEF NewCycle
  <2> QED BY <1>1, <2>1, <2>2, QuietGoto DEF Labels, StatusEarned
<1>3. CASE Goto(p, "exited", NewCycle) \/ EndCycle(p)
  BY <1>1, <1>3, QuietNewCycle
<1> QED BY <1>2, <1>3 DEF AmsUnreachable, PullFails, Pull

LEMMA TokensCInv ==
    ASSUME CInv, Inv', NEW p \in Procs,
           \/ FetchToken(p)
           \/ \E t \in TokenTypes, at \in Labels, l \in {"save_webapi", "save_ams"} :
                 RefreshTokens(p, t, at, l)
           \/ \E t \in TokenTypes, at \in Labels, l \in {"refresh_ams", "events"} :
                 SaveTokens(p, t, at, l)
    PROVE  CInv'
<1> USE DEF amsVars, spoolVars, hostVars
<1>1. topic' = topic /\ configured' = configured /\ status' = status
  BY DEF FetchToken, RefreshTokens, SaveTokens
<1>2. CASE FetchToken(p)
  <2>1. PICK token : Goto(p, "refresh_webapi", [run[p] EXCEPT !.token = token])
    BY <1>2 DEF FetchToken
  <2>2. [run[p] EXCEPT !.token = token].monbox_init_events = run[p].monbox_init_events
    BY Locals DEF CInv, Cycle
  <2> QED BY <1>1, <2>1, <2>2, QuietGoto DEF Labels, StatusEarned
<1>3. ASSUME NEW t \in TokenTypes, NEW at \in Labels, NEW l \in {"save_webapi", "save_ams"},
             RefreshTokens(p, t, at, l)
      PROVE  CInv'
  <2>1. PICK toks, b : Goto(p, l, [run[p] EXCEPT !.tokens[t] = toks, !.any_refresh = b])
    BY <1>3 DEF RefreshTokens
  <2>2. [run[p] EXCEPT !.tokens[t] = toks, !.any_refresh = b].monbox_init_events
            = run[p].monbox_init_events
    BY Locals DEF CInv, Cycle
  <2> QED BY <1>1, <2>1, <2>2, QuietGoto DEF Labels, StatusEarned
<1>4. ASSUME NEW t \in TokenTypes, NEW at \in Labels, NEW l \in {"refresh_ams", "events"},
             SaveTokens(p, t, at, l)
      PROVE  CInv'
  <2>1. Goto(p, l, [run[p] EXCEPT !.any_refresh = FALSE])
    BY <1>4 DEF SaveTokens
  <2>2. [run[p] EXCEPT !.any_refresh = FALSE].monbox_init_events
            = run[p].monbox_init_events
    BY Locals DEF CInv, Cycle
  <2> QED BY <1>1, <2>1, <2>2, QuietGoto DEF Labels, StatusEarned
<1> QED BY <1>2, <1>3, <1>4

LEMMA RestQuiet ==
    ASSUME CInv, NEW p \in Procs
    PROVE  [run[p] EXCEPT !.todo = Rest(p)].monbox_init_events
               = run[p].monbox_init_events
BY Locals DEF CInv, Cycle

LEMMA EventLoopCInv ==
    ASSUME CInv, Inv', NEW p \in Procs,
           SkipFiltered(p) \/ InvalidPlaybook(p) \/ Claim(p) \/ EndEvents(p)
    PROVE  CInv'
<1> USE DEF amsVars, spoolVars, hostVars
<1>1. topic' = topic /\ configured' = configured
  BY DEF SkipFiltered, InvalidPlaybook, Claim, EndEvents
<1>2. CASE SkipFiltered(p) \/ InvalidPlaybook(p)
  BY <1>1, <1>2, RestQuiet, QuietGoto
     DEF SkipFiltered, InvalidPlaybook, Labels, StatusEarned
<1>3. CASE Claim(p)
  <2>1. CurrentJob(p) \in Jobs /\ "IN_PROGRESS" \in Statuses
    BY <1>3, Locals, CurrentEvent DEF CInv, Claim, AtEvent, Statuses
  <2>2. StatusEarned
    BY <1>3, <2>1, PatchEarned DEF Claim, Earned
  <2> QED BY <1>1, <1>3, <2>2, QuietGoto DEF Claim, Labels
<1>4. CASE EndEvents(p)
  <2>1. status' = status
    BY <1>4 DEF EndEvents
  <2>2. [run[p] EXCEPT !.todo = run[p].monbox_init_events].monbox_init_events
            = run[p].monbox_init_events
    BY Locals DEF CInv, Cycle
  <2> QED BY <1>1, <1>4, <2>1, <2>2, QuietGoto, QuietNewCycle
          DEF EndEvents, Labels, StatusEarned
<1> QED BY <1>2, <1>3, <1>4

LEMMA StatusReadCInv ==
    ASSUME CInv, Inv', NEW p \in Procs, GetJobStatus(p) \/ RecheckMonbox(p)
    PROVE  CInv'
<1> USE DEF amsVars, spoolVars, hostVars
<1>1. topic' = topic /\ configured' = configured /\ status' = status
  BY DEF GetJobStatus, RecheckMonbox
<1>2. CASE GetJobStatus(p)
  <2>1. CASE Goto(p, "claim", run[p])
    BY <1>1, <2>1, QuietGoto DEF Labels, StatusEarned
  <2>2. CASE Goto(p, "events", [run[p] EXCEPT !.todo = Rest(p)])
    BY <1>1, <2>2, RestQuiet, QuietGoto DEF Labels, StatusEarned
  <2>3. CASE Goto(p, "recheck", run[p]) /\ topic[Current(p)].name = Boxes
    <3>1. Reported("recheck", run[p], configured') /\ Queued("recheck", run[p])
      BY <2>3 DEF CInv, Reported, Queued, Current
    <3> QED BY <1>1, <2>3, <3>1, GotoCInv DEF StatusEarned
  <2> QED BY <1>2, <2>1, <2>2, <2>3 DEF GetJobStatus, Boxes
<1>3. CASE RecheckMonbox(p)
  <2> DEFINE new(queued) == [run[p] EXCEPT !.todo = Rest(p),
                                           !.monbox_init_events = queued]
  <2>1. PICK queued \in {run[p].monbox_init_events,
                         run[p].monbox_init_events \cup {Current(p)}} :
           Goto(p, "events", new(queued))
    <3>1. PICK seen \in Statuses :
             Goto(p, "events", new(IF Claimable(seen)
                                   THEN run[p].monbox_init_events \cup {Current(p)}
                                   ELSE run[p].monbox_init_events))
      BY <1>3, Locals DEF RecheckMonbox, CInv, Cycle
    <3> QED BY <3>1
  <2>2. topic[Current(p)].name = Boxes
    BY <1>3 DEF RecheckMonbox, CInv, Queued, Current
  <2>3. \A i \in queued : topic[i].name = Boxes
    BY <2>1, <2>2 DEF CInv, Queued
  <2>4. new(queued).monbox_init_events = queued
    BY Locals DEF CInv, Cycle
  <2>5. Reported("events", new(queued), configured') /\ Queued("events", new(queued))
    BY <2>3, <2>4 DEF Reported, Queued
  <2> QED BY <1>1, <2>1, <2>5, GotoCInv DEF StatusEarned
<1> QED BY <1>2, <1>3

\* A run that is a success has named the tenant and ended with 0, so its work is done.
LEMMA RunPlaybookCInv ==
    ASSUME CInv, Inv', NEW p \in Procs, RunPlaybook(p)
    PROVE  CInv'
<1> DEFINE kind == EventPlaybook(topic[Current(p)].name)
           new(ok) == [run[p] EXCEPT !.ok = ok]
<1>1. topic' = topic /\ status' = status /\ configured \subseteq configured'
  BY DEF RunPlaybook, amsVars
<1>2. PICK ok \in BOOLEAN :
         /\ Goto(p, "report", new(ok))
         /\ ok /\ kind \in Playbooks => Job(Current(p)) \in configured'
  BY DEF RunPlaybook, Runs, Verdict, Playbooks
<1>3. /\ new(ok).ok = ok /\ new(ok).todo = run[p].todo
      /\ new(ok).monbox_init_events = run[p].monbox_init_events
  BY Locals DEF CInv, Cycle
<1>4. Job(Current(p))[2] = topic[Current(p)].name
  BY DEF Job
<1>5. Reported("report", new(ok), configured')
  BY <1>2, <1>3, <1>4 DEF Reported, Earned, Current
<1>6. Queued("report", new(ok))
  BY <1>3 DEF CInv, Queued
<1> QED BY <1>1, <1>2, <1>5, <1>6, GotoCInv DEF StatusEarned

LEMMA ReportCInv ==
    ASSUME CInv, Inv', NEW p \in Procs, Report(p)
    PROVE  CInv'
<1> DEFINE s == IF run[p].ok THEN "COMPLETED" ELSE "FAILED"
<1>1. topic' = topic /\ configured' = configured
  BY DEF Report, amsVars, hostVars
<1>2. CurrentJob(p) \in Jobs /\ s \in Statuses
  BY Locals, CurrentEvent DEF CInv, Report, AtEvent, Statuses
<1>3. Earned(CurrentJob(p), s, configured')
  BY <1>1 DEF Report, CInv, Reported, Earned, CurrentJob, Current
<1>4. StatusEarned
  BY <1>2, <1>3, PatchEarned DEF Report
<1> QED BY <1>1, <1>4, RestQuiet, QuietGoto DEF Report, Labels

-------------------------------------------------------------------------------
LEMMA AddCommitCInv ==
    ASSUME CInv, Inv', NEW p \in Procs,
           \/ AddNewTenant(p) \/ ClaimMonbox(p)
           \/ \E repo \in Repos, at \in Labels, l \in {"push_backend", "push_agent"} :
                 DownloadConfig(p, repo, at, l)
           \/ CommitBackend(p)
    PROVE  CInv'
<1> USE DEF amsVars, spoolVars, hostVars
<1>1. topic' = topic /\ configured' = configured
  BY DEF AddNewTenant, ClaimMonbox, DownloadConfig, CommitBackend
<1>2. CASE AddNewTenant(p)
  <2> DEFINE new == [run[p] EXCEPT
                        !.new_tenant_entries = @ \cup {topic[Current(p)].tenant}]
  <2>1. new.monbox_init_events = run[p].monbox_init_events
    BY Locals DEF CInv, Cycle
  <2>2. \/ Goto(p, "add_claim", new)
        \/ Goto(p, "add", [run[p] EXCEPT !.todo = Rest(p)])
    BY <1>2 DEF AddNewTenant
  <2>3. status' = status
    BY <1>2 DEF AddNewTenant
  <2> HIDE DEF new
  <2> QED BY <1>1, <2>1, <2>2, <2>3, RestQuiet, QuietGoto DEF Labels, StatusEarned
<1>3. CASE ClaimMonbox(p)
  <2>1. CurrentJob(p) \in Jobs /\ "IN_PROGRESS" \in Statuses
    BY <1>3, Locals, CurrentEvent DEF CInv, ClaimMonbox, AtEvent, Statuses
  <2>2. StatusEarned
    BY <1>3, <2>1, PatchEarned DEF ClaimMonbox, Earned
  <2> QED BY <1>1, <1>3, <2>2, RestQuiet, QuietGoto DEF ClaimMonbox, Labels
<1>4. ASSUME NEW repo \in Repos, NEW at \in Labels, NEW l \in {"push_backend", "push_agent"},
             DownloadConfig(p, repo, at, l)
      PROVE  CInv'
  <2>1. [run[p] EXCEPT !.yaml_data = git[repo]].monbox_init_events
            = run[p].monbox_init_events
    BY Locals DEF CInv, Cycle
  <2> QED BY <1>1, <1>4, <2>1, QuietGoto DEF DownloadConfig, Labels, StatusEarned
<1>5. CASE CommitBackend(p)
  <2>1. PICK c : Goto(p, "download_agent", [run[p] EXCEPT !.backend_commit_status = c])
    BY <1>5 DEF CommitBackend
  <2>2. [run[p] EXCEPT !.backend_commit_status = c].monbox_init_events
            = run[p].monbox_init_events
    BY Locals DEF CInv, Cycle
  <2> QED BY <1>1, <1>5, <2>1, <2>2, QuietGoto DEF CommitBackend, Labels, StatusEarned
<1> QED BY <1>2, <1>3, <1>4, <1>5

LEMMA PuppetCInv ==
    ASSUME CInv, Inv', NEW p \in Procs,
           CommitAgent(p) \/ RunPuppet(p) \/ CheckInit(p) \/ FetchTokenAgain(p)
    PROVE  CInv'
<1> USE DEF amsVars, spoolVars, hostVars
<1>1. topic' = topic /\ configured' = configured /\ status' = status
  BY DEF CommitAgent, RunPuppet, CheckInit, FetchTokenAgain
<1>2. CASE CommitAgent(p) \/ RunPuppet(p)
  <2>1. [run[p] EXCEPT !.todo = run[p].monbox_init_events].monbox_init_events
            = run[p].monbox_init_events
    BY Locals DEF CInv, Cycle
  <2>2. \/ Goto(p, "puppet", run[p]) \/ Goto(p, "check", run[p])
        \/ Goto(p, "fail", [run[p] EXCEPT !.todo = run[p].monbox_init_events])
    BY <1>2 DEF CommitAgent, RunPuppet
  <2> QED BY <1>1, <2>1, <2>2, QuietGoto DEF Labels, StatusEarned
<1>3. CASE CheckInit(p)
  <2> DEFINE new(n, all, inited) ==
               [run[p] EXCEPT !.checks = n, !.all_tenants_inited = all,
                              !.inited_tenants = inited]
  <2>1. PICK all, inited : Goto(p, "check", new(run[p].checks + 1, all, inited))
    <3>1. PICK lines \in SUBSET (monboxes \cap (BackendHosts \X run[p].new_tenant_entries)) :
             Goto(p, "check", new(run[p].checks + 1,
                                  AllInited(lines, run[p].new_tenant_entries),
                                  {line[2] : line \in lines}))
      BY <1>3, Locals DEF CheckInit, CInv, Cycle
    <3> QED BY <3>1
  <2>2. new(run[p].checks + 1, all, inited).monbox_init_events
            = run[p].monbox_init_events
    BY Locals DEF CInv, Cycle
  <2> QED BY <1>1, <2>1, <2>2, QuietGoto DEF Labels, StatusEarned
<1>4. CASE FetchTokenAgain(p)
  <2> DEFINE new(token) == [run[p] EXCEPT !.token = token,
                                          !.todo = run[p].monbox_init_events]
  <2>1. PICK token : Goto(p, "report_monbox", new(token))
    BY <1>4 DEF FetchTokenAgain
  <2>2. /\ new(token).monbox_init_events = run[p].monbox_init_events
        /\ new(token).todo = run[p].monbox_init_events
    BY Locals DEF CInv, Cycle
  <2>3. /\ Reported("report_monbox", new(token), configured')
        /\ Queued("report_monbox", new(token))
    BY <2>2 DEF CInv, Reported, Queued
  <2> QED BY <1>1, <2>1, <2>3, GotoCInv DEF StatusEarned
<1> QED BY <1>2, <1>3, <1>4

\* The reports on monitoring boxes complete no job of a playbook.
LEMMA ReportMonboxCInv ==
    ASSUME CInv, Inv', NEW p \in Procs,
           ReportMonbox(p) \/ ReportFailure(p) \/ EndMonbox(p)
    PROVE  CInv'
<1> USE DEF amsVars, spoolVars, hostVars
<1>1. topic' = topic /\ configured' = configured
  BY DEF ReportMonbox, ReportFailure, EndMonbox
<1>2. CASE ReportMonbox(p)
  <2> DEFINE s == InitOutcome(p, topic[Current(p)].tenant)
             new == [run[p] EXCEPT !.todo = Rest(p)]
  <2>1. Current(p) \in run[p].todo /\ CurrentJob(p) \in Jobs
    BY <1>2, CurrentEvent DEF CInv, ReportMonbox
  <2>2. CurrentJob(p)[2] = Boxes
    BY <1>2, <2>1 DEF ReportMonbox, CInv, Queued, CurrentJob, Job
  <2>3. Earned(CurrentJob(p), s, configured')
    BY <2>2 DEF Earned, EventPlaybook, MappedEvents, Boxes, Playbooks
  <2>4. s \in Statuses
    BY DEF InitOutcome, Statuses
  <2>5. StatusEarned
    <3> HIDE DEF s
    <3> QED BY <1>2, <2>1, <2>3, <2>4, PatchEarned DEF ReportMonbox, s
  <2>6. /\ new.todo \subseteq run[p].monbox_init_events
        /\ new.monbox_init_events = run[p].monbox_init_events
    BY <1>2, RestQuiet, Locals DEF ReportMonbox, CInv, Queued, Rest, Cycle
  <2>7. /\ Reported("report_monbox", new, configured')
        /\ Queued("report_monbox", new)
    BY <2>6 DEF CInv, Reported, Queued
  <2> QED BY <1>1, <1>2, <2>5, <2>7, GotoCInv DEF ReportMonbox
<1>3. CASE ReportFailure(p)
  <2>1. CurrentJob(p) \in Jobs /\ "FAILED" \in Statuses
    BY <1>3, CurrentEvent DEF CInv, ReportFailure, Statuses
  <2>2. StatusEarned
    BY <1>3, <2>1, PatchEarned DEF ReportFailure, Earned
  <2> QED BY <1>1, <1>3, <2>2, RestQuiet, QuietGoto DEF ReportFailure, Labels
<1>4. CASE EndMonbox(p)
  BY <1>1, <1>4, QuietNewCycle DEF EndMonbox
<1> QED BY <1>2, <1>3, <1>4

-------------------------------------------------------------------------------
\* Steps that leave every process where it is.  The operator never completes a job.
LEMMA SteadyCInv ==
    ASSUME CInv, Inv', "COMPLETED" \notin OperatorStatuses,
           \/ \E p \in Procs : Signal(p) \/ TokenExpires(p)
           \/ \E j \in Jobs, s \in Statuses : UpdateStatus(j, s)
    PROVE  CInv'
<1> USE DEF amsVars, spoolVars, hostVars
<1>1. topic' = topic /\ pc' = pc /\ configured' = configured
  BY DEF Signal, TokenExpires, UpdateStatus
<1>2. \A q \in Procs : /\ run'[q].todo = run[q].todo
                       /\ run'[q].monbox_init_events = run[q].monbox_init_events
                       /\ run'[q].ok = run[q].ok
  <2>1. CASE run' = run
    BY <2>1
  <2>2. CASE \E p \in Procs : TokenExpires(p)
    <3>1. PICK p \in Procs : run' = [run EXCEPT ![p] = [run[p] EXCEPT !.token = FALSE]]
      BY <2>2 DEF TokenExpires
    <3> QED BY <3>1, Locals DEF CInv, Inv, TypeOK, Cycle
  <2> QED BY <2>1, <2>2 DEF Signal, UpdateStatus
<1>3. StatusEarned
  BY DEF Signal, TokenExpires, UpdateStatus, StatusEarned, Earned
<1>4. CompletedMeansConfigured'
  BY <1>1, <1>3, CompletedStep
<1>5. \A q \in Procs : Reported(pc[q], run[q], configured)' /\ Queued(pc[q], run[q])'
  BY <1>1, <1>2 DEF CInv, Reported, Queued, Earned, Job, EventPlaybook
<1> QED BY <1>4, <1>5 DEF CInv

\* What was published stays where it is in the topic.
LEMMA PublishCInv ==
    ASSUME CInv, Inv', NEW m \in Messages, Publish(m)
    PROVE  CInv'
<1>1. pc' = pc /\ run' = run /\ configured' = configured
  BY DEF Publish, hostVars
<1>2. \A i \in 1..Len(topic) : topic'[i] = topic[i]
  BY DEF Publish, CInv, Inv, TypeOK
<1>3. StatusEarned
  <2>1. <<m.tenant, m.name>> \in Jobs
    BY ConfigAssumption DEF Message, Jobs
  <2> QED BY <2>1 DEF Publish, StatusEarned, Earned, Statuses
<1>4. CompletedMeansConfigured'
  BY <1>1, <1>3, CompletedStep
<1>5. ASSUME NEW q \in Procs
      PROVE  Reported(pc[q], run[q], configured)' /\ Queued(pc[q], run[q])'
  <2>1. run[q].todo \in SUBSET Nat /\ run[q].todo \subseteq 1..Len(topic)
    BY Locals DEF CInv, Cycle
  <2>2. pc[q] \in {"report", "recheck"} => Min(run[q].todo) \in 1..Len(topic)
    BY <2>1, Locals, MinIsMember DEF CInv, AtEvent
  <2>3. Reported(pc[q], run[q], configured)'
    BY <1>1, <1>2, <2>2 DEF CInv, Reported, Earned, Job, EventPlaybook
  <2>4. Queued(pc[q], run[q])'
    BY <1>1, <1>2, <2>2, Locals DEF CInv, Queued
  <2> QED BY <2>3, <2>4
<1> QED BY <1>4, <1>5 DEF CInv

-------------------------------------------------------------------------------
LEMMA InitCInv == Init => CInv
<1> SUFFICES ASSUME Init PROVE CInv
  OBVIOUS
<1>1. CompletedMeansConfigured
  BY DEF Init, CompletedMeansConfigured
<1>2. \A p \in Procs : Reported(pc[p], run[p], configured) /\ Queued(pc[p], run[p])
  BY NewCycleType DEF Init, Reported, Queued
<1> QED BY <1>1, <1>2, InitInv DEF CInv

LEMMA NextCInv == CInv /\ "COMPLETED" \notin OperatorStatuses /\ [Next]_vars => CInv'
<1> SUFFICES ASSUME CInv, "COMPLETED" \notin OperatorStatuses, [Next]_vars
             PROVE  CInv'
  OBVIOUS
<1>1. Inv'
  BY NextInv DEF CInv
<1>2. ASSUME NEW p \in Procs, PlaybookStep(p) PROVE CInv'
  <2>1. CASE RefreshTokens(p, "webapi", "refresh_webapi", "save_webapi")
    BY <1>1, <2>1, TokensCInv DEF TokenTypes, Labels
  <2>2. CASE SaveTokens(p, "webapi", "save_webapi", "refresh_ams")
    BY <1>1, <2>2, TokensCInv DEF TokenTypes, Labels
  <2>3. CASE RefreshTokens(p, "ams", "refresh_ams", "save_ams")
    BY <1>1, <2>3, TokensCInv DEF TokenTypes, Labels
  <2>4. CASE SaveTokens(p, "ams", "save_ams", "events")
    BY <1>1, <2>4, TokensCInv DEF TokenTypes, Labels
  <2> QED BY <1>1, <1>2, <2>1, <2>2, <2>3, <2>4, PullCInv, TokensCInv,
             EventLoopCInv, StatusReadCInv, RunPlaybookCInv, ReportCInv, SteadyCInv
          DEF PlaybookStep
<1>3. ASSUME NEW p \in Procs, MonboxStep(p) PROVE CInv'
  <2>1. CASE DownloadConfig(p, "backend", "add", "push_backend")
    BY <1>1, <2>1, AddCommitCInv DEF Repos, Labels
  <2>2. CASE DownloadConfig(p, "agent", "download_agent", "push_agent")
    BY <1>1, <2>2, AddCommitCInv DEF Repos, Labels
  <2> QED BY <1>1, <1>3, <2>1, <2>2, AddCommitCInv, PuppetCInv, ReportMonboxCInv
          DEF MonboxStep
<1>4. ASSUME NEW p \in Procs, DaemonStops(p) \/ Raise(p) \/ Crash(p) \/ Start(p)
      PROVE  CInv'
  BY <1>1, <1>4, QuietNewCycle
     DEF DaemonStops, Raise, Crash, Start, amsVars, hostVars
<1>5. CASE UNCHANGED vars
  BY <1>1, <1>5 DEF vars, CInv, CompletedMeansConfigured, Reported, Queued,
                    Earned, Job, EventPlaybook
<1> QED BY <1>1, <1>2, <1>3, <1>4, <1>5, SteadyCInv, PublishCInv
        DEF Next, ProcessStep

\* A connector or POEM job of the Status API is COMPLETED only after its playbook
\* has configured the tenant: for every configuration and number of processes,
\* whatever they interleave, and whatever is lost, raised, expired or killed on the
\* way, provided no operator sets the status by hand.
THEOREM CompletedIsConfigured ==
    ASSUME "COMPLETED" \notin OperatorStatuses
    PROVE  Spec => []CompletedMeansConfigured
<1>1. CInv => CompletedMeansConfigured
  BY DEF CInv
<1>2. CInv /\ [Next]_vars => CInv'
  BY NextCInv
<1> QED BY <1>1, <1>2, InitCInv, PTL DEF Spec

-------------------------------------------------------------------------------
(***************************************************************************)
(* One process at a time.  Between the status it has read and the status   *)
(* it sets nobody but the operator comes in; and a list that names a job   *)
(* twice gives it the same status twice.                                   *)
(***************************************************************************)
OneProcess == \A p, q \in Procs : p = q

Open == {"INITIALISED", "IN_PROGRESS"}
Outcome(r, tenant) ==
    IF r.all_tenants_inited \/ tenant \in r.inited_tenants THEN "COMPLETED" ELSE "FAILED"

\* What label l and locals r say of the statuses st.
Works(l, r, st) ==
    /\ l \in {"claim", "playbook", "report"} =>
           /\ topic[Min(r.todo)].name \in MappedEvents
           /\ st[Job(Min(r.todo))] \in Open
    /\ l \notin {"idle", "exited", "fail", "report_monbox"} =>
           \A i \in r.monbox_init_events : st[Job(i)] \in Open
    /\ l \in {"add", "add_claim"} => r.todo \subseteq r.monbox_init_events
    /\ l = "fail" => \A i \in r.todo : st[Job(i)] \in Open \cup {"FAILED"}
    /\ l = "report_monbox" =>
           \A i \in r.todo : st[Job(i)] \in Open \cup {Outcome(r, topic[i].tenant)}

SInv == CInv /\ \A p \in Procs : Works(pc[p], run[p], status)

LEMMA GotoSInv ==
    ASSUME OneProcess, SInv, CInv', NEW p \in Procs, NEW l, NEW r, Goto(p, l, r),
           topic' = topic, Works(l, r, status')
    PROVE  SInv'
<1>1. \A q \in Procs : pc'[q] = l /\ run'[q] = r
  BY DEF OneProcess, SInv, CInv, Inv, TypeOK, Goto
<1> QED BY <1>1 DEF SInv, Works, Job

\* A cycle that has nothing in hand yet.
LEMMA FreshSInv ==
    ASSUME OneProcess, SInv, CInv', NEW p \in Procs,
           NEW l \in {"idle", "exited", "iam"}, NEW r, Goto(p, l, r),
           r.monbox_init_events = {}, topic' = topic
    PROVE  SInv'
BY GotoSInv DEF Works

LEMMA NewCycleSInv ==
    ASSUME OneProcess, SInv, CInv', NEW p \in Procs,
           \/ Goto(p, "exited", NewCycle) \/ Goto(p, "idle", NewCycle) \/ EndCycle(p),
           topic' = topic
    PROVE  SInv'
BY FreshSInv, NewCycleType DEF EndCycle

\* Steps before the monitoring boxes that set no status.
LoopLabels == {"iam", "refresh_webapi", "save_webapi", "refresh_ams", "save_ams",
               "events", "recheck", "claim", "playbook", "report"}
LEMMA LoopSInv ==
    ASSUME OneProcess, SInv, CInv', NEW p \in Procs, pc[p] \in LoopLabels,
           NEW l \in LoopLabels \ {"claim", "playbook", "report"}, NEW r, Goto(p, l, r),
           r.monbox_init_events = run[p].monbox_init_events,
           topic' = topic, status' = status
    PROVE  SInv'
BY GotoSInv DEF SInv, Works, LoopLabels

\* Locals without the list of events.
LEMMA TodoFields ==
    ASSUME CInv, NEW p \in Procs, NEW S
    PROVE  LET r == [run[p] EXCEPT !.todo = S]
           IN  /\ r.todo = S
               /\ r.monbox_init_events = run[p].monbox_init_events
               /\ r.new_tenant_entries = run[p].new_tenant_entries
               /\ r.all_tenants_inited = run[p].all_tenants_inited
               /\ r.inited_tenants = run[p].inited_tenants
BY Locals DEF CInv, Cycle

LEMMA BeginSInv ==
    ASSUME OneProcess, SInv, CInv', NEW p \in Procs,
           \/ AmsUnreachable(p) \/ PullFails(p) \/ Pull(p) \/ EndMonbox(p)
           \/ DaemonStops(p) \/ Raise(p) \/ Crash(p) \/ Start(p)
    PROVE  SInv'
<1>1. topic' = topic
  BY DEF AmsUnreachable, PullFails, Pull, EndMonbox, DaemonStops, Raise, Crash, Start,
         amsVars
<1>2. CASE \E S, T : Goto(p, "iam", [NewCycle EXCEPT !.todo = S, !.restapi_tokens = T])
  <2>1. PICK S, T : Goto(p, "iam", [NewCycle EXCEPT !.todo = S, !.restapi_tokens = T])
    BY <1>2
  <2>2. [NewCycle EXCEPT !.todo = S, !.restapi_tokens = T].monbox_init_events = {}
    BY DEF NewCycle
  <2> QED BY <1>1, <2>1, <2>2, FreshSInv
<1>3. CASE Goto(p, "exited", NewCycle) \/ Goto(p, "idle", NewCycle) \/ EndCycle(p)
  BY <1>1, <1>3, NewCycleSInv
<1> QED BY <1>2, <1>3 DEF AmsUnreachable, PullFails, Pull, EndMonbox, DaemonStops,
                          Raise, Crash, Start

LEMMA TokensSInv ==
    ASSUME OneProcess, SInv, CInv', NEW p \in Procs,
           \/ FetchToken(p)
           \/ \E t \in TokenTypes, at \in LoopLabels, l \in {"save_webapi", "save_ams"} :
                 RefreshTokens(p, t, at, l)
           \/ \E t \in TokenTypes, at \in LoopLabels, l \in {"refresh_ams", "events"} :
                 SaveTokens(p, t, at, l)
    PROVE  SInv'
<1>1. topic' = topic /\ status' = status /\ pc[p] \in LoopLabels
  BY DEF FetchToken, RefreshTokens, SaveTokens, amsVars, LoopLabels
<1>2. CASE FetchToken(p)
  <2>1. PICK token : Goto(p, "refresh_webapi", [run[p] EXCEPT !.token = token])
    BY <1>2 DEF FetchToken
  <2>2. [run[p] EXCEPT !.token = token].monbox_init_events = run[p].monbox_init_events
    BY Locals DEF SInv, CInv, Cycle
  <2> QED BY <1>1, <2>1, <2>2, LoopSInv DEF LoopLabels
<1>3. ASSUME NEW t \in TokenTypes, NEW at, NEW l \in {"save_webapi", "save_ams"},
             RefreshTokens(p, t, at, l)
      PROVE  SInv'
  <2>1. PICK toks, b : Goto(p, l, [run[p] EXCEPT !.tokens[t] = toks, !.any_refresh = b])
    BY <1>3 DEF RefreshTokens
  <2>2. [run[p] EXCEPT !.tokens[t] = toks, !.any_refresh = b].monbox_init_events
            = run[p].monbox_init_events
    BY Locals DEF SInv, CInv, Cycle
  <2> QED BY <1>1, <2>1, <2>2, LoopSInv DEF LoopLabels
<1>4. ASSUME NEW t \in TokenTypes, NEW at, NEW l \in {"refresh_ams", "events"},
             SaveTokens(p, t, at, l)
      PROVE  SInv'
  <2>1. Goto(p, l, [run[p] EXCEPT !.any_refresh = FALSE])
    BY <1>4 DEF SaveTokens
  <2>2. [run[p] EXCEPT !.any_refresh = FALSE].monbox_init_events
            = run[p].monbox_init_events
    BY Locals DEF SInv, CInv, Cycle
  <2> QED BY <1>1, <2>1, <2>2, LoopSInv DEF LoopLabels
<1> QED BY <1>2, <1>3, <1>4

LEMMA SeenClaimable ==
    ASSUME NEW p \in Procs, NEW j, NEW seen, GetStatus(p, j, seen), Claimable(seen)
    PROVE  status[j] \in Open
BY DEF GetStatus, Claimable, Open

LEMMA EventLoopSInv ==
    ASSUME OneProcess, SInv, CInv', NEW p \in Procs,
           \/ SkipFiltered(p) \/ GetJobStatus(p) \/ RecheckMonbox(p)
           \/ InvalidPlaybook(p) \/ RunPlaybook(p) \/ EndEvents(p)
    PROVE  SInv'
<1>1. topic' = topic /\ status' = status /\ pc[p] \in LoopLabels
  BY DEF SkipFiltered, GetJobStatus, RecheckMonbox, InvalidPlaybook, RunPlaybook,
         EndEvents, amsVars, LoopLabels
<1>2. CASE Goto(p, "events", [run[p] EXCEPT !.todo = Rest(p)])
  BY <1>1, <1>2, RestQuiet, LoopSInv DEF SInv, LoopLabels
<1>3. CASE GetJobStatus(p)
  <2>1. CASE Goto(p, "recheck", run[p])
    BY <1>1, <2>1, LoopSInv DEF LoopLabels
  <2>2. CASE /\ Goto(p, "claim", run[p]) /\ status[CurrentJob(p)] \in Open
             /\ EventPlaybook(topic[Current(p)].name) # "none"
    <3>1. topic[Current(p)].name \in MappedEvents
      BY <2>2 DEF EventPlaybook
    <3>2. Works("claim", run[p], status')
      BY <1>1, <1>3, <2>2, <3>1
         DEF GetJobStatus, SInv, Works, CurrentJob, Current
    <3> QED BY <1>1, <2>2, <3>2, GotoSInv
  <2> QED BY <1>2, <1>3, <2>1, <2>2, SeenClaimable DEF GetJobStatus
<1>4. CASE RecheckMonbox(p)
  <2> DEFINE new(queued) == [run[p] EXCEPT !.todo = Rest(p),
                                           !.monbox_init_events = queued]
  <2>1. PICK queued : /\ Goto(p, "events", new(queued))
                      /\ \A i \in queued : \/ i \in run[p].monbox_init_events
                                           \/ status[Job(i)] \in Open
    <3>1. PICK seen \in Statuses :
             /\ GetStatus(p, CurrentJob(p), seen)
             /\ Goto(p, "events", new(IF Claimable(seen)
                                      THEN run[p].monbox_init_events \cup {Current(p)}
                                      ELSE run[p].monbox_init_events))
      BY <1>4, Locals DEF RecheckMonbox, SInv, CInv, Cycle
    <3> QED BY <3>1, SeenClaimable DEF CurrentJob
  <2>2. new(queued).monbox_init_events = queued
    BY Locals DEF SInv, CInv, Cycle
  <2>3. Works("events", new(queued), status')
    BY <1>1, <1>4, <2>1, <2>2 DEF RecheckMonbox, SInv, Works
  <2> QED BY <1>1, <2>1, <2>3, GotoSInv
<1>5. CASE RunPlaybook(p)
  <2>1. PICK ok : Goto(p, "report", [run[p] EXCEPT !.ok = ok])
    BY <1>5 DEF RunPlaybook
  <2>2. /\ [run[p] EXCEPT !.ok = ok].todo = run[p].todo
        /\ [run[p] EXCEPT !.ok = ok].monbox_init_events = run[p].monbox_init_events
    BY Locals DEF SInv, CInv, Cycle
  <2>3. /\ Works("report", [run[p] EXCEPT !.ok = ok], status')
       
    BY <1>1, <1>5, <2>2 DEF RunPlaybook, SInv, Works
  <2> QED BY <1>1, <2>1, <2>3, GotoSInv
<1>6. CASE EndEvents(p)
  <2>1. CASE Goto(p, "add", [run[p] EXCEPT !.todo = run[p].monbox_init_events])
    <3> DEFINE new == [run[p] EXCEPT !.todo = run[p].monbox_init_events]
    <3>1. /\ new.todo = run[p].monbox_init_events
          /\ new.monbox_init_events = run[p].monbox_init_events
      BY TodoFields DEF SInv
    <3>2. Works("add", new, status')
      BY <1>1, <1>6, <3>1 DEF EndEvents, SInv, Works
    <3> HIDE DEF new
    <3> QED BY <1>1, <2>1, <3>2, GotoSInv DEF new
  <2> QED BY <1>1, <1>6, <2>1, NewCycleSInv DEF EndEvents
<1> QED BY <1>2, <1>3, <1>4, <1>5, <1>6 DEF SkipFiltered, InvalidPlaybook

\* A job of a playbook is no job of a monitoring box.
LEMMA PlaybookJob ==
    ASSUME SInv, NEW p \in Procs, pc[p] \in {"claim", "playbook", "report"}
    PROVE  /\ CurrentJob(p) \in Jobs /\ status[CurrentJob(p)] \in Open
           /\ \A i \in run[p].monbox_init_events : Job(i) # CurrentJob(p)
<1>1. CurrentJob(p) \in Jobs
  BY Locals, CurrentEvent DEF SInv, CInv, AtEvent
<1>2. topic[Current(p)].name \in MappedEvents /\ status[CurrentJob(p)] \in Open
  BY DEF SInv, Works, CurrentJob, Current
<1>3. \A i \in run[p].monbox_init_events : topic[i].name = Boxes
  BY DEF SInv, CInv, Queued
<1> QED BY <1>1, <1>2, <1>3 DEF CurrentJob, Job, MappedEvents, Boxes

LEMMA PatchedElsewhere ==
    ASSUME CInv, NEW p, NEW j \in Jobs, NEW s, PatchStatus(p, j, s)
    PROVE  /\ \A k \in Jobs : k # j => status'[k] = status[k]
           /\ status'[j] \in {status[j], s}
BY DEF PatchStatus, CInv, Inv, TypeOK

LEMMA JobType ==
    ASSUME CInv, NEW p \in Procs, NEW i \in run[p].todo \cup run[p].monbox_init_events
    PROVE  Job(i) \in Jobs /\ topic[i].tenant \in Tenants
<1>1. topic[i] \in Message
  BY Locals, ConfigAssumption DEF CInv, Inv, TypeOK
<1> QED BY <1>1 DEF Message, Job, Jobs

LEMMA ClaimSInv ==
    ASSUME OneProcess, SInv, CInv', NEW p \in Procs, Claim(p) \/ Report(p)
    PROVE  SInv'
<1>1. topic' = topic /\ pc[p] \in {"claim", "report"}
  BY DEF Claim, Report, amsVars
<1>2. PICK s : PatchStatus(p, CurrentJob(p), s) /\ (Claim(p) => s = "IN_PROGRESS")
  BY DEF Claim, Report
<1>3. \A i \in run[p].monbox_init_events : status'[Job(i)] \in Open
  BY <1>1, <1>2, PlaybookJob, PatchedElsewhere, JobType DEF SInv, Works
<1>4. CASE Claim(p)
  <2>1. status'[CurrentJob(p)] \in Open
    BY <1>1, <1>2, <1>4, PlaybookJob, PatchedElsewhere DEF SInv, Open
  <2>2. Works("playbook", run[p], status')
    BY <1>3, <1>4, <2>1 DEF Claim, SInv, Works, CurrentJob, Current
  <2> QED BY <1>1, <1>4, <2>2, GotoSInv DEF Claim
<1>5. CASE Report(p)
  <2> DEFINE new == [run[p] EXCEPT !.todo = Rest(p)]
  <2>1. new.monbox_init_events = run[p].monbox_init_events
    BY TodoFields DEF SInv
  <2>2. Works("events", new, status')
    BY <1>3, <2>1 DEF Works
  <2> HIDE DEF new
  <2> QED BY <1>1, <1>5, <2>2, GotoSInv DEF Report, new
<1> QED BY <1>4, <1>5

LEMMA AddSInv ==
    ASSUME OneProcess, SInv, CInv', NEW p \in Procs, AddNewTenant(p) \/ ClaimMonbox(p)
    PROVE  SInv'
<1> DEFINE rest == [run[p] EXCEPT !.todo = Rest(p)]
<1>1. topic' = topic /\ pc[p] \in {"add", "add_claim"}
  BY DEF AddNewTenant, ClaimMonbox, amsVars
<1>2. /\ run[p].todo \subseteq run[p].monbox_init_events
      /\ \A i \in run[p].monbox_init_events : status[Job(i)] \in Open
  BY <1>1 DEF SInv, Works
<1>3. /\ rest.monbox_init_events = run[p].monbox_init_events
      /\ rest.todo \subseteq run[p].monbox_init_events
  BY <1>2, TodoFields DEF SInv, Rest
<1> HIDE DEF rest
<1>4. CASE AddNewTenant(p)
  <2> DEFINE new == [run[p] EXCEPT
                        !.new_tenant_entries = @ \cup {topic[Current(p)].tenant}]
  <2>1. /\ new.todo = run[p].todo
        /\ new.monbox_init_events = run[p].monbox_init_events
    BY Locals DEF SInv, CInv, Cycle
  <2>2. Goto(p, "add_claim", new) \/ Goto(p, "add", rest)
    BY <1>4 DEF AddNewTenant, rest
  <2>3. status' = status
    BY <1>4 DEF AddNewTenant
  <2> HIDE DEF new
  <2>4. Works("add_claim", new, status')
    BY <1>2, <2>1, <2>3 DEF Works
  <2>5. Works("add", rest, status')
    BY <1>2, <1>3, <2>3 DEF Works
  <2> QED BY <1>1, <2>2, <2>4, <2>5, GotoSInv
<1>5. CASE ClaimMonbox(p)
  <2>1. CurrentJob(p) \in Jobs
    BY <1>5, Locals, CurrentEvent DEF SInv, CInv, ClaimMonbox, AtEvent
  <2>2. PatchStatus(p, CurrentJob(p), "IN_PROGRESS") /\ Goto(p, "add", rest)
    BY <1>5 DEF ClaimMonbox, rest
  <2>3. \A i \in run[p].monbox_init_events : status'[Job(i)] \in Open
    <3> TAKE i \in run[p].monbox_init_events
    <3>1. Job(i) \in Jobs /\ status[Job(i)] \in Open
      BY <1>2, JobType DEF SInv
    <3> QED BY <2>1, <2>2, <3>1, PatchedElsewhere DEF SInv, Open
  <2>4. Works("add", rest, status')
    BY <1>3, <2>3 DEF Works
  <2> QED BY <1>1, <2>2, <2>4, GotoSInv
<1> QED BY <1>4, <1>5

\* From the addition of the tenants to the check, no status changes and none is added.
MiddleLabels == {"push_backend", "download_agent", "push_agent", "puppet", "check"}
LEMMA MiddleSInv ==
    ASSUME OneProcess, SInv, CInv', NEW p \in Procs, pc[p] \in MiddleLabels \cup {"add"},
           NEW l \in MiddleLabels, NEW r, Goto(p, l, r),
           r.monbox_init_events = run[p].monbox_init_events,
           topic' = topic, status' = status
    PROVE  SInv'
BY GotoSInv DEF SInv, Works, MiddleLabels

LEMMA FailSInv ==
    ASSUME OneProcess, SInv, CInv', NEW p \in Procs, pc[p] \in MiddleLabels,
           Goto(p, "fail", [run[p] EXCEPT !.todo = run[p].monbox_init_events]),
           topic' = topic, status' = status
    PROVE  SInv'
<1> DEFINE new == [run[p] EXCEPT !.todo = run[p].monbox_init_events]
<1>1. new.todo = run[p].monbox_init_events
  BY TodoFields DEF SInv
<1>2. Works("fail", new, status')
  BY <1>1 DEF SInv, Works, MiddleLabels
<1> QED BY <1>2, GotoSInv

LEMMA CommitSInv ==
    ASSUME OneProcess, SInv, CInv', NEW p \in Procs,
           \/ DownloadConfig(p, "backend", "add", "push_backend") \/ CommitBackend(p)
           \/ DownloadConfig(p, "agent", "download_agent", "push_agent") \/ CommitAgent(p)
    PROVE  SInv'
<1>1. topic' = topic /\ status' = status /\ pc[p] \in MiddleLabels \cup {"add"}
  BY DEF DownloadConfig, CommitBackend, CommitAgent, amsVars, MiddleLabels
<1>2. ASSUME NEW repo, NEW at, NEW l \in MiddleLabels, DownloadConfig(p, repo, at, l)
      PROVE  SInv'
  <2>1. Goto(p, l, [run[p] EXCEPT !.yaml_data = git[repo]])
    BY <1>2 DEF DownloadConfig
  <2>2. [run[p] EXCEPT !.yaml_data = git[repo]].monbox_init_events
            = run[p].monbox_init_events
    BY Locals DEF SInv, CInv, Cycle
  <2> QED BY <1>1, <2>1, <2>2, MiddleSInv
<1>3. CASE CommitBackend(p)
  <2>1. PICK committed : Goto(p, "download_agent",
                              [run[p] EXCEPT !.backend_commit_status = committed])
    BY <1>3 DEF CommitBackend
  <2>2. [run[p] EXCEPT !.backend_commit_status = committed].monbox_init_events
            = run[p].monbox_init_events
    BY Locals DEF SInv, CInv, Cycle
  <2> QED BY <1>1, <2>1, <2>2, MiddleSInv DEF MiddleLabels
<1>4. CASE CommitAgent(p)
  <2>1. /\ pc[p] = "push_agent"
        /\ \/ Goto(p, "puppet", run[p])
           \/ Goto(p, "fail", [run[p] EXCEPT !.todo = run[p].monbox_init_events])
    BY <1>4 DEF CommitAgent
  <2> QED BY <1>1, <2>1, MiddleSInv, FailSInv DEF MiddleLabels
<1> QED BY <1>2, <1>3, <1>4 DEF MiddleLabels

LEMMA CheckedLocals ==
    ASSUME Inv, NEW p \in Procs, CheckInit(p)
    PROVE  \E n, all, inited :
               Goto(p, "check", [run[p] EXCEPT !.checks = n, !.all_tenants_inited = all,
                                               !.inited_tenants = inited])
<1>1. PICK lines \in SUBSET (monboxes \cap (BackendHosts \X run[p].new_tenant_entries)) :
         Goto(p, "check", [run[p] EXCEPT
             !.checks = run[p].checks + 1,
             !.all_tenants_inited = AllInited(lines, run[p].new_tenant_entries),
             !.inited_tenants = {line[2] : line \in lines}])
  BY Locals DEF CheckInit, Cycle
<1> QED BY <1>1

LEMMA PuppetSInv ==
    ASSUME OneProcess, SInv, CInv', NEW p \in Procs,
           RunPuppet(p) \/ CheckInit(p) \/ FetchTokenAgain(p)
    PROVE  SInv'
<1>1. topic' = topic /\ status' = status /\ pc[p] \in {"puppet", "check"}
  BY DEF RunPuppet, CheckInit, FetchTokenAgain, amsVars
<1>2. CASE RunPuppet(p)
  <2>1. \/ Goto(p, "check", run[p])
        \/ Goto(p, "fail", [run[p] EXCEPT !.todo = run[p].monbox_init_events])
    BY <1>2 DEF RunPuppet
  <2> QED BY <1>1, <2>1, MiddleSInv, FailSInv DEF MiddleLabels
<1>3. CASE CheckInit(p)
  <2>1. PICK n, all, inited :
           Goto(p, "check", [run[p] EXCEPT !.checks = n, !.all_tenants_inited = all,
                                           !.inited_tenants = inited])
    BY <1>3, CheckedLocals DEF SInv, CInv
  <2>2. [run[p] EXCEPT !.checks = n, !.all_tenants_inited = all,
                       !.inited_tenants = inited].monbox_init_events
            = run[p].monbox_init_events
    BY Locals DEF SInv, CInv, Cycle
  <2> QED BY <1>1, <2>1, <2>2, MiddleSInv DEF MiddleLabels
<1>4. CASE FetchTokenAgain(p)
  <2>1. PICK token : Goto(p, "report_monbox", [run[p] EXCEPT
                              !.token = token, !.todo = run[p].monbox_init_events])
    BY <1>4 DEF FetchTokenAgain
  <2> DEFINE new == [run[p] EXCEPT !.token = token, !.todo = run[p].monbox_init_events]
  <2>2. new.todo = run[p].monbox_init_events
    BY Locals DEF SInv, CInv, Cycle
  <2> HIDE DEF new
  <2>3. Works("report_monbox", new, status')
    BY <1>1, <2>2 DEF SInv, Works
  <2> QED BY <1>1, <2>1, <2>3, GotoSInv DEF new
<1> QED BY <1>2, <1>3, <1>4

\* Reports: the status set is one that the other events of the same job may have.
LEMMA ReportMonboxSInv ==
    ASSUME OneProcess, SInv, CInv', NEW p \in Procs, ReportMonbox(p) \/ ReportFailure(p)
    PROVE  SInv'
<1> DEFINE rest == [run[p] EXCEPT !.todo = Rest(p)]
<1>1. topic' = topic /\ run[p].todo # {}
  BY DEF ReportMonbox, ReportFailure, amsVars
<1>2. CurrentJob(p) \in Jobs /\ CurrentJob(p) = Job(Current(p))
  BY <1>1, CurrentEvent DEF SInv, CInv, CurrentJob
<1>3. /\ rest.todo \subseteq run[p].todo
      /\ rest.new_tenant_entries = run[p].new_tenant_entries
      /\ rest.all_tenants_inited = run[p].all_tenants_inited
      /\ rest.inited_tenants = run[p].inited_tenants
  BY TodoFields DEF SInv, Rest
<1> HIDE DEF rest
<1>4. CASE ReportMonbox(p)
  <2>1. /\ pc[p] = "report_monbox" /\ Goto(p, "report_monbox", rest)
        /\ PatchStatus(p, CurrentJob(p), Outcome(run[p], topic[Current(p)].tenant))
    BY <1>4 DEF ReportMonbox, rest, InitOutcome, Outcome
  <2>2. ASSUME NEW i \in rest.todo
        PROVE  status'[Job(i)] \in Open \cup {Outcome(run[p], topic[i].tenant)}
    <3>1. Job(i) \in Jobs
      BY <1>3, JobType DEF SInv
    <3>2. status[Job(i)] \in Open \cup {Outcome(run[p], topic[i].tenant)}
      BY <1>3, <2>1 DEF SInv, Works
    <3>3. CASE Job(i) = CurrentJob(p)
      <4>1. topic[i].tenant = topic[Current(p)].tenant
        BY <1>2, <3>3 DEF Job
      <4> QED BY <1>2, <2>1, <3>2, <3>3, <4>1, PatchedElsewhere DEF SInv
    <3>4. CASE Job(i) # CurrentJob(p)
      BY <1>2, <2>1, <3>1, <3>2, <3>4, PatchedElsewhere DEF SInv
    <3> QED BY <3>3, <3>4
  <2>3. Works("report_monbox", rest, status')
    BY <1>3, <2>2 DEF Works, Outcome
  <2> QED BY <1>1, <2>1, <2>3, GotoSInv
<1>5. CASE ReportFailure(p)
  <2>1. /\ pc[p] = "fail" /\ Goto(p, "fail", rest)
        /\ PatchStatus(p, CurrentJob(p), "FAILED")
    BY <1>5 DEF ReportFailure, rest
  <2>2. ASSUME NEW i \in rest.todo PROVE status'[Job(i)] \in Open \cup {"FAILED"}
    <3>1. Job(i) \in Jobs /\ status[Job(i)] \in Open \cup {"FAILED"}
      BY <1>3, <2>1, JobType DEF SInv, Works
    <3> QED BY <1>2, <2>1, <3>1, PatchedElsewhere DEF SInv
  <2>3. Works("fail", rest, status')
    BY <2>2 DEF Works
  <2> QED BY <1>1, <2>1, <2>3, GotoSInv
<1> QED BY <1>4, <1>5

\* A job that is opened again, or registered, or left as it is stays workable.
LEMMA OpenedWorks ==
    ASSUME CInv, NEW p \in Procs, NEW st,
           \A j \in Jobs : st[j] = status[j] \/ st[j] \in Open,
           Works(pc[p], run[p], status)
    PROVE  Works(pc[p], run[p], st)
<1>1. pc[p] \in {"claim", "playbook", "report"} => Job(Min(run[p].todo)) \in Jobs
  <2>1. pc[p] \in {"claim", "playbook", "report"} => CurrentJob(p) \in Jobs
    BY Locals, CurrentEvent DEF CInv, AtEvent
  <2> QED BY <2>1 DEF CurrentJob, Current
<1>2. \A i \in run[p].todo \cup run[p].monbox_init_events : Job(i) \in Jobs
  BY JobType
<1> QED BY <1>1, <1>2 DEF Works

LEMMA SteadySInv ==
    ASSUME SInv, CInv', OperatorStatuses \cap Terminal = {},
           \/ \E p \in Procs : Signal(p) \/ TokenExpires(p)
           \/ \E j \in Jobs, s \in Statuses : UpdateStatus(j, s)
    PROVE  SInv'
<1>1. topic' = topic /\ pc' = pc
  BY DEF Signal, TokenExpires, UpdateStatus, amsVars
<1>2. \A q \in Procs : /\ run'[q].todo = run[q].todo
                       /\ run'[q].monbox_init_events = run[q].monbox_init_events
                       /\ run'[q].all_tenants_inited = run[q].all_tenants_inited
                       /\ run'[q].inited_tenants = run[q].inited_tenants
  <2>1. CASE run' = run
    BY <2>1
  <2>2. CASE \E p \in Procs : TokenExpires(p)
    <3>1. PICK p \in Procs : run' = [run EXCEPT ![p] = [run[p] EXCEPT !.token = FALSE]]
      BY <2>2 DEF TokenExpires
    <3> QED BY <3>1, Locals DEF SInv, CInv, Inv, TypeOK, Cycle
  <2> QED BY <2>1, <2>2 DEF Signal, UpdateStatus
<1>3. \A j \in Jobs : status'[j] = status[j] \/ status'[j] \in Open
  <2>1. CASE status' = status
    BY <2>1
  <2>2. CASE \E j \in Jobs, s \in Statuses : UpdateStatus(j, s)
    <3>1. PICK j \in Jobs, s \in OperatorStatuses : status' = [status EXCEPT ![j] = s]
      BY <2>2 DEF UpdateStatus
    <3>2. s \in Open
      BY <3>1, ConfigAssumption DEF Statuses, Terminal, Open
    <3> QED BY <3>1, <3>2 DEF SInv, CInv, Inv, TypeOK
  <2> QED BY <2>1, <2>2 DEF Signal, TokenExpires
<1>4. ASSUME NEW q \in Procs PROVE Works(pc[q], run[q], status)'
  <2>1. Works(pc[q], run[q], status')
    BY <1>3, OpenedWorks DEF SInv
  <2> QED BY <1>1, <1>2, <2>1 DEF Works, Job, Outcome
<1> QED BY <1>4 DEF SInv

LEMMA PublishSInv ==
    ASSUME SInv, CInv', NEW m \in Messages, Publish(m)
    PROVE  SInv'
<1>1. pc' = pc /\ run' = run
  BY DEF Publish
<1>2. \A i \in 1..Len(topic) : topic'[i] = topic[i]
  BY DEF Publish, SInv, CInv, Inv, TypeOK
<1>3. \A j \in Jobs : status'[j] = status[j] \/ status'[j] \in Open
  BY DEF Publish, Open, SInv, CInv, Inv, TypeOK
<1>4. ASSUME NEW q \in Procs PROVE Works(pc[q], run[q], status)'
  <2>1. Works(pc[q], run[q], status')
    BY <1>3, OpenedWorks DEF SInv
  <2>2. /\ run[q].todo \in SUBSET Nat /\ run[q].todo \subseteq 1..Len(topic)
        /\ run[q].monbox_init_events \subseteq 1..Len(topic)
    BY Locals DEF SInv, CInv, Cycle
  <2>3. pc[q] \in {"claim", "playbook", "report"} => Min(run[q].todo) \in 1..Len(topic)
    BY <2>2, Locals, MinIsMember DEF SInv, CInv, AtEvent
  <2>4. \A i \in 1..Len(topic) : Job(i)' = Job(i) /\ topic'[i].tenant = topic[i].tenant
    BY <1>2 DEF Job
  <2>5. pc[q] \in {"claim", "playbook", "report"} =>
            (/\ topic[Min(run[q].todo)].name \in MappedEvents
             /\ status[Job(Min(run[q].todo))] \in Open)'
    BY <1>1, <1>2, <2>1, <2>3, <2>4 DEF Works
  <2>6. pc[q] \notin {"idle", "exited", "fail", "report_monbox"} =>
            (\A i \in run[q].monbox_init_events : status[Job(i)] \in Open)'
    BY <1>1, <2>1, <2>2, <2>4 DEF Works
  <2>7. /\ pc[q] = "fail" =>
              (\A i \in run[q].todo : status[Job(i)] \in Open \cup {"FAILED"})'
        /\ pc[q] = "report_monbox" =>
              (\A i \in run[q].todo :
                   status[Job(i)] \in Open \cup {Outcome(run[q], topic[i].tenant)})'
    BY <1>1, <2>1, <2>2, <2>4 DEF Works, Outcome
  <2> QED BY <1>1, <2>1, <2>5, <2>6, <2>7 DEF Works
<1> QED BY <1>4 DEF SInv

-------------------------------------------------------------------------------
LEMMA InitSInv == Init => SInv
<1> SUFFICES ASSUME Init PROVE SInv
  OBVIOUS
<1>1. \A p \in Procs : pc[p] \in {"idle", "exited"}
  BY DEF Init
<1> QED BY <1>1, InitCInv DEF SInv, Works

LEMMA NextSInv ==
    ASSUME OneProcess, OperatorStatuses \cap Terminal = {}, SInv, [Next]_vars
    PROVE  SInv'
<1>1. CInv'
  BY NextCInv DEF SInv, Terminal
<1>2. ASSUME NEW p \in Procs, PlaybookStep(p) PROVE SInv'
  <2>1. CASE RefreshTokens(p, "webapi", "refresh_webapi", "save_webapi")
    BY <1>1, <2>1, TokensSInv DEF TokenTypes, LoopLabels
  <2>2. CASE SaveTokens(p, "webapi", "save_webapi", "refresh_ams")
    BY <1>1, <2>2, TokensSInv DEF TokenTypes, LoopLabels
  <2>3. CASE RefreshTokens(p, "ams", "refresh_ams", "save_ams")
    BY <1>1, <2>3, TokensSInv DEF TokenTypes, LoopLabels
  <2>4. CASE SaveTokens(p, "ams", "save_ams", "events")
    BY <1>1, <2>4, TokensSInv DEF TokenTypes, LoopLabels
  <2> QED BY <1>1, <1>2, <2>1, <2>2, <2>3, <2>4, BeginSInv, TokensSInv, EventLoopSInv,
             ClaimSInv, SteadySInv DEF PlaybookStep
<1>3. ASSUME NEW p \in Procs, MonboxStep(p) PROVE SInv'
  BY <1>1, <1>3, AddSInv, CommitSInv, PuppetSInv, ReportMonboxSInv, BeginSInv
     DEF MonboxStep
<1>4. CASE UNCHANGED vars
  BY <1>1, <1>4 DEF vars, SInv, Works, Job, Outcome
<1> QED BY <1>1, <1>2, <1>3, <1>4, BeginSInv, SteadySInv, PublishSInv
        DEF Next, ProcessStep

\* A single process never works on a job that is finished: whatever Application.run lost
\* on the way and however often an event is delivered, and a job whose event is queued
\* twice is not taken up again, provided no operator finishes a job by hand.
THEOREM WorksOnOpenJobsOnly ==
    ASSUME OneProcess, OperatorStatuses \cap Terminal = {}
    PROVE  Spec => []WorksOnOpenJobs
<1>1. SInv => WorksOnOpenJobs
  <2> SUFFICES ASSUME SInv, NEW p \in Procs,
                      pc[p] \notin {"idle", "exited", "report", "fail", "report_monbox"},
                      NEW j \in Holding(p)
               PROVE  status[j] \notin Terminal
    BY DEF WorksOnOpenJobs
  <2>1. status[j] \in Open
    BY DEF SInv, Works, Holding, CurrentJob, Current
  <2> QED BY <2>1 DEF Open, Terminal
<1>2. SInv /\ [Next]_vars => SInv'
  BY NextSInv
<1> QED BY <1>1, <1>2, InitSInv, PTL DEF Spec

-------------------------------------------------------------------------------
(***************************************************************************)
(* Orphans, of one process too.  Between the status that it has read and   *)
(* the claim nobody else claims the job, so a claim is never of a job that *)
(* is in progress (Unclaimed), and no other step takes up a job.           *)
(***************************************************************************)
\* What label l and locals r say of the statuses st.
Unclaimed(l, r, st) ==
    /\ l = "claim" => st[Job(Min(r.todo))] # "IN_PROGRESS"
    /\ l \in LoopLabels => \A i \in r.monbox_init_events : st[Job(i)] # "IN_PROGRESS"

UInv == SInv /\ \A p \in Procs : Unclaimed(pc[p], run[p], status)

OrphansKept ==
    \A j \in Jobs : Orphaned(j) => Orphaned(j)' \/ status'[j] \in OperatorStatuses

LEMMA GotoUInv ==
    ASSUME OneProcess, UInv, SInv', NEW p \in Procs, NEW l, NEW r, Goto(p, l, r),
           topic' = topic, Unclaimed(l, r, status')
    PROVE  UInv'
<1>1. \A q \in Procs : pc'[q] = l /\ run'[q] = r
  BY DEF OneProcess, UInv, SInv, CInv, Inv, TypeOK, Goto
<1> QED BY <1>1 DEF UInv, Unclaimed, Job

\* A job that nobody holds, and that the only process does not hold next either.
LEMMA OrphanStays ==
    ASSUME OneProcess, UInv, NEW p \in Procs, NEW l, NEW r, Goto(p, l, r), topic' = topic,
           NEW j \in Jobs, status'[j] = "IN_PROGRESS", j \notin HeldAt(l, r)
    PROVE  Orphaned(j)'
<1>1. \A q \in Procs : pc'[q] = l /\ run'[q] = r
  BY DEF OneProcess, UInv, SInv, CInv, Inv, TypeOK, Goto
<1>2. \A q \in Procs : Holding(q)' = HeldAt(l, r)
  BY <1>1 DEF HeldAt, Holding, CurrentJob, Current, Job
<1> QED BY <1>2 DEF Orphaned

\* A step that sets no status: what p holds next it held before, or is not in progress.
LEMMA QuietOrphans ==
    ASSUME OneProcess, UInv, SInv', NEW p \in Procs, NEW l, NEW r, Goto(p, l, r),
           topic' = topic, status' = status, Unclaimed(l, r, status),
           \A k \in HeldAt(l, r) : \/ k \in HeldAt(pc[p], run[p])
                                   \/ status[k] # "IN_PROGRESS"
    PROVE  UInv' /\ OrphansKept
<1>1. UInv'
  BY GotoUInv
<1>2. ASSUME NEW j \in Jobs, Orphaned(j) PROVE Orphaned(j)'
  BY <1>2, OrphanStays, HeldIsHolding DEF Orphaned
<1> QED BY <1>1, <1>2 DEF OrphansKept

\* A step that sets one, of a job that is held or not in progress.
LEMMA PatchOrphans ==
    ASSUME OneProcess, UInv, SInv', NEW p \in Procs, NEW l, NEW r, Goto(p, l, r),
           NEW k \in Jobs, NEW s, PatchStatus(p, k, s),
           topic' = topic, Unclaimed(l, r, status'),
           k \in HeldAt(pc[p], run[p]) \/ status[k] # "IN_PROGRESS",
           HeldAt(l, r) \subseteq HeldAt(pc[p], run[p]) \cup {k}
    PROVE  UInv' /\ OrphansKept
<1>1. UInv'
  BY GotoUInv
<1>2. ASSUME NEW j \in Jobs, Orphaned(j) PROVE Orphaned(j)'
  <2>1. j # k /\ j \notin HeldAt(pc[p], run[p]) /\ status[j] = "IN_PROGRESS"
    BY <1>2, HeldIsHolding DEF Orphaned
  <2>2. status'[j] = "IN_PROGRESS"
    BY <2>1, PatchedElsewhere DEF UInv, SInv
  <2> QED BY <2>1, <2>2, OrphanStays
<1> QED BY <1>1, <1>2 DEF OrphansKept

-------------------------------------------------------------------------------
\* Nothing in hand, before and after the cycle.
LEMMA BeginOrphans ==
    ASSUME OneProcess, UInv, SInv', NEW p \in Procs,
           \/ AmsUnreachable(p) \/ PullFails(p) \/ Pull(p) \/ EndMonbox(p)
           \/ DaemonStops(p) \/ Raise(p) \/ Crash(p) \/ Start(p)
    PROVE  UInv' /\ OrphansKept
<1>1. topic' = topic /\ status' = status
  BY DEF AmsUnreachable, PullFails, Pull, EndMonbox, DaemonStops, Raise, Crash, Start,
         amsVars
<1>2. ASSUME NEW l \in {"idle", "exited", "iam"}, NEW r, Goto(p, l, r),
             r.monbox_init_events = {}
      PROVE  UInv' /\ OrphansKept
  <2>1. HeldAt(l, r) = {} /\ Unclaimed(l, r, status)
    BY <1>2 DEF HeldAt, Unclaimed
  <2> QED BY <1>1, <1>2, <2>1, QuietOrphans
<1>3. CASE \E S, T : Goto(p, "iam", [NewCycle EXCEPT !.todo = S, !.restapi_tokens = T])
  <2>1. PICK S, T : Goto(p, "iam", [NewCycle EXCEPT !.todo = S, !.restapi_tokens = T])
    BY <1>3
  <2>2. [NewCycle EXCEPT !.todo = S, !.restapi_tokens = T].monbox_init_events = {}
    BY DEF NewCycle
  <2> QED BY <1>2, <2>1, <2>2
<1>4. CASE Goto(p, "exited", NewCycle) \/ Goto(p, "idle", NewCycle) \/ EndCycle(p)
  BY <1>2, <1>4, NewCycleType DEF EndCycle
<1> QED BY <1>3, <1>4 DEF AmsUnreachable, PullFails, Pull, EndMonbox, DaemonStops,
                          Raise, Crash, Start

\* Before the event loop and between its events: the queue stays as it is.
LEMMA LoopOrphans ==
    ASSUME OneProcess, UInv, SInv', NEW p \in Procs, pc[p] \in LoopLabels,
           NEW l \in LoopLabels \ {"claim", "playbook", "report"}, NEW r, Goto(p, l, r),
           r.monbox_init_events = run[p].monbox_init_events,
           topic' = topic, status' = status
    PROVE  UInv' /\ OrphansKept
<1>1. HeldAt(l, r) = {} /\ Unclaimed(l, r, status)
  BY DEF HeldAt, Unclaimed, UInv, LoopLabels
<1> QED BY <1>1, QuietOrphans

LEMMA TokensOrphans ==
    ASSUME OneProcess, UInv, SInv', NEW p \in Procs,
           \/ FetchToken(p)
           \/ \E t \in TokenTypes, at \in LoopLabels, l \in {"save_webapi", "save_ams"} :
                 RefreshTokens(p, t, at, l)
           \/ \E t \in TokenTypes, at \in LoopLabels, l \in {"refresh_ams", "events"} :
                 SaveTokens(p, t, at, l)
    PROVE  UInv' /\ OrphansKept
<1>1. topic' = topic /\ status' = status /\ pc[p] \in LoopLabels
  BY DEF FetchToken, RefreshTokens, SaveTokens, amsVars, LoopLabels
<1>2. CASE FetchToken(p)
  <2>1. PICK token : Goto(p, "refresh_webapi", [run[p] EXCEPT !.token = token])
    BY <1>2 DEF FetchToken
  <2>2. [run[p] EXCEPT !.token = token].monbox_init_events = run[p].monbox_init_events
    BY Locals DEF UInv, SInv, CInv, Cycle
  <2> QED BY <1>1, <2>1, <2>2, LoopOrphans DEF LoopLabels
<1>3. ASSUME NEW t \in TokenTypes, NEW at, NEW l \in {"save_webapi", "save_ams"},
             RefreshTokens(p, t, at, l)
      PROVE  UInv' /\ OrphansKept
  <2>1. PICK toks, b : Goto(p, l, [run[p] EXCEPT !.tokens[t] = toks, !.any_refresh = b])
    BY <1>3 DEF RefreshTokens
  <2>2. [run[p] EXCEPT !.tokens[t] = toks, !.any_refresh = b].monbox_init_events
            = run[p].monbox_init_events
    BY Locals DEF UInv, SInv, CInv, Cycle
  <2> QED BY <1>1, <2>1, <2>2, LoopOrphans DEF LoopLabels
<1>4. ASSUME NEW t \in TokenTypes, NEW at, NEW l \in {"refresh_ams", "events"},
             SaveTokens(p, t, at, l)
      PROVE  UInv' /\ OrphansKept
  <2>1. Goto(p, l, [run[p] EXCEPT !.any_refresh = FALSE])
    BY <1>4 DEF SaveTokens
  <2>2. [run[p] EXCEPT !.any_refresh = FALSE].monbox_init_events
            = run[p].monbox_init_events
    BY Locals DEF UInv, SInv, CInv, Cycle
  <2> QED BY <1>1, <2>1, <2>2, LoopOrphans DEF LoopLabels
<1> QED BY <1>2, <1>3, <1>4

\* A job that may be claimed is not in progress.
LEMMA SeenUnclaimed ==
    ASSUME NEW p \in Procs, NEW j, NEW seen, GetStatus(p, j, seen), Claimable(seen)
    PROVE  status[j] # "IN_PROGRESS"
BY DEF GetStatus, Claimable

LEMMA StatusReadOrphans ==
    ASSUME OneProcess, UInv, SInv', NEW p \in Procs,
           SkipFiltered(p) \/ GetJobStatus(p) \/ RecheckMonbox(p) \/ InvalidPlaybook(p)
    PROVE  UInv' /\ OrphansKept
<1>1. topic' = topic /\ status' = status /\ pc[p] \in LoopLabels
  BY DEF SkipFiltered, GetJobStatus, RecheckMonbox, InvalidPlaybook, amsVars, LoopLabels
<1>2. CASE Goto(p, "events", [run[p] EXCEPT !.todo = Rest(p)])
  BY <1>1, <1>2, TodoFields, LoopOrphans DEF UInv, SInv, LoopLabels
<1>3. CASE GetJobStatus(p)
  <2>1. CASE Goto(p, "recheck", run[p])
    BY <1>1, <2>1, LoopOrphans DEF LoopLabels
  <2>2. CASE Goto(p, "claim", run[p]) /\ status[CurrentJob(p)] # "IN_PROGRESS"
    <3>1. HeldAt("claim", run[p]) = {}
      BY DEF HeldAt
    <3>2. Unclaimed("claim", run[p], status)
      BY <1>1, <2>2 DEF UInv, Unclaimed, CurrentJob, Current
    <3> QED BY <1>1, <2>2, <3>1, <3>2, QuietOrphans
  <2> QED BY <1>2, <1>3, <2>1, <2>2, SeenUnclaimed DEF GetJobStatus
<1>4. CASE RecheckMonbox(p)
  <2> DEFINE new(queued) == [run[p] EXCEPT !.todo = Rest(p),
                                           !.monbox_init_events = queued]
  <2>1. PICK queued : /\ Goto(p, "events", new(queued))
                      /\ \A i \in queued : \/ i \in run[p].monbox_init_events
                                           \/ status[Job(i)] # "IN_PROGRESS"
    <3>1. PICK seen \in Statuses :
             /\ GetStatus(p, CurrentJob(p), seen)
             /\ Goto(p, "events", new(IF Claimable(seen)
                                      THEN run[p].monbox_init_events \cup {Current(p)}
                                      ELSE run[p].monbox_init_events))
      BY <1>4, Locals DEF RecheckMonbox, UInv, SInv, CInv, Cycle
    <3> QED BY <3>1, SeenUnclaimed DEF CurrentJob
  <2>2. new(queued).monbox_init_events = queued
    BY Locals DEF UInv, SInv, CInv, Cycle
  <2>3. Unclaimed("events", new(queued), status) /\ HeldAt("events", new(queued)) = {}
    BY <1>1, <2>1, <2>2 DEF UInv, Unclaimed, HeldAt
  <2> QED BY <1>1, <2>1, <2>3, QuietOrphans
<1> QED BY <1>2, <1>3, <1>4 DEF SkipFiltered, InvalidPlaybook

LEMMA EndEventsOrphans ==
    ASSUME OneProcess, UInv, SInv', NEW p \in Procs, RunPlaybook(p) \/ EndEvents(p)
    PROVE  UInv' /\ OrphansKept
<1>1. topic' = topic /\ status' = status
  BY DEF RunPlaybook, EndEvents, amsVars
<1>2. CASE RunPlaybook(p)
  <2>1. PICK ok : Goto(p, "report", [run[p] EXCEPT !.ok = ok])
    BY <1>2 DEF RunPlaybook
  <2> DEFINE new == [run[p] EXCEPT !.ok = ok]
  <2>2. new.todo = run[p].todo /\ new.monbox_init_events = run[p].monbox_init_events
    BY Locals DEF UInv, SInv, CInv, Cycle
  <2> HIDE DEF new
  <2>3. pc[p] = "playbook"
    BY <1>2 DEF RunPlaybook
  <2>4. HeldAt("report", new) = HeldAt(pc[p], run[p])
    BY <2>2, <2>3 DEF HeldAt
  <2>5. Unclaimed("report", new, status)
    BY <2>2, <2>3 DEF UInv, Unclaimed, LoopLabels
  <2> QED BY <1>1, <2>1, <2>4, <2>5, QuietOrphans DEF new
<1>3. CASE EndEvents(p)
  <2>1. CASE Goto(p, "add", [run[p] EXCEPT !.todo = run[p].monbox_init_events])
    <3> DEFINE new == [run[p] EXCEPT !.todo = run[p].monbox_init_events]
    <3>1. new.monbox_init_events = run[p].monbox_init_events
      BY TodoFields DEF UInv, SInv
    <3> HIDE DEF new
    <3>2. \A k \in HeldAt("add", new) : status[k] # "IN_PROGRESS"
      BY <1>3, <3>1 DEF EndEvents, UInv, Unclaimed, LoopLabels, HeldAt
    <3>3. Unclaimed("add", new, status)
      BY DEF Unclaimed, LoopLabels
    <3> QED BY <1>1, <2>1, <3>2, <3>3, QuietOrphans DEF new
  <2>2. CASE EndCycle(p)
    <3>1. PICK l \in {"idle", "exited"} : Goto(p, l, NewCycle)
      BY <2>2 DEF EndCycle
    <3>2. HeldAt(l, NewCycle) = {} /\ Unclaimed(l, NewCycle, status)
      BY DEF HeldAt, Unclaimed, LoopLabels
    <3> QED BY <1>1, <3>1, <3>2, QuietOrphans
  <2> QED BY <1>3, <2>1, <2>2 DEF EndEvents
<1> QED BY <1>2, <1>3

LEMMA ClaimOrphans ==
    ASSUME OneProcess, UInv, SInv', NEW p \in Procs, Claim(p) \/ Report(p)
    PROVE  UInv' /\ OrphansKept
<1>1. topic' = topic /\ pc[p] \in {"claim", "report"}
  BY DEF Claim, Report, amsVars
<1>2. PICK s : PatchStatus(p, CurrentJob(p), s)
  BY DEF Claim, Report
<1>3. CurrentJob(p) \in Jobs
  BY <1>1, PlaybookJob DEF UInv
<1>4. \A i \in run[p].monbox_init_events : status'[Job(i)] # "IN_PROGRESS"
  <2> TAKE i \in run[p].monbox_init_events
  <2>1. Job(i) \in Jobs /\ Job(i) # CurrentJob(p)
    BY <1>1, PlaybookJob, JobType DEF UInv, SInv
  <2>2. status[Job(i)] # "IN_PROGRESS"
    BY <1>1 DEF UInv, Unclaimed, LoopLabels
  <2> QED BY <1>2, <1>3, <2>1, <2>2, PatchedElsewhere DEF UInv, SInv
<1>5. CASE Claim(p)
  <2>1. pc[p] = "claim" /\ Goto(p, "playbook", run[p])
    BY <1>5 DEF Claim
  <2>2. HeldAt("playbook", run[p]) = {CurrentJob(p)}
    BY DEF HeldAt, CurrentJob, Current
  <2>3. status[CurrentJob(p)] # "IN_PROGRESS"
    BY <2>1 DEF UInv, Unclaimed, CurrentJob, Current
  <2>4. Unclaimed("playbook", run[p], status')
    BY <1>4 DEF Unclaimed
  <2>5. HeldAt("playbook", run[p]) \subseteq HeldAt(pc[p], run[p]) \cup {CurrentJob(p)}
    BY <2>2
  <2> QED BY <1>1, <1>2, <1>3, <2>1, <2>3, <2>4, <2>5, PatchOrphans
<1>6. CASE Report(p)
  <2> DEFINE new == [run[p] EXCEPT !.todo = Rest(p)]
  <2>1. new.monbox_init_events = run[p].monbox_init_events
    BY TodoFields DEF UInv, SInv
  <2>2. pc[p] = "report" /\ Goto(p, "events", new)
    BY <1>6 DEF Report
  <2> HIDE DEF new
  <2>3. CurrentJob(p) \in HeldAt(pc[p], run[p])
    BY <2>2 DEF HeldAt, CurrentJob, Current
  <2>4. HeldAt("events", new) = {}
    BY DEF HeldAt
  <2>5. Unclaimed("events", new, status')
    BY <1>4, <2>1 DEF Unclaimed
  <2>6. HeldAt("events", new) \subseteq HeldAt(pc[p], run[p]) \cup {CurrentJob(p)}
    BY <2>4
  <2> QED BY <1>1, <1>2, <1>3, <2>2, <2>3, <2>5, <2>6, PatchOrphans
<1> QED BY <1>5, <1>6

-------------------------------------------------------------------------------
\* The monitoring boxes: the queued jobs are held until the end of the cycle.
QueueLabels == MiddleLabels \cup {"add", "add_claim"}

LEMMA QueueOrphans ==
    ASSUME OneProcess, UInv, SInv', NEW p \in Procs, pc[p] \in QueueLabels,
           NEW l \in QueueLabels \cup {"fail", "report_monbox"}, NEW r, Goto(p, l, r),
           l \in QueueLabels => r.monbox_init_events = run[p].monbox_init_events,
           l \notin QueueLabels => r.todo = run[p].monbox_init_events,
           topic' = topic, status' = status
    PROVE  UInv' /\ OrphansKept
<1>1. HeldAt(pc[p], run[p]) = {Job(i) : i \in run[p].monbox_init_events}
  BY DEF HeldAt, QueueLabels, MiddleLabels
<1>2. HeldAt(l, r) = {Job(i) : i \in run[p].monbox_init_events}
  BY DEF HeldAt, QueueLabels, MiddleLabels
<1>3. Unclaimed(l, r, status)
  BY DEF Unclaimed, LoopLabels, QueueLabels, MiddleLabels
<1> QED BY <1>1, <1>2, <1>3, QuietOrphans

LEMMA AddOrphans ==
    ASSUME OneProcess, UInv, SInv', NEW p \in Procs, AddNewTenant(p) \/ ClaimMonbox(p)
    PROVE  UInv' /\ OrphansKept
<1> DEFINE rest == [run[p] EXCEPT !.todo = Rest(p)]
<1>1. topic' = topic /\ pc[p] \in {"add", "add_claim"}
  BY DEF AddNewTenant, ClaimMonbox, amsVars
<1>2. rest.monbox_init_events = run[p].monbox_init_events
  BY TodoFields DEF UInv, SInv
<1> HIDE DEF rest
<1>3. CASE AddNewTenant(p)
  <2> DEFINE new == [run[p] EXCEPT
                        !.new_tenant_entries = @ \cup {topic[Current(p)].tenant}]
  <2>1. new.monbox_init_events = run[p].monbox_init_events
    BY Locals DEF UInv, SInv, CInv, Cycle
  <2>2. Goto(p, "add_claim", new) \/ Goto(p, "add", rest)
    BY <1>3 DEF AddNewTenant, rest
  <2>3. status' = status
    BY <1>3 DEF AddNewTenant
  <2> HIDE DEF new
  <2> QED BY <1>1, <1>2, <2>1, <2>2, <2>3, QueueOrphans DEF QueueLabels
<1>4. CASE ClaimMonbox(p)
  <2>1. /\ pc[p] = "add_claim" /\ PatchStatus(p, CurrentJob(p), "IN_PROGRESS")
        /\ Goto(p, "add", rest)
    BY <1>4 DEF ClaimMonbox, rest
  <2>2. Current(p) \in run[p].todo /\ CurrentJob(p) \in Jobs
    BY <2>1, Locals, CurrentEvent DEF UInv, SInv, CInv, AtEvent
  <2>3. CurrentJob(p) \in HeldAt(pc[p], run[p])
    BY <2>1, <2>2 DEF UInv, SInv, Works, HeldAt, CurrentJob
  <2>4. HeldAt("add", rest) \subseteq HeldAt(pc[p], run[p]) \cup {CurrentJob(p)}
    BY <1>2, <2>1 DEF HeldAt
  <2>5. Unclaimed("add", rest, status')
    BY DEF Unclaimed, LoopLabels
  <2> QED BY <1>1, <2>1, <2>2, <2>3, <2>4, <2>5, PatchOrphans
<1> QED BY <1>3, <1>4

LEMMA CommitOrphans ==
    ASSUME OneProcess, UInv, SInv', NEW p \in Procs,
           \/ DownloadConfig(p, "backend", "add", "push_backend") \/ CommitBackend(p)
           \/ DownloadConfig(p, "agent", "download_agent", "push_agent") \/ CommitAgent(p)
    PROVE  UInv' /\ OrphansKept
<1>1. topic' = topic /\ status' = status /\ pc[p] \in QueueLabels
  BY DEF DownloadConfig, CommitBackend, CommitAgent, amsVars, MiddleLabels, QueueLabels
<1>2. ASSUME NEW repo, NEW at, NEW l \in MiddleLabels, DownloadConfig(p, repo, at, l)
      PROVE  UInv' /\ OrphansKept
  <2>1. Goto(p, l, [run[p] EXCEPT !.yaml_data = git[repo]])
    BY <1>2 DEF DownloadConfig
  <2>2. [run[p] EXCEPT !.yaml_data = git[repo]].monbox_init_events
            = run[p].monbox_init_events
    BY Locals DEF UInv, SInv, CInv, Cycle
  <2> QED BY <1>1, <2>1, <2>2, QueueOrphans DEF QueueLabels
<1>3. CASE CommitBackend(p)
  <2>1. PICK committed : Goto(p, "download_agent",
                              [run[p] EXCEPT !.backend_commit_status = committed])
    BY <1>3 DEF CommitBackend
  <2>2. [run[p] EXCEPT !.backend_commit_status = committed].monbox_init_events
            = run[p].monbox_init_events
    BY Locals DEF UInv, SInv, CInv, Cycle
  <2> QED BY <1>1, <2>1, <2>2, QueueOrphans DEF QueueLabels, MiddleLabels
<1>4. CASE CommitAgent(p)
  <2>1. \/ Goto(p, "puppet", run[p])
        \/ Goto(p, "fail", [run[p] EXCEPT !.todo = run[p].monbox_init_events])
    BY <1>4 DEF CommitAgent
  <2>2. [run[p] EXCEPT !.todo = run[p].monbox_init_events].todo
            = run[p].monbox_init_events
    BY TodoFields DEF UInv, SInv
  <2> QED BY <1>1, <2>1, <2>2, QueueOrphans DEF QueueLabels, MiddleLabels
<1> QED BY <1>2, <1>3, <1>4 DEF MiddleLabels

LEMMA PuppetOrphans ==
    ASSUME OneProcess, UInv, SInv', NEW p \in Procs,
           RunPuppet(p) \/ CheckInit(p) \/ FetchTokenAgain(p)
    PROVE  UInv' /\ OrphansKept
<1>1. topic' = topic /\ status' = status /\ pc[p] \in QueueLabels
  BY DEF RunPuppet, CheckInit, FetchTokenAgain, amsVars, QueueLabels, MiddleLabels
<1>2. CASE RunPuppet(p)
  <2>1. \/ Goto(p, "check", run[p])
        \/ Goto(p, "fail", [run[p] EXCEPT !.todo = run[p].monbox_init_events])
    BY <1>2 DEF RunPuppet
  <2>2. [run[p] EXCEPT !.todo = run[p].monbox_init_events].todo
            = run[p].monbox_init_events
    BY TodoFields DEF UInv, SInv
  <2> QED BY <1>1, <2>1, <2>2, QueueOrphans DEF QueueLabels, MiddleLabels
<1>3. CASE CheckInit(p)
  <2>1. PICK n, all, inited :
           Goto(p, "check", [run[p] EXCEPT !.checks = n, !.all_tenants_inited = all,
                                           !.inited_tenants = inited])
    BY <1>3, CheckedLocals DEF UInv, SInv, CInv
  <2>2. [run[p] EXCEPT !.checks = n, !.all_tenants_inited = all,
                       !.inited_tenants = inited].monbox_init_events
            = run[p].monbox_init_events
    BY Locals DEF UInv, SInv, CInv, Cycle
  <2> QED BY <1>1, <2>1, <2>2, QueueOrphans DEF QueueLabels, MiddleLabels
<1>4. CASE FetchTokenAgain(p)
  <2>1. PICK token : Goto(p, "report_monbox", [run[p] EXCEPT
                              !.token = token, !.todo = run[p].monbox_init_events])
    BY <1>4 DEF FetchTokenAgain
  <2>2. [run[p] EXCEPT !.token = token, !.todo = run[p].monbox_init_events].todo
            = run[p].monbox_init_events
    BY Locals DEF UInv, SInv, CInv, Cycle
  <2> QED BY <1>1, <2>1, <2>2, QueueOrphans DEF QueueLabels, MiddleLabels
<1> QED BY <1>2, <1>3, <1>4

LEMMA ReportMonboxOrphans ==
    ASSUME OneProcess, UInv, SInv', NEW p \in Procs, ReportMonbox(p) \/ ReportFailure(p)
    PROVE  UInv' /\ OrphansKept
<1> DEFINE rest == [run[p] EXCEPT !.todo = Rest(p)]
<1>1. /\ topic' = topic /\ run[p].todo # {}
      /\ pc[p] \in {"fail", "report_monbox"} /\ Goto(p, pc[p], rest)
  BY DEF ReportMonbox, ReportFailure, amsVars
<1>2. PICK s : PatchStatus(p, CurrentJob(p), s)
  BY DEF ReportMonbox, ReportFailure
<1>3. Current(p) \in run[p].todo /\ CurrentJob(p) \in Jobs
  BY <1>1, CurrentEvent DEF UInv, SInv, CInv
<1>4. rest.todo \subseteq run[p].todo
  BY TodoFields DEF UInv, SInv, Rest
<1> HIDE DEF rest
<1>5. CurrentJob(p) \in HeldAt(pc[p], run[p])
  BY <1>1, <1>3 DEF HeldAt, CurrentJob
<1>6. HeldAt(pc[p], rest) \subseteq HeldAt(pc[p], run[p]) \cup {CurrentJob(p)}
  BY <1>1, <1>4 DEF HeldAt
<1>7. Unclaimed(pc[p], rest, status')
  BY <1>1 DEF Unclaimed, LoopLabels
<1> QED BY <1>1, <1>2, <1>3, <1>5, <1>6, <1>7, PatchOrphans

-------------------------------------------------------------------------------
\* Steps of the environment: nothing is taken up, no job is set to IN_PROGRESS.
LEMMA QuietUnclaimed ==
    ASSUME CInv, NEW p \in Procs, NEW st,
           \A j \in Jobs : st[j] = status[j] \/ st[j] # "IN_PROGRESS",
           Unclaimed(pc[p], run[p], status)
    PROVE  Unclaimed(pc[p], run[p], st)
<1>1. pc[p] = "claim" => Job(Min(run[p].todo)) \in Jobs
  <2>1. pc[p] = "claim" => CurrentJob(p) \in Jobs
    BY Locals, CurrentEvent DEF CInv, AtEvent
  <2> QED BY <2>1 DEF CurrentJob, Current
<1>2. \A i \in run[p].monbox_init_events : Job(i) \in Jobs
  BY JobType
<1> QED BY <1>1, <1>2 DEF Unclaimed

LEMMA SteadyOrphans ==
    ASSUME UInv, SInv', "IN_PROGRESS" \notin OperatorStatuses,
           \/ \E p \in Procs : Signal(p) \/ TokenExpires(p)
           \/ \E j \in Jobs, s \in Statuses : UpdateStatus(j, s)
    PROVE  UInv' /\ OrphansKept
<1>1. topic' = topic /\ pc' = pc
  BY DEF Signal, TokenExpires, UpdateStatus, amsVars
<1>2. \A q \in Procs : /\ run'[q].todo = run[q].todo
                       /\ run'[q].monbox_init_events = run[q].monbox_init_events
  <2>1. CASE run' = run
    BY <2>1
  <2>2. CASE \E p \in Procs : TokenExpires(p)
    <3>1. PICK p \in Procs : run' = [run EXCEPT ![p] = [run[p] EXCEPT !.token = FALSE]]
      BY <2>2 DEF TokenExpires
    <3> QED BY <3>1, Locals DEF UInv, SInv, CInv, Inv, TypeOK, Cycle
  <2> QED BY <2>1, <2>2 DEF Signal, UpdateStatus
<1>3. \A j \in Jobs : status'[j] = status[j] \/ status'[j] \in OperatorStatuses
  <2>1. CASE status' = status
    BY <2>1
  <2>2. CASE \E j \in Jobs, s \in Statuses : UpdateStatus(j, s)
    <3>1. PICK j \in Jobs, s \in OperatorStatuses : status' = [status EXCEPT ![j] = s]
      BY <2>2 DEF UpdateStatus
    <3> QED BY <3>1 DEF UInv, SInv, CInv, Inv, TypeOK
  <2> QED BY <2>1, <2>2 DEF Signal, TokenExpires
<1>4. ASSUME NEW q \in Procs PROVE Unclaimed(pc[q], run[q], status)'
  <2>1. \A j \in Jobs : status'[j] = status[j] \/ status'[j] # "IN_PROGRESS"
    BY <1>3
  <2>2. Unclaimed(pc[q], run[q], status')
    BY <2>1, QuietUnclaimed DEF UInv, SInv
  <2> QED BY <1>1, <1>2, <2>2 DEF Unclaimed, Job
<1>5. \A q \in Procs : Holding(q)' = Holding(q)
  BY <1>1, <1>2 DEF Holding, CurrentJob, Current, Job
<1>6. OrphansKept
  BY <1>3, <1>5 DEF OrphansKept, Orphaned
<1> QED BY <1>4, <1>6 DEF UInv

LEMMA PublishOrphans ==
    ASSUME UInv, SInv', NEW m \in Messages, Publish(m)
    PROVE  UInv' /\ OrphansKept
<1>1. pc' = pc /\ run' = run
  BY DEF Publish
<1>2. \A i \in 1..Len(topic) : topic'[i] = topic[i]
  BY DEF Publish, UInv, SInv, CInv, Inv, TypeOK
<1>3. \A j \in Jobs : /\ status'[j] = status[j] \/ status'[j] = "INITIALISED"
                      /\ status[j] # "NONE" => status'[j] = status[j]
  BY DEF Publish, UInv, SInv, CInv, Inv, TypeOK
<1>4. \A i \in 1..Len(topic) : Job(i)' = Job(i)
  BY <1>2 DEF Job
<1>5. ASSUME NEW q \in Procs
      PROVE  /\ run[q].todo \subseteq 1..Len(topic)
             /\ run[q].monbox_init_events \subseteq 1..Len(topic)
             /\ pc[q] \in {"claim", "playbook", "report"} =>
                    Min(run[q].todo) \in 1..Len(topic)
  <2>1. /\ run[q].todo \in SUBSET Nat /\ run[q].todo \subseteq 1..Len(topic)
        /\ run[q].monbox_init_events \subseteq 1..Len(topic)
    BY Locals DEF UInv, SInv, CInv, Cycle
  <2>2. pc[q] \in {"claim", "playbook", "report"} => Min(run[q].todo) \in 1..Len(topic)
    BY <2>1, Locals, MinIsMember DEF UInv, SInv, CInv, AtEvent
  <2> QED BY <2>1, <2>2
<1>6. ASSUME NEW q \in Procs PROVE Unclaimed(pc[q], run[q], status)'
  <2>1. Unclaimed(pc[q], run[q], status')
    BY <1>3, QuietUnclaimed DEF UInv, SInv
  <2> QED BY <1>1, <1>4, <1>5, <2>1 DEF Unclaimed
<1>7. ASSUME NEW q \in Procs PROVE Holding(q)' = Holding(q)
  <2>1. pc[q] \in {"playbook", "report"} => CurrentJob(q)' = CurrentJob(q)
    BY <1>1, <1>4, <1>5 DEF CurrentJob, Current
  <2>2. {Job(i) : i \in run[q].todo}' = {Job(i) : i \in run[q].todo}
    BY <1>1, <1>4, <1>5
  <2>3. {Job(i) : i \in run[q].monbox_init_events}'
            = {Job(i) : i \in run[q].monbox_init_events}
    BY <1>1, <1>4, <1>5
  <2> QED BY <1>1, <2>1, <2>2, <2>3 DEF Holding
<1>8. OrphansKept
  BY <1>3, <1>7 DEF OrphansKept, Orphaned
<1> QED BY <1>6, <1>8 DEF UInv

-------------------------------------------------------------------------------
LEMMA InitUInv == Init => UInv
<1> SUFFICES ASSUME Init PROVE UInv
  OBVIOUS
<1>1. \A p \in Procs : pc[p] \in {"idle", "exited"}
  BY DEF Init
<1> QED BY <1>1, InitSInv DEF UInv, Unclaimed, LoopLabels

LEMMA NextOrphans ==
    ASSUME OneProcess, OperatorStatuses \cap Terminal = {},
           "IN_PROGRESS" \notin OperatorStatuses, UInv, [Next]_vars
    PROVE  UInv' /\ [OrphansKept]_vars
<1>1. SInv'
  BY NextSInv DEF UInv
<1>2. ASSUME NEW p \in Procs, PlaybookStep(p) PROVE UInv' /\ OrphansKept
  <2>1. CASE RefreshTokens(p, "webapi", "refresh_webapi", "save_webapi")
    BY <1>1, <2>1, TokensOrphans DEF TokenTypes, LoopLabels
  <2>2. CASE SaveTokens(p, "webapi", "save_webapi", "refresh_ams")
    BY <1>1, <2>2, TokensOrphans DEF TokenTypes, LoopLabels
  <2>3. CASE RefreshTokens(p, "ams", "refresh_ams", "save_ams")
    BY <1>1, <2>3, TokensOrphans DEF TokenTypes, LoopLabels
  <2>4. CASE SaveTokens(p, "ams", "save_ams", "events")
    BY <1>1, <2>4, TokensOrphans DEF TokenTypes, LoopLabels
  <2> QED BY <1>1, <1>2, <2>1, <2>2, <2>3, <2>4, BeginOrphans, TokensOrphans,
             StatusReadOrphans, EndEventsOrphans, ClaimOrphans, SteadyOrphans
          DEF PlaybookStep
<1>3. ASSUME NEW p \in Procs, MonboxStep(p) PROVE UInv' /\ OrphansKept
  BY <1>1, <1>3, AddOrphans, CommitOrphans, PuppetOrphans, ReportMonboxOrphans,
     BeginOrphans DEF MonboxStep
<1>4. CASE UNCHANGED vars
  BY <1>1, <1>4 DEF vars, UInv, Unclaimed, Job
<1> QED BY <1>1, <1>2, <1>3, <1>4, BeginOrphans, SteadyOrphans, PublishOrphans
        DEF Next, ProcessStep

\* With a single process a job that was orphaned stays so: no later cycle of
\* Application.run takes it up, because _process_event and the queue of monitoring
\* boxes only take INITIALISED ones, until an operator sets its status; provided the
\* operator sets none to IN_PROGRESS, COMPLETED or FAILED.
THEOREM OrphansStayOrphaned ==
    ASSUME OneProcess, OperatorStatuses \cap Terminal = {},
           "IN_PROGRESS" \notin OperatorStatuses
    PROVE  Spec => OrphansStay
<1>1. UInv /\ [Next]_vars => UInv'
  BY NextOrphans
<1>2. UInv /\ [Next]_vars => [OrphansKept]_vars
  BY NextOrphans
<1> QED BY <1>1, <1>2, InitUInv, PTL DEF Spec, OrphansStay, OrphansKept

-------------------------------------------------------------------------------
(***************************************************************************)
(* The branches, of one process too.  What was pushed stays, since nobody  *)
(* else pushes, and a backend push that failed is remembered up to the     *)
(* verdict on both (Pushed).                                               *)
(***************************************************************************)
\* What label l and locals r say of the branches g.
Pushed(l, r, g) ==
    /\ l \in {"download_agent", "push_agent"} /\ r.backend_commit_status = TRUE =>
           r.new_tenant_entries \subseteq g["backend"]
    /\ l \in {"puppet", "check", "report_monbox"} =>
           r.new_tenant_entries \subseteq g["backend"] \cap g["agent"]

BInv == Inv /\ \A p \in Procs : Pushed(pc[p], run[p], git)

LEMMA GotoBInv ==
    ASSUME OneProcess, BInv, Inv', NEW p \in Procs, NEW l, NEW r, Goto(p, l, r),
           Pushed(l, r, git')
    PROVE  BInv'
<1>1. \A q \in Procs : pc'[q] = l /\ run'[q] = r
  BY DEF OneProcess, BInv, Inv, TypeOK, Goto
<1> QED BY <1>1 DEF BInv, Pushed

\* Steps to places where nothing of this cycle has been pushed.
LEMMA UnpushedBInv ==
    ASSUME OneProcess, BInv, Inv', NEW p \in Procs, NEW l, NEW r, Goto(p, l, r),
           l \notin {"download_agent", "push_agent", "puppet", "check", "report_monbox"}
    PROVE  BInv'
BY GotoBInv DEF Pushed

LEMMA PlaybookBInv ==
    ASSUME OneProcess, BInv, Inv', NEW p \in Procs,
           \/ PlaybookStep(p) /\ ~TokenExpires(p)
           \/ DaemonStops(p) \/ Raise(p) \/ Crash(p) \/ Start(p)
    PROVE  BInv'
<1>1. CASE EndCycle(p)
  BY <1>1, UnpushedBInv DEF EndCycle
<1>2. CASE GetJobStatus(p)
  <2>1. PICK l \in {"claim", "recheck", "events"} : \E r : Goto(p, l, r)
    BY <1>2 DEF GetJobStatus
  <2> QED BY <2>1, UnpushedBInv
<1>3. ASSUME NEW t, NEW at, NEW l \in {"save_webapi", "refresh_ams", "save_ams", "events"},
             RefreshTokens(p, t, at, l) \/ SaveTokens(p, t, at, l)
      PROVE  BInv'
  <2>1. \E r : Goto(p, l, r)
    BY <1>3 DEF RefreshTokens, SaveTokens
  <2> QED BY <2>1, UnpushedBInv
<1>4. CASE \/ AmsUnreachable(p) \/ PullFails(p) \/ Pull(p) \/ FetchToken(p)
           \/ SkipFiltered(p) \/ RecheckMonbox(p) \/ EndEvents(p)
  <2>1. EndCycle(p) \/ \E l \in {"exited", "iam", "refresh_webapi", "events", "add"} :
                             \E r : Goto(p, l, r)
    BY <1>4 DEF AmsUnreachable, PullFails, Pull, FetchToken, SkipFiltered, RecheckMonbox,
                EndEvents
  <2> QED BY <1>1, <2>1, UnpushedBInv
<1>5. CASE Claim(p) \/ RunPlaybook(p) \/ InvalidPlaybook(p) \/ Report(p)
  BY <1>5, UnpushedBInv DEF Claim, RunPlaybook, InvalidPlaybook, Report
<1>6. CASE DaemonStops(p) \/ Raise(p) \/ Crash(p) \/ Start(p)
  BY <1>1, <1>6, UnpushedBInv DEF DaemonStops, Raise, Crash, Start
<1> QED BY <1>2, <1>3, <1>4, <1>5, <1>6 DEF PlaybookStep

LEMMA PushBInv ==
    ASSUME OneProcess, BInv, Inv', NEW p \in Procs,
           \/ DownloadConfig(p, "agent", "download_agent", "push_agent")
           \/ CommitBackend(p) \/ CommitAgent(p)
    PROVE  BInv'
<1>1. git \in [Repos -> SUBSET Tenants] /\ run[p].new_tenant_entries \subseteq NewConfig(p)
  BY DEF BInv, Inv, TypeOK, NewConfig
<1>2. CASE DownloadConfig(p, "agent", "download_agent", "push_agent")
  <2> DEFINE new == [run[p] EXCEPT !.yaml_data = git["agent"]]
  <2>1. /\ new.backend_commit_status = run[p].backend_commit_status
        /\ new.new_tenant_entries = run[p].new_tenant_entries
    BY Locals DEF BInv, Cycle
  <2>2. Goto(p, "push_agent", new) /\ git' = git /\ pc[p] = "download_agent"
    BY <1>2 DEF DownloadConfig
  <2> HIDE DEF new
  <2>3. Pushed("push_agent", new, git')
    BY <2>1, <2>2 DEF BInv, Pushed
  <2> QED BY <2>2, <2>3, GotoBInv
<1>3. CASE CommitBackend(p)
  <2>1. PICK committed \in BOOLEAN :
           /\ PushConfig("backend", NewConfig(p), committed)
           /\ Goto(p, "download_agent",
                   [run[p] EXCEPT !.backend_commit_status = committed])
    BY <1>3 DEF CommitBackend
  <2> DEFINE new == [run[p] EXCEPT !.backend_commit_status = committed]
  <2>2. /\ new.backend_commit_status = committed
        /\ new.new_tenant_entries = run[p].new_tenant_entries
    BY Locals DEF BInv, Cycle
  <2>3. committed = TRUE => git'["backend"] = NewConfig(p)
    BY <1>1, <2>1 DEF PushConfig, Repos
  <2> HIDE DEF new
  <2>4. Pushed("download_agent", new, git')
    BY <1>1, <2>2, <2>3 DEF Pushed
  <2> QED BY <2>1, <2>4, GotoBInv DEF new
<1>4. CASE CommitAgent(p)
  <2>1. PICK committed \in BOOLEAN :
          /\ PushConfig("agent", NewConfig(p), committed)
          /\ IF CommitSuccess(run[p].backend_commit_status, committed)
             THEN Goto(p, "puppet", run[p])
             ELSE Goto(p, "fail", [run[p] EXCEPT !.todo = run[p].monbox_init_events])
    BY <1>4 DEF CommitAgent
  <2>2. CASE CommitSuccess(run[p].backend_commit_status, committed)
    <3>1. run[p].backend_commit_status = TRUE /\ committed = TRUE
      <4>1. run[p].backend_commit_status \in BOOLEAN
        BY Locals DEF BInv, Cycle
      <4> QED BY <2>2, <4>1 DEF CommitSuccess
    <3>2. git'["agent"] = NewConfig(p) /\ git'["backend"] = git["backend"]
      BY <1>1, <2>1, <3>1 DEF PushConfig, Repos
    <3>3. run[p].new_tenant_entries \subseteq git["backend"]
      BY <1>4, <3>1 DEF CommitAgent, BInv, Pushed
    <3>4. Pushed("puppet", run[p], git')
      BY <1>1, <3>2, <3>3 DEF Pushed
    <3> QED BY <2>1, <2>2, <3>4, GotoBInv
  <2>3. CASE ~CommitSuccess(run[p].backend_commit_status, committed)
    BY <2>1, <2>3, UnpushedBInv
  <2> QED BY <2>2, <2>3
<1> QED BY <1>2, <1>3, <1>4

LEMMA PuppetBInv ==
    ASSUME OneProcess, BInv, Inv', NEW p \in Procs,
           RunPuppet(p) \/ CheckInit(p) \/ FetchTokenAgain(p) \/ ReportMonbox(p)
    PROVE  BInv'
<1>1. /\ git' = git
      /\ run[p].new_tenant_entries \subseteq git["backend"] \cap git["agent"]
  BY DEF RunPuppet, CheckInit, FetchTokenAgain, ReportMonbox, BInv, Pushed
<1>2. ASSUME NEW l \in {"check", "report_monbox"}, NEW r, Goto(p, l, r),
             r.new_tenant_entries = run[p].new_tenant_entries
      PROVE  BInv'
  <2>1. Pushed(l, r, git')
    BY <1>1, <1>2 DEF Pushed
  <2> QED BY <1>2, <2>1, GotoBInv
<1>3. CASE RunPuppet(p)
  BY <1>2, <1>3, UnpushedBInv DEF RunPuppet
<1>4. CASE CheckInit(p)
  <2>1. PICK n, all, inited :
           Goto(p, "check", [run[p] EXCEPT !.checks = n, !.all_tenants_inited = all,
                                           !.inited_tenants = inited])
    BY <1>4, CheckedLocals DEF BInv
  <2>2. [run[p] EXCEPT !.checks = n, !.all_tenants_inited = all,
                       !.inited_tenants = inited].new_tenant_entries
            = run[p].new_tenant_entries
    BY Locals DEF BInv, Cycle
  <2> QED BY <1>2, <2>1, <2>2
<1>5. CASE FetchTokenAgain(p)
  <2>1. PICK token : Goto(p, "report_monbox", [run[p] EXCEPT
                              !.token = token, !.todo = run[p].monbox_init_events])
    BY <1>5 DEF FetchTokenAgain
  <2>2. [run[p] EXCEPT !.token = token, !.todo = run[p].monbox_init_events].new_tenant_entries
            = run[p].new_tenant_entries
    BY Locals DEF BInv, Cycle
  <2> QED BY <1>2, <2>1, <2>2
<1>6. CASE ReportMonbox(p)
  <2>1. [run[p] EXCEPT !.todo = Rest(p)].new_tenant_entries = run[p].new_tenant_entries
    BY Locals DEF BInv, Cycle
  <2> QED BY <1>2, <1>6, <2>1 DEF ReportMonbox
<1> QED BY <1>3, <1>4, <1>5, <1>6

LEMMA SteadyBInv ==
    ASSUME BInv, Inv', pc' = pc, git' = git,
           run' = run \/ \E p \in Procs : TokenExpires(p)
    PROVE  BInv'
<1>1. \A q \in Procs : /\ run'[q].backend_commit_status = run[q].backend_commit_status
                       /\ run'[q].new_tenant_entries = run[q].new_tenant_entries
  <2>1. CASE run' = run
    BY <2>1
  <2>2. CASE \E p \in Procs : TokenExpires(p)
    <3>1. PICK p \in Procs : run' = [run EXCEPT ![p] = [run[p] EXCEPT !.token = FALSE]]
      BY <2>2 DEF TokenExpires
    <3> QED BY <3>1, Locals DEF BInv, Inv, TypeOK, Cycle
  <2> QED BY <2>1, <2>2
<1> QED BY <1>1 DEF BInv, Pushed

LEMMA NextBInv ==
    ASSUME OneProcess, BInv, [Next]_vars
    PROVE  BInv'
<1>1. Inv'
  BY NextInv DEF BInv
<1>2. ASSUME NEW p \in Procs, TokenExpires(p) \/ Signal(p) PROVE BInv'
  BY <1>1, <1>2, SteadyBInv DEF TokenExpires, Signal
<1>3. ASSUME NEW p \in Procs, MonboxStep(p) PROVE BInv'
  <2>1. CASE AddNewTenant(p)
    <3>1. PICK l \in {"add", "add_claim"} : \E r : Goto(p, l, r)
      BY <2>1 DEF AddNewTenant
    <3> QED BY <1>1, <3>1, UnpushedBInv
  <2>2. CASE EndMonbox(p)
    BY <1>1, <2>2, UnpushedBInv DEF EndMonbox, EndCycle
  <2>3. CASE \/ ClaimMonbox(p) \/ ReportFailure(p)
             \/ DownloadConfig(p, "backend", "add", "push_backend")
    BY <1>1, <2>3, UnpushedBInv DEF ClaimMonbox, ReportFailure, DownloadConfig
  <2> QED BY <1>1, <1>3, <2>1, <2>2, <2>3, PushBInv, PuppetBInv DEF MonboxStep
<1>4. CASE \/ \E j \in Jobs, s \in Statuses : UpdateStatus(j, s)
           \/ \E m \in Messages : Publish(m)
  BY <1>1, <1>4, SteadyBInv DEF UpdateStatus, Publish
<1>5. CASE UNCHANGED vars
  BY <1>1, <1>5, SteadyBInv DEF vars
<1> QED BY <1>1, <1>2, <1>3, <1>4, <1>5, PlaybookBInv DEF Next, ProcessStep

LEMMA InitBInv == Init => BInv
<1> SUFFICES ASSUME Init PROVE BInv
  OBVIOUS
<1>1. \A p \in Procs : pc[p] \in {"idle", "exited"}
  BY DEF Init
<1> QED BY <1>1, InitInv DEF BInv, Pushed

\* With a single process, puppet runs only when both branches have all tenants that this
\* cycle has added, and so it stays until they have been reported on; whichever push
\* failed, whatever was raised, and however often the process was killed and restarted.
THEOREM PushedBeforePuppetRuns ==
    ASSUME OneProcess
    PROVE  Spec => []PushedBeforePuppet
<1>1. BInv => PushedBeforePuppet
  BY DEF BInv, Pushed, PushedBeforePuppet
<1>2. BInv /\ [Next]_vars => BInv'
  BY NextBInv
<1> QED BY <1>1, <1>2, InitBInv, PTL DEF Spec

-------------------------------------------------------------------------------
(***************************************************************************)
(* The life cycle.  What SInv says of the statuses makes every request of  *)
(* the pipeline a step of JobLifecycle, or a repetition that changes       *)
(* nothing.                                                                *)
(***************************************************************************)
LEMMA SetStep ==
    ASSUME CInv, NEW j \in Jobs, NEW s, status' = [status EXCEPT ![j] = s],
           \/ s = status[j]
           \/ s = "INITIALISED" /\ OperatorStatuses \subseteq {"INITIALISED"}
           \/ s = "IN_PROGRESS" /\ status[j] \in Open
           \/ s \in Terminal /\ status[j] \in Open
    PROVE  [Lifecycle!Next]_status
<1>1. status \in [Jobs -> Statuses]
  BY DEF CInv, Inv, TypeOK
<1>2. CASE s = status[j]
  BY <1>1, <1>2
<1>3. CASE s = "INITIALISED" /\ s # status[j]
  BY <1>1, <1>3
     DEF Statuses, Lifecycle!Next, Lifecycle!Register, Lifecycle!Reset, Lifecycle!Set
<1>4. CASE s = "IN_PROGRESS" /\ status[j] \in Open /\ s # status[j]
  BY <1>4 DEF Open, Lifecycle!Next, Lifecycle!TakeUp, Lifecycle!Set
<1>5. CASE s \in Terminal /\ status[j] \in Open
  BY <1>5 DEF Open, Terminal, Lifecycle!Next, Lifecycle!Finish, Lifecycle!Set
<1> QED BY <1>2, <1>3, <1>4, <1>5

LEMMA PatchStep ==
    ASSUME CInv, NEW p, NEW j \in Jobs, NEW s, PatchStatus(p, j, s),
           \/ s = status[j]
           \/ s = "IN_PROGRESS" /\ status[j] \in Open
           \/ s \in Terminal /\ status[j] \in Open
    PROVE  [Lifecycle!Next]_status
BY SetStep DEF PatchStatus

LEMMA ReportStep ==
    ASSUME SInv, NEW p \in Procs, Claim(p) \/ Report(p)
    PROVE  [Lifecycle!Next]_status
<1>1. CurrentJob(p) \in Jobs /\ status[CurrentJob(p)] \in Open
  BY PlaybookJob DEF Claim, Report
<1> QED BY <1>1, PatchStep DEF SInv, Claim, Report, Terminal

LEMMA MonboxReportStep ==
    ASSUME SInv, NEW p \in Procs, ClaimMonbox(p) \/ ReportMonbox(p) \/ ReportFailure(p)
    PROVE  [Lifecycle!Next]_status
<1>1. run[p].todo # {}
  BY Locals DEF ClaimMonbox, ReportMonbox, ReportFailure, SInv, CInv, AtEvent
<1>2. /\ Current(p) \in run[p].todo
      /\ CurrentJob(p) \in Jobs /\ CurrentJob(p) = Job(Current(p))
  BY <1>1, CurrentEvent DEF SInv, CInv, CurrentJob
<1>3. CASE ClaimMonbox(p)
  <2>1. status[CurrentJob(p)] \in Open
    BY <1>2, <1>3 DEF ClaimMonbox, SInv, Works
  <2> QED BY <1>2, <1>3, <2>1, PatchStep DEF SInv, ClaimMonbox
<1>4. CASE ReportMonbox(p)
  <2>1. /\ PatchStatus(p, CurrentJob(p), Outcome(run[p], topic[Current(p)].tenant))
        /\ status[CurrentJob(p)] \in Open \cup {Outcome(run[p], topic[Current(p)].tenant)}
    BY <1>2, <1>4 DEF ReportMonbox, InitOutcome, Outcome, SInv, Works
  <2>2. Outcome(run[p], topic[Current(p)].tenant) \in Terminal
    BY DEF Outcome, Terminal
  <2> QED BY <1>2, <2>1, <2>2, PatchStep DEF SInv
<1>5. CASE ReportFailure(p)
  <2>1. status[CurrentJob(p)] \in Open \cup {"FAILED"}
    BY <1>2, <1>5 DEF ReportFailure, SInv, Works
  <2> QED BY <1>2, <1>5, <2>1, PatchStep DEF SInv, ReportFailure, Terminal
<1> QED BY <1>3, <1>4, <1>5

LEMMA OutsideStep ==
    ASSUME SInv, OperatorStatuses \subseteq {"INITIALISED"},
           \/ \E j \in Jobs, s \in Statuses : UpdateStatus(j, s)
           \/ \E m \in Messages : Publish(m)
    PROVE  [Lifecycle!Next]_status
<1>1. CASE \E j \in Jobs, s \in Statuses : UpdateStatus(j, s)
  <2>1. PICK j \in Jobs : status' = [status EXCEPT ![j] = "INITIALISED"]
    BY <1>1 DEF UpdateStatus
  <2> QED BY <2>1, SetStep DEF SInv
<1>2. ASSUME NEW m \in Messages, Publish(m) PROVE [Lifecycle!Next]_status
  <2>1. <<m.tenant, m.name>> \in Jobs
    BY ConfigAssumption DEF Message, Jobs
  <2> QED BY <1>2, <2>1, SetStep DEF SInv, Publish
<1> QED BY <1>1, <1>2

LEMMA LifecycleStep ==
    ASSUME SInv, OperatorStatuses \subseteq {"INITIALISED"}, [Next]_vars
    PROVE  [Lifecycle!Next]_status
<1>1. ASSUME NEW p \in Procs, ProcessStep(p) PROVE [Lifecycle!Next]_status
  <2>1. CASE Claim(p) \/ Report(p)
    BY <2>1, ReportStep
  <2>2. CASE ClaimMonbox(p) \/ ReportMonbox(p) \/ ReportFailure(p)
    BY <2>2, MonboxReportStep
  <2>3. CASE /\ ~(Claim(p) \/ Report(p) \/ ClaimMonbox(p) \/ ReportMonbox(p))
             /\ ~ReportFailure(p)
    <3>1. status' = status
      BY <1>1, <2>3
         DEF ProcessStep, PlaybookStep, MonboxStep, DaemonStops, AmsUnreachable,
             PullFails, Pull, FetchToken, TokenExpires, RefreshTokens, SaveTokens,
             SkipFiltered, GetJobStatus, RecheckMonbox, RunPlaybook, InvalidPlaybook,
             EndEvents, AddNewTenant, DownloadConfig, CommitBackend, CommitAgent,
             RunPuppet, CheckInit, FetchTokenAgain, EndMonbox
    <3> QED BY <3>1
  <2> QED BY <2>1, <2>2, <2>3
<1>2. ASSUME NEW p \in Procs, Signal(p) \/ Raise(p) \/ Crash(p) \/ Start(p)
      PROVE  [Lifecycle!Next]_status
  BY <1>2 DEF Signal, Raise, Crash, Start
<1>3. CASE UNCHANGED vars
  BY <1>3 DEF vars
<1> QED BY <1>1, <1>2, <1>3, OutsideStep DEF Next

\* The refinement of JobLifecycle: with a single process, jobs are taken up only while
\* they are INITIALISED, end COMPLETED or FAILED, and never leave that status but by an
\* operator who initialises them again, provided operators set no other status.
THEOREM LifecycleFollowed ==
    ASSUME OneProcess, OperatorStatuses \subseteq {"INITIALISED"}
    PROVE  Spec => FollowsLifecycle
<1>1. Init => Lifecycle!Init
  BY DEF Init, Lifecycle!Init
<1>2. OperatorStatuses \cap Terminal = {}
  BY DEF Terminal
<1>3. SInv /\ [Next]_vars => SInv'
  BY <1>2, NextSInv
<1>4. SInv /\ [Next]_vars => [Lifecycle!Next]_status
  BY LifecycleStep
<1> QED BY <1>1, <1>3, <1>4, InitSInv, PTL DEF Spec, FollowsLifecycle, Lifecycle!Spec

-------------------------------------------------------------------------------
(***************************************************************************)
(* A monitoring-box job that is COMPLETED has a box that publishes.  What  *)
(* is counted at the end are the tenants that add_new_tenant has queued,   *)
(* so each tenant of a queued event must be one of them (Added).  It is    *)
(* when its tokens are in the spools (Stocked), as they are when no        *)
(* refresh fails and nobody else writes the spools meanwhile; and on one   *)
(* host as many lines as tenants are a line for each (Shown).              *)
(***************************************************************************)
Equipped ==
    /\ OneProcess /\ \A h, g \in BackendHosts : h = g
    /\ InitialRestTokens = Tenants
    /\ "monbox" \in Components["webapi"] /\ "argo-monbox" \in Components["ams"]
    /\ "refresh" \notin Faults

TokenLabels == {"iam", "refresh_webapi", "save_webapi", "refresh_ams", "save_ams"}
EventLabels == {"events", "recheck", "claim", "playbook", "report", "add", "add_claim"}
AddedLabels == MiddleLabels \cup {"report_monbox"}

HasToken(r, tokens, component) ==
    \A i \in r.todo \cup r.monbox_init_events :
        topic[i].tenant \notin FilteredTenants => <<topic[i].tenant, component>> \in tokens

Stocked(l, r, sp) ==
    /\ l \in TokenLabels \cup EventLabels => r.restapi_tokens = Tenants
    /\ l \in TokenLabels => r.monbox_init_events = {}
    /\ l = "save_webapi" =>
           HasToken(r, IF r.any_refresh = TRUE THEN r.tokens["webapi"] ELSE sp["webapi"],
                    "monbox")
    /\ l \in EventLabels \cup {"refresh_ams", "save_ams"} =>
           HasToken(r, sp["webapi"], "monbox")
    /\ l = "save_ams" =>
           HasToken(r, IF r.any_refresh = TRUE THEN r.tokens["ams"] ELSE sp["ams"],
                    "argo-monbox")
    /\ l \in EventLabels => HasToken(r, sp["ams"], "argo-monbox")

Added(l, r) ==
    /\ IsFiniteSet(r.new_tenant_entries)
    /\ \A i \in r.monbox_init_events : topic[i].tenant \notin FilteredTenants
    /\ l = "recheck" => topic[Min(r.todo)].tenant \notin FilteredTenants
    /\ l \in {"claim", "playbook", "report"} => topic[Min(r.todo)].name # Boxes
    /\ l = "add_claim" => topic[Min(r.todo)].tenant \in r.new_tenant_entries
    /\ l \in {"add", "add_claim"} =>
           /\ r.todo \subseteq r.monbox_init_events
           /\ \A i \in r.monbox_init_events \ r.todo : topic[i].tenant \in r.new_tenant_entries
    /\ l \in AddedLabels =>
           \A i \in r.monbox_init_events : topic[i].tenant \in r.new_tenant_entries

Publishes(t, boxes) == \E h \in BackendHosts : <<h, t>> \in boxes
Shown(l, r, boxes) ==
    /\ l \notin {"check", "report_monbox"} =>
           r.all_tenants_inited = FALSE /\ r.inited_tenants = {}
    /\ r.all_tenants_inited = TRUE => \A t \in r.new_tenant_entries : Publishes(t, boxes)
    /\ \A t \in r.inited_tenants : Publishes(t, boxes)

PInv == /\ CInv /\ CompletedMeansPublishing /\ restSpool = Tenants
        /\ \A p \in Procs : /\ Stocked(pc[p], run[p], spool)
                            /\ Added(pc[p], run[p])
                            /\ Shown(pc[p], run[p], monboxes)

-------------------------------------------------------------------------------
\* A box job is only completed when some box publishes, and boxes stay.
StatusShown ==
    /\ monboxes \subseteq monboxes'
    /\ \/ status' = status
       \/ \E j \in Jobs : \E s :
              /\ status' = [status EXCEPT ![j] = s]
              /\ s = "COMPLETED" /\ j[2] = Boxes => Publishes(j[1], monboxes')

LEMMA PublishingStep ==
    ASSUME PInv, StatusShown
    PROVE  CompletedMeansPublishing'
<1> SUFFICES ASSUME NEW t \in Tenants, status'[<<t, Boxes>>] = "COMPLETED"
             PROVE  \E h \in BackendHosts : <<h, t>> \in monboxes'
  BY DEF CompletedMeansPublishing, Boxes
<1>1. <<t, Boxes>> \in Jobs
  BY DEF Jobs, EventNames, Boxes
<1>2. CASE status[<<t, Boxes>>] = "COMPLETED"
  BY <1>2 DEF PInv, CompletedMeansPublishing, StatusShown, Boxes
<1>3. CASE status[<<t, Boxes>>] # "COMPLETED"
  <2>1. PICK j \in Jobs : \E s :
              /\ status' = [status EXCEPT ![j] = s]
              /\ s = "COMPLETED" /\ j[2] = Boxes => Publishes(j[1], monboxes')
    BY <1>3 DEF StatusShown
  <2>2. PICK s : /\ status' = [status EXCEPT ![j] = s]
                 /\ s = "COMPLETED" /\ j[2] = Boxes => Publishes(j[1], monboxes')
    BY <2>1
  <2>3. j = <<t, Boxes>> /\ s = "COMPLETED"
    BY <1>1, <1>3, <2>2 DEF PInv, CInv, Inv, TypeOK
  <2> QED BY <2>2, <2>3 DEF Publishes
<1> QED BY <1>2, <1>3

LEMMA GotoPInv ==
    ASSUME Equipped, PInv, CInv', NEW p \in Procs, NEW l, NEW r, Goto(p, l, r),
           topic' = topic, restSpool' = Tenants,
           Stocked(l, r, spool'), Added(l, r), Shown(l, r, monboxes'), StatusShown
    PROVE  PInv'
<1>1. \A q \in Procs : pc'[q] = l /\ run'[q] = r
  BY DEF Equipped, OneProcess, PInv, CInv, Inv, TypeOK, Goto
<1>2. CompletedMeansPublishing'
  BY PublishingStep
<1>3. ASSUME NEW q \in Procs
      PROVE  /\ Stocked(pc[q], run[q], spool)' /\ Added(pc[q], run[q])'
             /\ Shown(pc[q], run[q], monboxes)'
  <2>1. Stocked(pc[q], run[q], spool)'
    BY <1>1 DEF Stocked, HasToken
  <2>2. Added(pc[q], run[q])'
    BY <1>1 DEF Added
  <2>3. Shown(pc[q], run[q], monboxes)'
    BY <1>1 DEF Shown, Publishes
  <2> QED BY <2>1, <2>2, <2>3
<1> QED BY <1>2, <1>3 DEF PInv

\* The usual step: it leaves the spools, the boxes and the statuses alone.
LEMMA QuietPInv ==
    ASSUME Equipped, PInv, CInv', NEW p \in Procs, NEW l, NEW r, Goto(p, l, r),
           topic' = topic, UNCHANGED spoolVars, monboxes' = monboxes, status' = status,
           Stocked(l, r, spool), Added(l, r), Shown(l, r, monboxes)
    PROVE  PInv'
BY GotoPInv DEF spoolVars, StatusShown, PInv

LEMMA NewCyclePInv ==
    ASSUME Equipped, PInv, CInv', NEW p \in Procs,
           \/ Goto(p, "exited", NewCycle) \/ Goto(p, "idle", NewCycle) \/ EndCycle(p),
           topic' = topic, UNCHANGED spoolVars, monboxes' = monboxes, status' = status
    PROVE  PInv'
<1>1. /\ NewCycle.monbox_init_events = {} /\ NewCycle.new_tenant_entries = {}
      /\ NewCycle.all_tenants_inited = FALSE /\ NewCycle.inited_tenants = {}
  BY DEF NewCycle
<1>2. ASSUME NEW l \in {"idle", "exited"}
      PROVE  /\ Stocked(l, NewCycle, spool) /\ Added(l, NewCycle)
             /\ Shown(l, NewCycle, monboxes)
  <2>1. Stocked(l, NewCycle, spool)
    BY DEF Stocked, TokenLabels, EventLabels
  <2>2. Added(l, NewCycle)
    BY <1>1, FS_EmptySet DEF Added, AddedLabels, MiddleLabels
  <2>3. Shown(l, NewCycle, monboxes)
    BY <1>1 DEF Shown
  <2> QED BY <2>1, <2>2, <2>3
<1> QED BY <1>2, QuietPInv DEF EndCycle

LEMMA BeginPInv ==
    ASSUME Equipped, PInv, CInv', NEW p \in Procs,
           \/ AmsUnreachable(p) \/ PullFails(p) \/ Pull(p) \/ EndMonbox(p)
           \/ DaemonStops(p) \/ Raise(p) \/ Crash(p) \/ Start(p)
    PROVE  PInv'
<1>1. topic' = topic /\ UNCHANGED spoolVars /\ monboxes' = monboxes /\ status' = status
  BY DEF AmsUnreachable, PullFails, Pull, EndMonbox, DaemonStops, Raise, Crash, Start,
         amsVars, hostVars
<1>2. CASE \E S : Goto(p, "iam", [NewCycle EXCEPT !.todo = S, !.restapi_tokens = restSpool])
  <2>1. PICK S : Goto(p, "iam", [NewCycle EXCEPT !.todo = S, !.restapi_tokens = restSpool])
    BY <1>2
  <2> DEFINE new == [NewCycle EXCEPT !.todo = S, !.restapi_tokens = restSpool]
  <2>2. /\ new.monbox_init_events = {} /\ new.new_tenant_entries = {}
        /\ new.all_tenants_inited = FALSE /\ new.inited_tenants = {}
        /\ new.restapi_tokens = restSpool
    BY DEF NewCycle
  <2> HIDE DEF new
  <2>3. Stocked("iam", new, spool)
    BY <2>2 DEF PInv, Stocked, TokenLabels, EventLabels
  <2>4. Added("iam", new)
    BY <2>2, FS_EmptySet DEF Added, AddedLabels, MiddleLabels
  <2>5. Shown("iam", new, monboxes)
    BY <2>2 DEF Shown
  <2> QED BY <1>1, <2>1, <2>3, <2>4, <2>5, QuietPInv DEF new
<1>3. CASE Goto(p, "exited", NewCycle) \/ Goto(p, "idle", NewCycle) \/ EndCycle(p)
  BY <1>1, <1>3, NewCyclePInv
<1> QED BY <1>2, <1>3 DEF AmsUnreachable, PullFails, Pull, EndMonbox, DaemonStops,
                          Raise, Crash, Start

-------------------------------------------------------------------------------
\* What the locals keep when neither the events nor the tenants added change.
LEMMA AddedKept ==
    ASSUME PInv, NEW p \in Procs, pc[p] \in LoopLabels,
           NEW l \in LoopLabels \ {"recheck", "claim", "playbook", "report"}, NEW r,
           r.monbox_init_events = run[p].monbox_init_events,
           r.new_tenant_entries = run[p].new_tenant_entries,
           r.all_tenants_inited = run[p].all_tenants_inited,
           r.inited_tenants = run[p].inited_tenants
    PROVE  Added(l, r) /\ Shown(l, r, monboxes)
<1>1. Added(l, r)
  BY DEF PInv, Added, LoopLabels, AddedLabels, MiddleLabels
<1>2. Shown(l, r, monboxes)
  BY DEF PInv, Shown, LoopLabels
<1> QED BY <1>1, <1>2

LEMMA FetchPInv ==
    ASSUME Equipped, PInv, CInv', NEW p \in Procs, FetchToken(p)
    PROVE  PInv'
<1>1. /\ topic' = topic /\ UNCHANGED spoolVars /\ monboxes' = monboxes
      /\ status' = status /\ pc[p] = "iam"
  BY DEF FetchToken, amsVars, hostVars
<1>2. PICK token : Goto(p, "refresh_webapi", [run[p] EXCEPT !.token = token])
  BY DEF FetchToken
<1> DEFINE new == [run[p] EXCEPT !.token = token]
<1>3. /\ new.monbox_init_events = run[p].monbox_init_events
      /\ new.new_tenant_entries = run[p].new_tenant_entries
      /\ new.all_tenants_inited = run[p].all_tenants_inited
      /\ new.inited_tenants = run[p].inited_tenants
      /\ new.restapi_tokens = run[p].restapi_tokens
  BY Locals DEF PInv, CInv, Cycle
<1> HIDE DEF new
<1>4. Stocked("refresh_webapi", new, spool)
  BY <1>1, <1>3 DEF PInv, Stocked, TokenLabels, EventLabels
<1>5. Added("refresh_webapi", new) /\ Shown("refresh_webapi", new, monboxes)
  BY <1>1, <1>3, AddedKept DEF LoopLabels
<1> QED BY <1>1, <1>2, <1>4, <1>5, QuietPInv DEF new

\* Nothing fails to be refreshed: what is loaded and what is refreshed is all there.
LEMMA RefreshedAll ==
    ASSUME Equipped, PInv, NEW p \in Procs, NEW t \in TokenTypes, NEW at, NEW l,
           RefreshTokens(p, t, at, l)
    PROVE  \E r : /\ Goto(p, l, r)
                  /\ r.todo = run[p].todo
                  /\ r.monbox_init_events = run[p].monbox_init_events
                  /\ r.new_tenant_entries = run[p].new_tenant_entries
                  /\ r.all_tenants_inited = run[p].all_tenants_inited
                  /\ r.inited_tenants = run[p].inited_tenants
                  /\ r.restapi_tokens = run[p].restapi_tokens
                  /\ AllowedTenants(p) \X Components[t] \subseteq
                         IF r.any_refresh = TRUE THEN r.tokens[t] ELSE spool[t]
<1> DEFINE missing == (AllowedTenants(p) \X Components[t]) \ spool[t]
           saved == spool[t] \cup missing
           new == [run[p] EXCEPT !.tokens[t] = saved, !.any_refresh = missing # {}]
<1>1. ASSUME NEW failed, failed # {} PROVE ~Fault("refresh")
  BY DEF Fault, Equipped
<1>2. Goto(p, l, new)
  BY <1>1 DEF RefreshTokens
<1>3. /\ new.todo = run[p].todo
      /\ new.monbox_init_events = run[p].monbox_init_events
      /\ new.new_tenant_entries = run[p].new_tenant_entries
      /\ new.all_tenants_inited = run[p].all_tenants_inited
      /\ new.inited_tenants = run[p].inited_tenants
      /\ new.restapi_tokens = run[p].restapi_tokens
  BY Locals DEF PInv, CInv, Cycle
<1>4. new.tokens[t] = saved /\ (new.any_refresh # TRUE => missing = {})
  BY Locals DEF PInv, CInv, Cycle
<1>5. AllowedTenants(p) \X Components[t] \subseteq
          IF new.any_refresh = TRUE THEN new.tokens[t] ELSE spool[t]
  <2>1. AllowedTenants(p) \X Components[t] \subseteq saved
    OBVIOUS
  <2>2. missing = {} => AllowedTenants(p) \X Components[t] \subseteq spool[t]
    OBVIOUS
  <2> HIDE DEF missing, saved, new
  <2> QED BY <1>4, <2>1, <2>2
<1> HIDE DEF new
<1> QED BY <1>2, <1>3, <1>5

\* ... and the events in hand have their tokens there.
LEMMA AllowedHaveToken ==
    ASSUME NEW p \in Procs, NEW r, r.todo = run[p].todo, r.monbox_init_events = {},
           NEW tokens, NEW t, NEW component \in Components[t],
           AllowedTenants(p) \X Components[t] \subseteq tokens
    PROVE  HasToken(r, tokens, component)
<1> SUFFICES ASSUME NEW i \in run[p].todo, topic[i].tenant \notin FilteredTenants
             PROVE  <<topic[i].tenant, component>> \in tokens
  BY DEF HasToken
<1>1. topic[i].tenant \in AllowedTenants(p)
  BY DEF AllowedTenants
<1> QED BY <1>1

LEMMA RefreshPInv ==
    ASSUME Equipped, PInv, CInv', NEW p \in Procs,
           \/ RefreshTokens(p, "webapi", "refresh_webapi", "save_webapi")
           \/ RefreshTokens(p, "ams", "refresh_ams", "save_ams")
    PROVE  PInv'
<1>1. /\ topic' = topic /\ UNCHANGED spoolVars /\ monboxes' = monboxes
      /\ status' = status /\ pc[p] \in {"refresh_webapi", "refresh_ams"}
  BY DEF RefreshTokens, amsVars, hostVars
<1>2. run[p].monbox_init_events = {} /\ run[p].restapi_tokens = Tenants
  BY <1>1 DEF PInv, Stocked, TokenLabels
<1>3. CASE RefreshTokens(p, "webapi", "refresh_webapi", "save_webapi")
  <2>1. PICK r :
           /\ Goto(p, "save_webapi", r)
           /\ r.todo = run[p].todo
           /\ r.monbox_init_events = run[p].monbox_init_events
           /\ r.new_tenant_entries = run[p].new_tenant_entries
           /\ r.all_tenants_inited = run[p].all_tenants_inited
           /\ r.inited_tenants = run[p].inited_tenants
           /\ r.restapi_tokens = run[p].restapi_tokens
           /\ AllowedTenants(p) \X Components["webapi"] \subseteq
                  IF r.any_refresh = TRUE THEN r.tokens["webapi"] ELSE spool["webapi"]
    BY <1>3, RefreshedAll DEF TokenTypes
  <2>2. HasToken(r, IF r.any_refresh = TRUE THEN r.tokens["webapi"] ELSE spool["webapi"],
                 "monbox")
    BY <1>2, <2>1, AllowedHaveToken DEF Equipped
  <2>3. Stocked("save_webapi", r, spool)
    BY <1>2, <2>1, <2>2 DEF Stocked, TokenLabels, EventLabels
  <2>4. Added("save_webapi", r) /\ Shown("save_webapi", r, monboxes)
    BY <1>1, <2>1, AddedKept DEF LoopLabels
  <2> QED BY <1>1, <2>1, <2>3, <2>4, QuietPInv
<1>4. CASE RefreshTokens(p, "ams", "refresh_ams", "save_ams")
  <2>1. PICK r :
           /\ Goto(p, "save_ams", r)
           /\ r.todo = run[p].todo
           /\ r.monbox_init_events = run[p].monbox_init_events
           /\ r.new_tenant_entries = run[p].new_tenant_entries
           /\ r.all_tenants_inited = run[p].all_tenants_inited
           /\ r.inited_tenants = run[p].inited_tenants
           /\ r.restapi_tokens = run[p].restapi_tokens
           /\ AllowedTenants(p) \X Components["ams"] \subseteq
                  IF r.any_refresh = TRUE THEN r.tokens["ams"] ELSE spool["ams"]
    BY <1>4, RefreshedAll DEF TokenTypes
  <2>2. HasToken(r, IF r.any_refresh = TRUE THEN r.tokens["ams"] ELSE spool["ams"],
                 "argo-monbox")
    BY <1>2, <2>1, AllowedHaveToken DEF Equipped
  <2>3. HasToken(r, spool["webapi"], "monbox")
    BY <1>4, <2>1 DEF RefreshTokens, PInv, Stocked, HasToken
  <2>4. Stocked("save_ams", r, spool)
    BY <1>2, <2>1, <2>2, <2>3 DEF Stocked, TokenLabels, EventLabels
  <2>5. Added("save_ams", r) /\ Shown("save_ams", r, monboxes)
    BY <1>1, <2>1, AddedKept DEF LoopLabels
  <2> QED BY <1>1, <2>1, <2>4, <2>5, QuietPInv
<1> QED BY <1>3, <1>4

LEMMA SavePInv ==
    ASSUME Equipped, PInv, CInv', NEW p \in Procs,
           \/ SaveTokens(p, "webapi", "save_webapi", "refresh_ams")
           \/ SaveTokens(p, "ams", "save_ams", "events")
    PROVE  PInv'
<1> DEFINE new == [run[p] EXCEPT !.any_refresh = FALSE]
<1>1. /\ topic' = topic /\ restSpool' = Tenants /\ StatusShown
      /\ monboxes' = monboxes /\ pc[p] \in {"save_webapi", "save_ams"}
      /\ spool \in [TokenTypes -> SUBSET (Tenants \X STRING)]
  BY DEF SaveTokens, amsVars, hostVars, StatusShown, PInv, CInv, Inv, TypeOK
<1>2. /\ new.todo = run[p].todo
      /\ new.monbox_init_events = run[p].monbox_init_events
      /\ new.new_tenant_entries = run[p].new_tenant_entries
      /\ new.all_tenants_inited = run[p].all_tenants_inited
      /\ new.inited_tenants = run[p].inited_tenants
      /\ new.restapi_tokens = run[p].restapi_tokens
      /\ run[p].any_refresh \in BOOLEAN
  BY Locals DEF PInv, CInv, Cycle
<1>3. run[p].monbox_init_events = {} /\ run[p].restapi_tokens = Tenants
  BY <1>1 DEF PInv, Stocked, TokenLabels
<1>4. CASE SaveTokens(p, "webapi", "save_webapi", "refresh_ams")
  <2>1. /\ Goto(p, "refresh_ams", new)
        /\ spool'["webapi"] = IF run[p].any_refresh = TRUE THEN run[p].tokens["webapi"]
                              ELSE spool["webapi"]
    BY <1>1, <1>2, <1>4 DEF SaveTokens, TokenTypes
  <2> HIDE DEF new
  <2>2. HasToken(new, spool'["webapi"], "monbox")
    BY <1>2, <1>4, <2>1 DEF SaveTokens, PInv, Stocked, HasToken
  <2>3. Stocked("refresh_ams", new, spool')
    BY <1>2, <1>3, <2>2 DEF Stocked, TokenLabels, EventLabels
  <2>4. Added("refresh_ams", new) /\ Shown("refresh_ams", new, monboxes')
    BY <1>1, <1>2, AddedKept DEF LoopLabels
  <2> QED BY <1>1, <2>1, <2>3, <2>4, GotoPInv
<1>5. CASE SaveTokens(p, "ams", "save_ams", "events")
  <2>1. /\ Goto(p, "events", new)
        /\ spool'["webapi"] = spool["webapi"]
        /\ spool'["ams"] = IF run[p].any_refresh = TRUE THEN run[p].tokens["ams"]
                           ELSE spool["ams"]
    BY <1>1, <1>2, <1>5 DEF SaveTokens, TokenTypes
  <2> HIDE DEF new
  <2>2. HasToken(new, spool'["ams"], "argo-monbox")
    BY <1>2, <1>5, <2>1 DEF SaveTokens, PInv, Stocked, HasToken
  <2>3. HasToken(new, spool'["webapi"], "monbox")
    BY <1>2, <1>5, <2>1 DEF SaveTokens, PInv, Stocked, HasToken
  <2>4. Stocked("events", new, spool')
    BY <1>2, <1>3, <2>2, <2>3 DEF Stocked, TokenLabels, EventLabels
  <2>5. Added("events", new) /\ Shown("events", new, monboxes')
    BY <1>1, <1>2, AddedKept DEF LoopLabels
  <2> QED BY <1>1, <2>1, <2>4, <2>5, GotoPInv
<1> QED BY <1>4, <1>5

-------------------------------------------------------------------------------
\* In the loops over events the tokens stay where they are.
LEMMA StockKept ==
    ASSUME PInv, NEW p \in Procs, pc[p] \in EventLabels, NEW l, NEW r,
           l \notin TokenLabels,
           r.todo \cup r.monbox_init_events \subseteq
               run[p].todo \cup run[p].monbox_init_events,
           r.restapi_tokens = run[p].restapi_tokens
    PROVE  Stocked(l, r, spool)
<1>1. /\ HasToken(run[p], spool["webapi"], "monbox")
      /\ HasToken(run[p], spool["ams"], "argo-monbox")
      /\ run[p].restapi_tokens = Tenants
  BY DEF PInv, Stocked
<1>2. /\ HasToken(r, spool["webapi"], "monbox")
      /\ HasToken(r, spool["ams"], "argo-monbox")
  BY <1>1 DEF HasToken
<1> QED BY <1>1, <1>2 DEF Stocked, TokenLabels

\* Locals without the current event.
LEMMA RestFields ==
    ASSUME PInv, NEW p \in Procs, NEW S
    PROVE  LET r == [run[p] EXCEPT !.todo = S]
           IN  /\ r.todo = S
               /\ r.monbox_init_events = run[p].monbox_init_events
               /\ r.new_tenant_entries = run[p].new_tenant_entries
               /\ r.all_tenants_inited = run[p].all_tenants_inited
               /\ r.inited_tenants = run[p].inited_tenants
               /\ r.restapi_tokens = run[p].restapi_tokens
BY Locals DEF PInv, CInv, Cycle

LEMMA NextEvent ==
    ASSUME PInv, NEW p \in Procs, pc[p] \in LoopLabels \cap EventLabels
    PROVE  LET r == [run[p] EXCEPT !.todo = Rest(p)]
           IN Stocked("events", r, spool) /\ Added("events", r) /\ Shown("events", r, monboxes)
<1> DEFINE r == [run[p] EXCEPT !.todo = Rest(p)]
<1>1. /\ r.todo \subseteq run[p].todo
      /\ r.monbox_init_events = run[p].monbox_init_events
      /\ r.new_tenant_entries = run[p].new_tenant_entries
      /\ r.all_tenants_inited = run[p].all_tenants_inited
      /\ r.inited_tenants = run[p].inited_tenants
      /\ r.restapi_tokens = run[p].restapi_tokens
  BY RestFields DEF Rest
<1> HIDE DEF r
<1>2. Stocked("events", r, spool)
  BY <1>1, StockKept DEF TokenLabels
<1>3. Added("events", r) /\ Shown("events", r, monboxes)
  BY <1>1, AddedKept DEF LoopLabels
<1> QED BY <1>2, <1>3 DEF r

LEMMA StatusReadPInv ==
    ASSUME Equipped, PInv, CInv', NEW p \in Procs,
           SkipFiltered(p) \/ InvalidPlaybook(p) \/ GetJobStatus(p) \/ RecheckMonbox(p)
    PROVE  PInv'
<1>1. /\ topic' = topic /\ UNCHANGED spoolVars /\ monboxes' = monboxes
      /\ status' = status /\ pc[p] \in LoopLabels \cap EventLabels
  BY DEF SkipFiltered, InvalidPlaybook, GetJobStatus, RecheckMonbox, amsVars, hostVars,
         LoopLabels, EventLabels
<1>2. CASE Goto(p, "events", [run[p] EXCEPT !.todo = Rest(p)])
  BY <1>1, <1>2, NextEvent, QuietPInv
<1>3. ASSUME NEW l \in {"claim", "recheck"}, GetJobStatus(p), Goto(p, l, run[p]),
             l = "claim" => topic[Current(p)].name # Boxes
      PROVE  PInv'
  <2>1. topic[Current(p)].tenant \notin FilteredTenants /\ pc[p] = "events"
    BY <1>3 DEF GetJobStatus
  <2>2. Stocked(l, run[p], spool)
    BY <1>1, StockKept DEF TokenLabels
  <2>3. Added(l, run[p]) /\ Shown(l, run[p], monboxes)
    BY <1>3, <2>1 DEF PInv, Added, Shown, Current, AddedLabels, MiddleLabels
  <2> QED BY <1>1, <1>3, <2>2, <2>3, QuietPInv
<1>4. CASE GetJobStatus(p)
  <2>1. EventPlaybook(topic[Current(p)].name) # "none" => topic[Current(p)].name # Boxes
    BY DEF EventPlaybook, MappedEvents, Boxes
  <2> QED BY <1>2, <1>3, <1>4, <2>1 DEF GetJobStatus
<1>5. CASE RecheckMonbox(p)
  <2> DEFINE new(queued) == [run[p] EXCEPT !.todo = Rest(p),
                                           !.monbox_init_events = queued]
  <2>1. PICK queued \in {run[p].monbox_init_events,
                         run[p].monbox_init_events \cup {Current(p)}} :
           Goto(p, "events", new(queued))
    <3>1. PICK seen \in Statuses :
             Goto(p, "events", new(IF Claimable(seen)
                                   THEN run[p].monbox_init_events \cup {Current(p)}
                                   ELSE run[p].monbox_init_events))
      BY <1>5, Locals DEF RecheckMonbox, PInv, CInv, Cycle
    <3> QED BY <3>1
  <2>2. /\ new(queued).todo \subseteq run[p].todo
        /\ new(queued).monbox_init_events = queued
        /\ new(queued).new_tenant_entries = run[p].new_tenant_entries
        /\ new(queued).all_tenants_inited = run[p].all_tenants_inited
        /\ new(queued).inited_tenants = run[p].inited_tenants
        /\ new(queued).restapi_tokens = run[p].restapi_tokens
    BY Locals DEF PInv, CInv, Cycle, Rest
  <2>3. /\ Current(p) \in run[p].todo
        /\ topic[Current(p)].tenant \notin FilteredTenants
    BY <1>5, Locals, CurrentEvent
       DEF RecheckMonbox, PInv, CInv, AtEvent, Added, Current
  <2> HIDE DEF new
  <2>4. Stocked("events", new(queued), spool)
    BY <1>1, <2>1, <2>2, <2>3, StockKept DEF TokenLabels
  <2>5. Added("events", new(queued))
    BY <2>1, <2>2, <2>3 DEF PInv, Added, AddedLabels, MiddleLabels
  <2>6. Shown("events", new(queued), monboxes)
    BY <1>5, <2>2 DEF RecheckMonbox, PInv, Shown
  <2> QED BY <1>1, <2>1, <2>4, <2>5, <2>6, QuietPInv
<1> QED BY <1>2, <1>4, <1>5 DEF SkipFiltered, InvalidPlaybook

\* Whatever status a playbook's job gets, it is no monitoring box.
LEMMA PlaybookShown ==
    ASSUME PInv, NEW p \in Procs, NEW j \in Jobs, NEW s, PatchStatus(p, j, s),
           s # "COMPLETED" \/ j[2] # Boxes, monboxes' = monboxes
    PROVE  StatusShown
BY DEF PatchStatus, StatusShown

LEMMA PlaybookPInv ==
    ASSUME Equipped, PInv, CInv', NEW p \in Procs,
           Claim(p) \/ RunPlaybook(p) \/ Report(p)
    PROVE  PInv'
<1>1. /\ topic' = topic /\ spool' = spool /\ monboxes' = monboxes
      /\ pc[p] \in {"claim", "playbook", "report"}
  BY DEF Claim, RunPlaybook, Report, amsVars, spoolVars, hostVars
<1>2. /\ CurrentJob(p) \in Jobs /\ topic[Current(p)].tenant \in Tenants
      /\ CurrentJob(p)[2] # Boxes /\ topic[Current(p)].name # Boxes
  BY <1>1, Locals, CurrentEvent DEF PInv, CInv, AtEvent, Added, Current, CurrentJob, Job
<1>3. restSpool' = Tenants
  BY <1>2 DEF Claim, RunPlaybook, Report, spoolVars, PInv
<1>4. CASE Claim(p)
  <2>1. StatusShown
    BY <1>1, <1>2, <1>4, PlaybookShown DEF Claim
  <2>2. Stocked("playbook", run[p], spool)
    BY <1>1, StockKept DEF EventLabels, TokenLabels
  <2>3. Added("playbook", run[p]) /\ Shown("playbook", run[p], monboxes)
    BY <1>2, <1>4 DEF Claim, PInv, Added, Shown, Current, AddedLabels, MiddleLabels
  <2> QED BY <1>1, <1>3, <1>4, <2>1, <2>2, <2>3, GotoPInv DEF Claim
<1>5. CASE RunPlaybook(p)
  <2>1. PICK ok : Goto(p, "report", [run[p] EXCEPT !.ok = ok])
    BY <1>5 DEF RunPlaybook
  <2> DEFINE new == [run[p] EXCEPT !.ok = ok]
  <2>2. /\ new.todo = run[p].todo
        /\ new.monbox_init_events = run[p].monbox_init_events
        /\ new.new_tenant_entries = run[p].new_tenant_entries
        /\ new.all_tenants_inited = run[p].all_tenants_inited
        /\ new.inited_tenants = run[p].inited_tenants
        /\ new.restapi_tokens = run[p].restapi_tokens
    BY Locals DEF PInv, CInv, Cycle
  <2> HIDE DEF new
  <2>3. Stocked("report", new, spool)
    BY <1>1, <2>2, StockKept DEF EventLabels, TokenLabels
  <2>4. Added("report", new) /\ Shown("report", new, monboxes)
    BY <1>2, <1>5, <2>2
       DEF RunPlaybook, PInv, Added, Shown, Current, AddedLabels, MiddleLabels
  <2>5. StatusShown
    BY <1>1, <1>5 DEF RunPlaybook, StatusShown
  <2> QED BY <1>1, <1>3, <2>1, <2>3, <2>4, <2>5, GotoPInv DEF new
<1>6. CASE Report(p)
  <2>1. StatusShown
    BY <1>1, <1>2, <1>6, PlaybookShown DEF Report
  <2>2. LET r == [run[p] EXCEPT !.todo = Rest(p)]
        IN Stocked("events", r, spool) /\ Added("events", r) /\ Shown("events", r, monboxes)
    BY <1>1, NextEvent DEF LoopLabels, EventLabels
  <2> QED BY <1>1, <1>3, <1>6, <2>1, <2>2, GotoPInv DEF Report
<1> QED BY <1>4, <1>5, <1>6

LEMMA EndEventsPInv ==
    ASSUME Equipped, PInv, CInv', NEW p \in Procs, EndEvents(p)
    PROVE  PInv'
<1>1. /\ topic' = topic /\ UNCHANGED spoolVars /\ monboxes' = monboxes
      /\ status' = status /\ pc[p] = "events" /\ run[p].todo = {}
  BY DEF EndEvents, amsVars, hostVars
<1>2. CASE Goto(p, "add", [run[p] EXCEPT !.todo = run[p].monbox_init_events])
  <2> DEFINE new == [run[p] EXCEPT !.todo = run[p].monbox_init_events]
  <2>1. /\ new.todo = run[p].monbox_init_events
        /\ new.monbox_init_events = run[p].monbox_init_events
        /\ new.new_tenant_entries = run[p].new_tenant_entries
        /\ new.all_tenants_inited = run[p].all_tenants_inited
        /\ new.inited_tenants = run[p].inited_tenants
        /\ new.restapi_tokens = run[p].restapi_tokens
    BY RestFields
  <2> HIDE DEF new
  <2>2. Stocked("add", new, spool)
    BY <1>1, <2>1, StockKept DEF EventLabels, TokenLabels
  <2>3. Added("add", new) /\ Shown("add", new, monboxes)
    BY <1>1, <2>1 DEF PInv, Added, Shown, AddedLabels, MiddleLabels
  <2> QED BY <1>1, <1>2, <2>2, <2>3, QuietPInv DEF new
<1> QED BY <1>1, <1>2, NewCyclePInv DEF EndEvents

-------------------------------------------------------------------------------
\* add_new_tenant refuses only a tenant it has already.
LEMMA AddPInv ==
    ASSUME Equipped, PInv, CInv', NEW p \in Procs, AddNewTenant(p)
    PROVE  PInv'
<1> DEFINE tenant == topic[Current(p)].tenant
           new == [run[p] EXCEPT !.new_tenant_entries = @ \cup {tenant}]
           rest == [run[p] EXCEPT !.todo = Rest(p)]
<1>1. /\ topic' = topic /\ UNCHANGED spoolVars /\ monboxes' = monboxes
      /\ status' = status /\ pc[p] = "add"
  BY DEF AddNewTenant, amsVars, hostVars
<1>2. /\ Current(p) \in run[p].todo /\ tenant \in Tenants
      /\ Current(p) \in run[p].monbox_init_events /\ tenant \notin FilteredTenants
  BY <1>1, CurrentEvent DEF AddNewTenant, PInv, CInv, Added
<1>3. CanAdd(p, tenant) \/ tenant \in run[p].new_tenant_entries
  BY <1>1, <1>2 DEF CanAdd, PInv, Stocked, HasToken, EventLabels
<1>4. CASE CanAdd(p, tenant)
  <2>1. Goto(p, "add_claim", new)
    BY <1>4 DEF AddNewTenant
  <2>2. /\ new.todo = run[p].todo
        /\ new.monbox_init_events = run[p].monbox_init_events
        /\ new.new_tenant_entries = run[p].new_tenant_entries \cup {tenant}
        /\ new.all_tenants_inited = run[p].all_tenants_inited
        /\ new.inited_tenants = run[p].inited_tenants
        /\ new.restapi_tokens = run[p].restapi_tokens
    BY Locals DEF PInv, CInv, Cycle
  <2> HIDE DEF new
  <2>3. Stocked("add_claim", new, spool)
    BY <1>1, <2>2, StockKept DEF EventLabels, TokenLabels
  <2>4. Added("add_claim", new)
    <3>1. IsFiniteSet(new.new_tenant_entries)
      <4>1. IsFiniteSet(run[p].new_tenant_entries)
        BY DEF PInv, Added
      <4>2. IsFiniteSet(run[p].new_tenant_entries \cup {tenant})
        BY <4>1, FS_AddElement
      <4> QED BY <2>2, <4>2
    <3> QED BY <1>1, <2>2, <3>1 DEF PInv, Added, Current, AddedLabels, MiddleLabels
  <2>5. Shown("add_claim", new, monboxes)
    BY <1>1, <2>2 DEF PInv, Shown
  <2> QED BY <1>1, <2>1, <2>3, <2>4, <2>5, QuietPInv
<1>5. CASE ~CanAdd(p, tenant)
  <2>1. Goto(p, "add", rest) /\ tenant \in run[p].new_tenant_entries
    BY <1>3, <1>5 DEF AddNewTenant
  <2>2. /\ rest.todo = run[p].todo \ {Current(p)}
        /\ rest.monbox_init_events = run[p].monbox_init_events
        /\ rest.new_tenant_entries = run[p].new_tenant_entries
        /\ rest.all_tenants_inited = run[p].all_tenants_inited
        /\ rest.inited_tenants = run[p].inited_tenants
        /\ rest.restapi_tokens = run[p].restapi_tokens
    BY RestFields DEF Rest
  <2> HIDE DEF rest
  <2>3. Stocked("add", rest, spool)
    BY <1>1, <2>2, StockKept DEF EventLabels, TokenLabels
  <2>4. Added("add", rest) /\ Shown("add", rest, monboxes)
    BY <1>1, <2>1, <2>2 DEF PInv, Added, Shown, AddedLabels, MiddleLabels
  <2> QED BY <1>1, <2>1, <2>3, <2>4, QuietPInv
<1> QED BY <1>4, <1>5

LEMMA ClaimMonboxPInv ==
    ASSUME Equipped, PInv, CInv', NEW p \in Procs, ClaimMonbox(p)
    PROVE  PInv'
<1> DEFINE rest == [run[p] EXCEPT !.todo = Rest(p)]
<1>1. /\ topic' = topic /\ UNCHANGED spoolVars /\ monboxes' = monboxes
      /\ pc[p] = "add_claim" /\ Goto(p, "add", rest)
  BY DEF ClaimMonbox, amsVars, hostVars
<1>2. /\ rest.todo = run[p].todo \ {Current(p)}
      /\ rest.monbox_init_events = run[p].monbox_init_events
      /\ rest.new_tenant_entries = run[p].new_tenant_entries
      /\ rest.all_tenants_inited = run[p].all_tenants_inited
      /\ rest.inited_tenants = run[p].inited_tenants
      /\ rest.restapi_tokens = run[p].restapi_tokens
  BY RestFields DEF Rest
<1>3. CurrentJob(p) \in Jobs
  BY <1>1, Locals, CurrentEvent DEF PInv, CInv, AtEvent
<1>4. StatusShown
  BY <1>1, <1>3, PlaybookShown DEF ClaimMonbox
<1> HIDE DEF rest
<1>5. Stocked("add", rest, spool)
  BY <1>1, <1>2, StockKept DEF EventLabels, TokenLabels
<1>6. Added("add", rest) /\ Shown("add", rest, monboxes)
  BY <1>1, <1>2 DEF PInv, Added, Shown, Current, AddedLabels, MiddleLabels
<1> QED BY <1>1, <1>4, <1>5, <1>6, GotoPInv DEF spoolVars, PInv

\* From the addition to the reports the tenants added stay the same.
LEMMA AddedStay ==
    ASSUME PInv, NEW p \in Procs,
           pc[p] \in MiddleLabels \/ (pc[p] = "add" /\ run[p].todo = {}),
           NEW l \in AddedLabels \cup {"fail"}, NEW r,
           r.monbox_init_events = run[p].monbox_init_events,
           r.new_tenant_entries = run[p].new_tenant_entries
    PROVE  Stocked(l, r, spool) /\ Added(l, r)
<1>1. Stocked(l, r, spool)
  BY DEF Stocked, TokenLabels, EventLabels, AddedLabels, MiddleLabels
<1>2. \A i \in run[p].monbox_init_events : topic[i].tenant \in run[p].new_tenant_entries
  BY DEF PInv, Added, AddedLabels
<1>3. Added(l, r)
  BY <1>2 DEF PInv, Added, AddedLabels, MiddleLabels
<1> QED BY <1>1, <1>3

LEMMA FailPInv ==
    ASSUME Equipped, PInv, CInv', NEW p \in Procs, pc[p] \in {"push_agent", "puppet"},
           Goto(p, "fail", [run[p] EXCEPT !.todo = run[p].monbox_init_events]),
           topic' = topic, UNCHANGED spoolVars, status' = status,
           monboxes \subseteq monboxes'
    PROVE  PInv'
<1> DEFINE new == [run[p] EXCEPT !.todo = run[p].monbox_init_events]
<1>1. /\ new.monbox_init_events = run[p].monbox_init_events
      /\ new.new_tenant_entries = run[p].new_tenant_entries
      /\ new.all_tenants_inited = run[p].all_tenants_inited
      /\ new.inited_tenants = run[p].inited_tenants
  BY RestFields
<1> HIDE DEF new
<1>2. Stocked("fail", new, spool) /\ Added("fail", new)
  BY <1>1, AddedStay DEF MiddleLabels
<1>3. Shown("fail", new, monboxes')
  BY <1>1 DEF PInv, Shown
<1> QED BY <1>2, <1>3, GotoPInv DEF new, StatusShown, spoolVars, PInv

LEMMA CommitPInv ==
    ASSUME Equipped, PInv, CInv', NEW p \in Procs,
           \/ DownloadConfig(p, "backend", "add", "push_backend") \/ CommitBackend(p)
           \/ DownloadConfig(p, "agent", "download_agent", "push_agent") \/ CommitAgent(p)
    PROVE  PInv'
<1>1. /\ topic' = topic /\ UNCHANGED spoolVars /\ monboxes' = monboxes
      /\ status' = status
      /\ pc[p] \in MiddleLabels \/ (pc[p] = "add" /\ run[p].todo = {})
      /\ pc[p] \notin {"check", "report_monbox"}
  BY DEF DownloadConfig, CommitBackend, CommitAgent, amsVars, hostVars, MiddleLabels
<1>2. ASSUME NEW l \in {"push_backend", "download_agent", "push_agent", "puppet"},
             NEW r, Goto(p, l, r),
             r.monbox_init_events = run[p].monbox_init_events,
             r.new_tenant_entries = run[p].new_tenant_entries,
             r.all_tenants_inited = run[p].all_tenants_inited,
             r.inited_tenants = run[p].inited_tenants
      PROVE  PInv'
  <2>1. Stocked(l, r, spool) /\ Added(l, r)
    BY <1>1, <1>2, AddedStay DEF AddedLabels, MiddleLabels
  <2>2. Shown(l, r, monboxes)
    BY <1>1, <1>2 DEF PInv, Shown
  <2> QED BY <1>1, <1>2, <2>1, <2>2, QuietPInv
<1>3. ASSUME NEW repo, NEW at, NEW l \in {"push_backend", "push_agent"},
             DownloadConfig(p, repo, at, l)
      PROVE  PInv'
  <2> DEFINE new == [run[p] EXCEPT !.yaml_data = git[repo]]
  <2>1. /\ new.monbox_init_events = run[p].monbox_init_events
        /\ new.new_tenant_entries = run[p].new_tenant_entries
        /\ new.all_tenants_inited = run[p].all_tenants_inited
        /\ new.inited_tenants = run[p].inited_tenants
    BY Locals DEF PInv, CInv, Cycle
  <2>2. Goto(p, l, new)
    BY <1>3 DEF DownloadConfig
  <2> HIDE DEF new
  <2> QED BY <1>2, <2>1, <2>2
<1>4. CASE CommitBackend(p)
  <2>1. PICK c : Goto(p, "download_agent", [run[p] EXCEPT !.backend_commit_status = c])
    BY <1>4 DEF CommitBackend
  <2> DEFINE new == [run[p] EXCEPT !.backend_commit_status = c]
  <2>2. /\ new.monbox_init_events = run[p].monbox_init_events
        /\ new.new_tenant_entries = run[p].new_tenant_entries
        /\ new.all_tenants_inited = run[p].all_tenants_inited
        /\ new.inited_tenants = run[p].inited_tenants
    BY Locals DEF PInv, CInv, Cycle
  <2> HIDE DEF new
  <2> QED BY <1>2, <2>1, <2>2 DEF new
<1>5. CASE CommitAgent(p)
  <2>1. \/ Goto(p, "puppet", run[p])
        \/ Goto(p, "fail", [run[p] EXCEPT !.todo = run[p].monbox_init_events])
    BY <1>5 DEF CommitAgent
  <2>2. pc[p] = "push_agent"
    BY <1>5 DEF CommitAgent
  <2> QED BY <1>1, <1>2, <2>1, <2>2, FailPInv
<1> QED BY <1>3, <1>4, <1>5

\* On one host, as many lines as entries are one line for each entry.
LEMMA OneLineEach ==
    ASSUME Equipped, NEW entries, IsFiniteSet(entries), NEW lines, NEW boxes,
           lines \subseteq boxes \cap (BackendHosts \X entries),
           Cardinality(lines) = Cardinality(entries), NEW t \in entries
    PROVE  Publishes(t, boxes)
<1> DEFINE f == [x \in lines |-> x[2]]
<1>1. f \in [lines -> entries]
  OBVIOUS
<1>2. ASSUME NEW x \in lines, NEW y \in lines, f[x] = f[y] PROVE x = y
  <2>1. x \in BackendHosts \X entries /\ y \in BackendHosts \X entries
    OBVIOUS
  <2>2. x[1] = y[1] /\ x[2] = y[2]
    BY <1>2, <2>1 DEF Equipped
  <2> QED BY <2>1, <2>2
<1>3. f \in Injection(lines, entries)
  BY <1>1, <1>2 DEF Injection, IsInjective
<1>4. f \in Surjection(lines, entries)
  BY <1>3, FS_Injection
<1>5. PICK x \in lines : f[x] = t
  BY <1>4 DEF Surjection
<1>6. x \in boxes /\ x = <<x[1], t>> /\ x[1] \in BackendHosts
  BY <1>5
<1> QED BY <1>6 DEF Publishes

LEMMA PuppetPInv ==
    ASSUME Equipped, PInv, CInv', NEW p \in Procs, RunPuppet(p) \/ FetchTokenAgain(p)
    PROVE  PInv'
<1>1. /\ topic' = topic /\ UNCHANGED spoolVars /\ status' = status
      /\ monboxes \subseteq monboxes' /\ pc[p] \in MiddleLabels
      /\ restSpool' = Tenants /\ spool' = spool /\ StatusShown
  BY DEF RunPuppet, FetchTokenAgain, amsVars, hostVars, spoolVars, MiddleLabels,
         StatusShown, PInv
<1>2. CASE RunPuppet(p)
  <2>1. CASE Goto(p, "check", run[p])
    <3>1. Stocked("check", run[p], spool) /\ Added("check", run[p])
      BY <1>1, AddedStay DEF AddedLabels, MiddleLabels
    <3>2. Shown("check", run[p], monboxes')
      BY <1>2 DEF RunPuppet, PInv, Shown
    <3> QED BY <1>1, <2>1, <3>1, <3>2, GotoPInv
  <2>2. CASE Goto(p, "fail", [run[p] EXCEPT !.todo = run[p].monbox_init_events])
    BY <1>1, <1>2, <2>2, FailPInv DEF RunPuppet
  <2> QED BY <1>2, <2>1, <2>2 DEF RunPuppet
<1>3. CASE FetchTokenAgain(p)
  <2>1. PICK token : Goto(p, "report_monbox", [run[p] EXCEPT
                              !.token = token, !.todo = run[p].monbox_init_events])
    BY <1>3 DEF FetchTokenAgain
  <2> DEFINE new == [run[p] EXCEPT !.token = token, !.todo = run[p].monbox_init_events]
  <2>2. /\ new.monbox_init_events = run[p].monbox_init_events
        /\ new.new_tenant_entries = run[p].new_tenant_entries
        /\ new.all_tenants_inited = run[p].all_tenants_inited
        /\ new.inited_tenants = run[p].inited_tenants
    BY Locals DEF PInv, CInv, Cycle
  <2> HIDE DEF new
  <2>3. Stocked("report_monbox", new, spool) /\ Added("report_monbox", new)
    BY <1>1, <2>2, AddedStay DEF AddedLabels, MiddleLabels
  <2>4. Shown("report_monbox", new, monboxes')
    BY <1>3, <2>2 DEF FetchTokenAgain, hostVars, PInv, Shown
  <2> QED BY <1>1, <2>1, <2>3, <2>4, GotoPInv DEF new
<1> QED BY <1>2, <1>3

LEMMA CheckPInv ==
    ASSUME Equipped, PInv, CInv', NEW p \in Procs, CheckInit(p)
    PROVE  PInv'
<1> DEFINE entries == run[p].new_tenant_entries
           new(lines) == [run[p] EXCEPT
                             !.checks = @ + 1,
                             !.all_tenants_inited = AllInited(lines, entries),
                             !.inited_tenants = {line[2] : line \in lines}]
<1>1. /\ topic' = topic /\ UNCHANGED spoolVars /\ status' = status
      /\ monboxes' = monboxes /\ pc[p] = "check"
  BY DEF CheckInit, amsVars, hostVars
<1>2. PICK lines \in SUBSET (monboxes \cap (BackendHosts \X entries)) :
         Goto(p, "check", new(lines))
  BY DEF CheckInit
<1>3. /\ new(lines).monbox_init_events = run[p].monbox_init_events
      /\ new(lines).new_tenant_entries = entries
      /\ new(lines).inited_tenants = {line[2] : line \in lines}
  BY Locals DEF PInv, CInv, Cycle
<1>4. new(lines).all_tenants_inited = TRUE => Cardinality(lines) = Cardinality(entries)
  BY Locals DEF PInv, CInv, Cycle, AllInited
<1>5. IsFiniteSet(entries)
  BY DEF PInv, Added
<1>6. \A t \in new(lines).inited_tenants : Publishes(t, monboxes)
  <2> SUFFICES ASSUME NEW line \in lines PROVE Publishes(line[2], monboxes)
    BY <1>3
  <2>1. /\ line \in monboxes /\ line \in BackendHosts \X entries
        /\ line = <<line[1], line[2]>>
    OBVIOUS
  <2> QED BY <2>1 DEF Publishes
<1>7. new(lines).all_tenants_inited = TRUE => \A t \in entries : Publishes(t, monboxes)
  BY <1>4, <1>5, OneLineEach
<1> HIDE DEF new
<1>8. Stocked("check", new(lines), spool) /\ Added("check", new(lines))
  BY <1>1, <1>3, AddedStay DEF AddedLabels, MiddleLabels
<1>9. Shown("check", new(lines), monboxes)
  BY <1>3, <1>6, <1>7 DEF Shown
<1> QED BY <1>1, <1>2, <1>8, <1>9, QuietPInv

LEMMA ReportPInv ==
    ASSUME Equipped, PInv, CInv', NEW p \in Procs, ReportMonbox(p) \/ ReportFailure(p)
    PROVE  PInv'
<1> DEFINE rest == [run[p] EXCEPT !.todo = Rest(p)]
           tenant == topic[Current(p)].tenant
<1>1. /\ topic' = topic /\ UNCHANGED spoolVars /\ monboxes' = monboxes
      /\ pc[p] \in {"report_monbox", "fail"} /\ Goto(p, pc[p], rest)
      /\ spool' = spool /\ restSpool' = Tenants
  BY DEF ReportMonbox, ReportFailure, amsVars, hostVars, spoolVars, PInv
<1>2. /\ Current(p) \in run[p].todo /\ CurrentJob(p) \in Jobs
      /\ CurrentJob(p)[1] = tenant
  BY CurrentEvent DEF ReportMonbox, ReportFailure, PInv, CInv, CurrentJob, Job
<1>3. /\ rest.monbox_init_events = run[p].monbox_init_events
      /\ rest.new_tenant_entries = run[p].new_tenant_entries
      /\ rest.all_tenants_inited = run[p].all_tenants_inited
      /\ rest.inited_tenants = run[p].inited_tenants
  BY RestFields
<1> HIDE DEF rest
<1>4. Stocked(pc[p], rest, spool)
  BY <1>1 DEF Stocked, TokenLabels, EventLabels
<1>5. Added(pc[p], rest) /\ Shown(pc[p], rest, monboxes)
  BY <1>1, <1>3 DEF PInv, Added, Shown, AddedLabels, MiddleLabels
<1>6. StatusShown
  <2>1. CASE ReportMonbox(p)
    <3>1. tenant \in run[p].new_tenant_entries
      BY <1>2, <2>1 DEF ReportMonbox, PInv, CInv, Queued, Added, AddedLabels
    <3>2. run[p].all_tenants_inited \in BOOLEAN
      BY Locals DEF PInv, CInv, Cycle
    <3>3. InitOutcome(p, tenant) = "COMPLETED" => Publishes(tenant, monboxes)
      <4>1. run[p].all_tenants_inited = TRUE => Publishes(tenant, monboxes)
        BY <3>1 DEF PInv, Shown
      <4>2. tenant \in run[p].inited_tenants => Publishes(tenant, monboxes)
        BY DEF PInv, Shown
      <4> QED BY <3>2, <4>1, <4>2 DEF InitOutcome
    <3>4. PatchStatus(p, CurrentJob(p), InitOutcome(p, tenant))
      BY <2>1 DEF ReportMonbox
    <3> HIDE DEF tenant
    <3> QED BY <1>1, <1>2, <3>3, <3>4 DEF PatchStatus, StatusShown
  <2>2. CASE ReportFailure(p)
    BY <1>1, <1>2, <2>2 DEF ReportFailure, PatchStatus, StatusShown
  <2> QED BY <2>1, <2>2
<1> QED BY <1>1, <1>4, <1>5, <1>6, GotoPInv

-------------------------------------------------------------------------------
\* Steps that leave every process where it is.
LEMMA SteadyPInv ==
    ASSUME PInv, CInv', "COMPLETED" \notin OperatorStatuses,
           \/ \E p \in Procs : Signal(p) \/ TokenExpires(p)
           \/ \E j \in Jobs, s \in Statuses : UpdateStatus(j, s)
    PROVE  PInv'
<1>1. topic' = topic /\ pc' = pc /\ UNCHANGED spoolVars /\ monboxes' = monboxes
  BY DEF Signal, TokenExpires, UpdateStatus, amsVars, hostVars
<1>2. \A q \in Procs : /\ run'[q].todo = run[q].todo
                       /\ run'[q].monbox_init_events = run[q].monbox_init_events
                       /\ run'[q].tokens = run[q].tokens
                       /\ run'[q].any_refresh = run[q].any_refresh
                       /\ run'[q].restapi_tokens = run[q].restapi_tokens
                       /\ run'[q].new_tenant_entries = run[q].new_tenant_entries
                       /\ run'[q].all_tenants_inited = run[q].all_tenants_inited
                       /\ run'[q].inited_tenants = run[q].inited_tenants
  <2>1. CASE run' = run
    BY <2>1
  <2>2. CASE \E p \in Procs : TokenExpires(p)
    <3>1. PICK p \in Procs : run' = [run EXCEPT ![p] = [run[p] EXCEPT !.token = FALSE]]
      BY <2>2 DEF TokenExpires
    <3> QED BY <3>1, Locals DEF PInv, CInv, Inv, TypeOK, Cycle
  <2> QED BY <2>1, <2>2 DEF Signal, UpdateStatus
<1>3. StatusShown
  BY <1>1 DEF Signal, TokenExpires, UpdateStatus, StatusShown
<1>4. CompletedMeansPublishing'
  BY <1>3, PublishingStep
<1>5. ASSUME NEW q \in Procs
      PROVE  (/\ Stocked(pc[q], run[q], spool) /\ Added(pc[q], run[q])
              /\ Shown(pc[q], run[q], monboxes))'
  <2>1. Stocked(pc[q], run[q], spool)'
    BY <1>1, <1>2 DEF PInv, Stocked, HasToken, spoolVars
  <2>2. Added(pc[q], run[q])'
    BY <1>1, <1>2 DEF PInv, Added
  <2>3. Shown(pc[q], run[q], monboxes)'
    BY <1>1, <1>2 DEF PInv, Shown, Publishes
  <2> QED BY <2>1, <2>2, <2>3
<1> QED BY <1>1, <1>4, <1>5 DEF PInv, spoolVars

LEMMA PublishPInv ==
    ASSUME PInv, CInv', NEW m \in Messages, Publish(m)
    PROVE  PInv'
<1>1. pc' = pc /\ run' = run /\ UNCHANGED spoolVars /\ monboxes' = monboxes
  BY DEF Publish, hostVars
<1>2. \A i \in 1..Len(topic) : topic'[i] = topic[i]
  BY DEF Publish, PInv, CInv, Inv, TypeOK
<1>3. StatusShown
  <2>1. <<m.tenant, m.name>> \in Jobs
    BY ConfigAssumption DEF Message, Jobs
  <2>2. \/ status' = status
        \/ status' = [status EXCEPT ![<<m.tenant, m.name>>] = "INITIALISED"]
    BY DEF Publish
  <2> QED BY <1>1, <2>1, <2>2 DEF StatusShown
<1>4. CompletedMeansPublishing'
  BY <1>3, PublishingStep
<1>5. ASSUME NEW q \in Procs
      PROVE  (/\ Stocked(pc[q], run[q], spool) /\ Added(pc[q], run[q])
              /\ Shown(pc[q], run[q], monboxes))'
  <2>1. /\ run[q].todo \in SUBSET Nat /\ run[q].todo \subseteq 1..Len(topic)
        /\ run[q].monbox_init_events \subseteq 1..Len(topic)
    BY Locals DEF PInv, CInv, Cycle
  <2>2. pc[q] \in AtEvent => Min(run[q].todo) \in 1..Len(topic)
    BY <2>1, Locals, MinIsMember DEF PInv, CInv
  <2>3. Stocked(pc[q], run[q], spool)'
    <3>1. Stocked(pc[q], run[q], spool)
      BY DEF PInv
    <3> QED BY <1>1, <1>2, <2>1, <3>1 DEF Stocked, HasToken, spoolVars
  <2>4. Added(pc[q], run[q])'
    BY <1>1, <1>2, <2>1, <2>2 DEF PInv, Added, AtEvent
  <2>5. Shown(pc[q], run[q], monboxes)'
    BY <1>1 DEF PInv, Shown, Publishes
  <2> QED BY <2>3, <2>4, <2>5
<1> QED BY <1>1, <1>4, <1>5 DEF PInv, spoolVars

-------------------------------------------------------------------------------
LEMMA InitPInv == ASSUME Equipped, Init PROVE PInv
<1>1. CompletedMeansPublishing
  BY DEF Init, CompletedMeansPublishing, Jobs, EventNames
<1>2. restSpool = Tenants
  BY DEF Init, Equipped
<1>3. /\ NewCycle.monbox_init_events = {} /\ NewCycle.new_tenant_entries = {}
      /\ NewCycle.all_tenants_inited = FALSE /\ NewCycle.inited_tenants = {}
  BY DEF NewCycle
<1>4. ASSUME NEW p \in Procs
      PROVE  /\ Stocked(pc[p], run[p], spool) /\ Added(pc[p], run[p])
             /\ Shown(pc[p], run[p], monboxes)
  <2>1. pc[p] \in {"idle", "exited"} /\ run[p] = NewCycle
    BY DEF Init
  <2>2. Stocked(pc[p], run[p], spool)
    BY <2>1 DEF Stocked, TokenLabels, EventLabels
  <2>3. Added(pc[p], run[p])
    BY <1>3, <2>1, FS_EmptySet DEF Added, AddedLabels, MiddleLabels
  <2>4. Shown(pc[p], run[p], monboxes)
    BY <1>3, <2>1 DEF Shown
  <2> QED BY <2>2, <2>3, <2>4
<1> QED BY <1>1, <1>2, <1>4, InitCInv DEF PInv

LEMMA NextPInv ==
    ASSUME Equipped, "COMPLETED" \notin OperatorStatuses, PInv, [Next]_vars
    PROVE  PInv'
<1>1. CInv'
  BY NextCInv DEF PInv
<1>2. ASSUME NEW p \in Procs, ProcessStep(p) PROVE PInv'
  BY <1>1, <1>2, BeginPInv, FetchPInv, SteadyPInv, RefreshPInv, SavePInv,
     StatusReadPInv, PlaybookPInv, EndEventsPInv, AddPInv, ClaimMonboxPInv,
     CommitPInv, PuppetPInv, CheckPInv, ReportPInv
     DEF ProcessStep, PlaybookStep, MonboxStep
<1>3. ASSUME NEW p \in Procs, Signal(p) \/ Raise(p) \/ Crash(p) \/ Start(p)
      PROVE  PInv'
  BY <1>1, <1>3, BeginPInv, SteadyPInv
<1>4. CASE UNCHANGED vars
  <2>1. CompletedMeansPublishing' /\ restSpool' = Tenants
    BY <1>4 DEF vars, PInv, CompletedMeansPublishing
  <2>2. ASSUME NEW p \in Procs
        PROVE  /\ Stocked(pc[p], run[p], spool)' /\ Added(pc[p], run[p])'
               /\ Shown(pc[p], run[p], monboxes)'
    <3>1. /\ Stocked(pc[p], run[p], spool) /\ Added(pc[p], run[p])
          /\ Shown(pc[p], run[p], monboxes)
      BY DEF PInv
    <3>2. UNCHANGED <<pc, run, spool, topic, monboxes>>
      BY <1>4 DEF vars
    <3>3. Stocked(pc[p], run[p], spool)'
      BY <3>1, <3>2 DEF Stocked, HasToken
    <3>4. Added(pc[p], run[p])'
      BY <3>1, <3>2 DEF Added
    <3>5. Shown(pc[p], run[p], monboxes)'
      BY <3>1, <3>2 DEF Shown, Publishes
    <3> QED BY <3>3, <3>4, <3>5
  <2> QED BY <1>1, <2>1, <2>2 DEF PInv
<1> QED BY <1>1, <1>2, <1>3, <1>4, SteadyPInv, PublishPInv DEF Next

\* A single process with one backend host reports a monitoring box COMPLETED only when
\* a box publishes for the tenant, whatever fails but the refresh of tokens, provided
\* the REST-API token spool knows every tenant, the components that add_new_tenant looks
\* for are configured, and no operator completes a job by hand.
THEOREM CompletedIsPublishing ==
    ASSUME Equipped, "COMPLETED" \notin OperatorStatuses
    PROVE  Spec => []CompletedMeansPublishing
<1>1. PInv => CompletedMeansPublishing
  BY DEF PInv
<1>2. Init => PInv
  BY InitPInv
<1>3. PInv /\ [Next]_vars => PInv'
  BY NextPInv
<1> QED BY <1>1, <1>2, <1>3, PTL DEF Spec
===============================================================================

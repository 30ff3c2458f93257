# Verification of argo-automation-cpas

TLA+ models of the argo-automation-cpas service, checked with TLC on small
instances and, where stated, proved with TLAPS for every value of the constants.
Paths are relative to the repository root under `src/`.

## The system

`argo-cpasd` (`cli/argo_cpasd.py`) runs one *cycle* of the pipeline
(`modules/app.py`, `Application.run`) again and again; `argo-cpas` runs it once, or
runs a single subsystem with an `--only-*` flag. A cycle pulls events from an AMS
subscription, refreshes tokens, and for every event reads a job's status from the
Status API, claims the job, drives an Ansible playbook and reports the outcome.
Events for monitoring boxes are queued during the event loop and processed together
afterwards. Both programs may run at the same time on one installation.

| Component | State it keeps | Operations | Talks to |
|---|---|---|---|
| Pipeline, `modules/app.py` | locals of a cycle: events left, queued monitoring-box events, tokens | `run`, `_process_monbox_init_events` | all below |
| Daemon loop, `cli/argo_cpasd.py` | stop event | start a cycle, log an exception, sleep, stop on SIGTERM/SIGINT | pipeline |
| CLI, `cli/argo_cpas.py` | none | full run, `--only-*` modes | pipeline |
| AMS consumer, `modules/ams.py` | subscription offset (remote) | `AMS()`, `pull_messages`, `move_offset`, `pull_and_print` | AMS |
| Status API client, `modules/statusapi.py` | job statuses (remote) | `get_job_status`, `update_job_status` | Status API |
| IAM client, `modules/iam.py` | cached access token (file) | `fetch_token` | IAM |
| Component tokens, `modules/tokens.py` | two spool files | `load_tokens`, `refresh_tokens`, `save_tokens` | Web API, AMS |
| REST-API tokens, `modules/tokens.py` | one spool file | `ensure_tokens` | POEM runs |
| Ansible wrapper, `modules/ansible.py` | tenant defaults of the object | `run`, extra variables per playbook | ansible-runner, hosts |
| MonboxGit, `modules/monboxgit.py` | queue of new tenants; two git branches (remote) | `add_new_tenant`, `commit_new_tenants`, `remove_tenant`, puppet run, init check | git, hosts |
| Web API, `modules/webapi.py` | none | `fetch_topology_config` | Web API |
| HTTP session, `modules/http.py` | none | request with retries | network |
| Roles, `ansible/` | the configured hosts | add and remove tenants | hosts |
| Artifacts, configuration, logging | files | read, print, clean | operator |

### What is hard, and what makes a component correct

* **Status and reality.** The Status API, the git branches and the hosts are updated
  by separate remote calls, each of which may fail. A job that is `COMPLETED` must
  have been done; a job that is done or given up must not stay `IN_PROGRESS`.
* **No transactions.** The status is read and the claim written in two calls; a
  configuration is downloaded in one clone and pushed on another; the spool files are
  read and overwritten. Two processes may come in between any of these.
* **Delivery.** Without `ack` (the default) every event is delivered in every cycle;
  with `ack` an event is gone once it is pulled, whatever happens to its cycle.
* **Failure.** Three kinds of failure take three ways. A `ClientError` is caught by
  the client that made the call, and the pipeline goes on as if it had worked (or
  with `None`). Any other exception, `asyncio.TimeoutError` among them, ends the
  cycle. `SystemExit` ends the daemon.
* **Batches.** One IAM token, one snapshot of the REST-API tokens and one object per
  client serve all events of a cycle, so an event depends on those before it.
* **Waiting.** Monitoring boxes take minutes to come up; the number of checks is
  bounded, and a stop signal waits for the end of the cycle.

`PROJECT.json` lists every hazard at its line, with the properties that cover it or
the reason why none does.

## The modules

The pipeline as a whole is `Application`. Around it stand modules that take one
component apart, down to the calls and file accesses that `Application` keeps as one
step or as an outcome, and run it with all of its callers.

| Module | Models |
|---|---|
| `CpasState` | constants, variables, the locals of a cycle, faults, and the two remote calls that every component makes (`GetStatus`, `PatchStatus`) |
| `PlaybookEvents` | a cycle from the pull to the end of the event loop |
| `MonboxEvents` | `_process_monbox_init_events` |
| `Application` | processes, portal, operator, faults; the properties |
| `JobLifecycle` | abstract specification: what may happen to a job of the Status API |
| `MonboxGit` | the two configuration branches under additions and deletions by several processes |
| `TenantRegistry` | abstract specification: the set of fully configured tenants |
| `InitCheck` | the output of `ams-publisherd -q` on several hosts and its reading |
| `TokenSpool` | the token files under several processes, with the services that issue the tokens and the hosts that hold them |
| `StatusDelivery` | the PATCHes of one job, request by request, under the retry loop of `modules/http.py` |
| `PatchCall` | abstract specification: what `update_job_status` promises about the status |
| `Extravars` | the Ansible object over a batch, whose tokens and topology an entry holds, the operator's options, and what the roles leave on the hosts |
| `Subscription` | the AMS subscription under the pipeline, `--only-ams`, `--offset` and `--only-webapi` |
| `MCApplication`, `MCMonboxGit`, `MCTokenSpool`, `MCExtravars`, `MCSubscription` | instances for TLC; `InitCheck` and `StatusDelivery` need none |
| `ApplicationProofs` | `TypeCorrect`, `NoOrphanWithoutFault`, `AckedInHand` |
| `StatusProofs` | `CompletedIsConfigured`, `CompletedIsPublishing`, `WorksOnOpenJobsOnly`, `OrphansStayOrphaned`, `PushedBeforePuppetRuns`, `LifecycleFollowed` |
| `MonboxGitProofs` | `BranchTypes`, `SuccessInBoth`, `BranchesLevel`, `HalfRemovedForGood`, `BranchesImplementRegistry` |
| `InitCheckProofs` | `CheckTypesCorrect`, `ReadingAsModelled`, `ExactOnOneHost`, `MiscountsAreDoubles` |
| `StatusDeliveryProofs` | `DeliveryTypes`, `RetriesMask`, `AnswersHold`, `NoWayBack`, `RetriesImplementPatchCall` |
| `TokenSpoolProofs` | `SpoolTypeCorrect`, `SavedAccepted`, `DeployedAccepted`, `StaleKept` |
| `ExtravarsProofs` | `ExtravarsTypes`, `ForeignTopologyExplained`, `OwnTopologyWins`, `CompletedIsServed` |
| `SubscriptionProofs` | `SubscriptionTypes`, `EventsAccounted`, `NoAckNoProgress`, `OffsetSkipsAtMostAsked` |

How they hang together: what a module abstracts is what another one opens.

* `MonboxEvents` pushes a branch in one step, and a push that the remote rejects is one of
  the failures `PushConfig` may choose; `MonboxGit` clones, fetches, pushes and is rejected.
* `MonboxEvents.CheckInit` lets a check find any set of lines that publishing hosts could
  have printed; `InitCheck.FindsAsModelled` checks that the reading of the text stays
  within it, and says when it does not.
* `PlaybookEvents` keeps the spools as sets of tokens and gives a playbook run an
  outcome; `TokenSpool` and `Extravars` say which tokens and which topology it deploys.
* `CpasState.PatchStatus` is applied or lost; `StatusDelivery` sends it up to `retries`
  times and lets attempts be applied late.
* `PlaybookEvents.Pull` has the subscription to itself; `Subscription` adds everybody who
  pulls from it or moves it.

### Application: state

Shared between processes: `topic` and `offset` (AMS), `status` (Status API), `spool`
and `restSpool` (token files, as the sets of tokens in them), `git` (the tenants in
the configuration file of each branch), `configured` and `monboxes` (the hosts: jobs
whose tenant a playbook has configured, and which monitoring boxes publish for which
tenant). For each process `pc` is its place in the code, `run` the locals of its
cycle, `stop` its stop event. A job is a tenant and an event name, as in the Status
API. A list of events is a set of positions in the topic, worked off in their order.

### Application: steps

A step is what happens between two points where another process can come in: a
remote call, or an access to a shared file. The labels of `pc` name these points:
`idle`, `iam`, `refresh_webapi`, `save_webapi`, `refresh_ams`, `save_ams`, then for
each event `events` (status read), `recheck` (the second read, monitoring boxes),
`claim`, `playbook`, `report`; for the monitoring boxes `add`, `add_claim`,
`push_backend`, `download_agent`, `push_agent`, `puppet`, `check`, `report_monbox` or
`fail`. `exited` is a process that is not running. Each action names the function it
models; `PROJECT.json` "map" gives the lines.

### Application: faults

Each kind of fault is drawn from one budget `MaxFaults`, so "no fault has happened" is
a state predicate:

| Kind | In the code |
|---|---|
| `lost` | a Status API call ends in a `ClientError`; an update is not applied |
| `exception` | any exception other than `ClientError` escapes `run()`, between any two steps |
| `crash` | the process is killed, between any two steps |
| `iam` | `fetch_token` returns `None`; services refuse the cycle's calls |
| `expiry` | the token stops being accepted during a cycle (`load_cached_token` guarantees 30 seconds) |
| `refresh` | some of the component tokens cannot be refreshed |
| `git` | a push fails, or an exception follows a push that went through |
| `ams`, `pull` | the subscription cannot be confirmed (`SystemExit`), or a pull fails |

A playbook run that fails, a puppet run with failed hosts and a monitoring box that is
not up in time are not faults but ordinary outcomes, chosen in the actions. A run that
fails may have done its work or not.

### MonboxGit

`git` is, for each branch, a revision number and the tenants in its file. A process is
given a request, to add a set of tenants (`commit_new_tenants`, from a cycle or from
`--only-monbox-git`) or to delete one (`remove_tenant`), and takes each branch through
`download` (the shallow clone that the file is read from), `fetch` (the second clone, in
`_commit_file_to_git_repo`) and `push`. The remote refuses a push from an old revision;
what was pushed between `download` and `fetch` is overwritten. Adding goes on with the
agent branch whatever became of the backend branch; deleting raises, and gives up on a
branch without the tenant. Faults: a clone fails (`CalledProcessError` leaves the
operation), a push fails or an exception follows it, a process is killed.

`overlapped`, `clobbers` and `stranded` are history: whether two requests were ever in
progress at once, the pushes that overwrote something unread, and the tenants that were
left in the agent branch alone when everybody was idle.

### InitCheck

A host prints one line per worker about what it published and one about what it
consumed. The order of the workers is any; `layout` says which kind comes first, whether
the kinds alternate, and whether a heading precedes. `EndCommand` is `"consumed"` for
every first line, since `line.find("published")` is true (-1) when the word is missing;
`Read` stops at the first later line with that word; `Counted` are the lines of tenants
that are being added; `AllInited` compares two counts. Publishers come up one by one
between the checks, and any of the hosts may fail to answer one.

### TokenSpool

A token is the number of its issue, so that `server[k]`, the last one issued, is the only
one its service accepts. A session loads the file, obtains what is `Lacking`, truncates
the file, writes it, deploys to the hosts and then to the monitoring boxes; `mode` tells a
cycle from `--only-webapi`/`--only-ams` (`refresh_only`) and `--only-ansible`. REST-API
tokens are generated here and are accepted wherever the last one is. `add_new_tenant`
reads component tokens from the file again and REST-API tokens from the snapshot of the
start of the cycle. Faults: the file cannot be read, an attempt is lost before the one
that is answered, or served after it, an answer has no `api_key`, a request ends in a
`ClientError` or in another exception, a process is killed.

`disturbed` is the set of files on which sessions overlapped, a save was cut short, a
load failed or a request was served late; `condemned` are the keys whose saved token was
not accepted when everybody was at rest.

### StatusDelivery

`body` is what the call in progress sends, `attempt` the attempts it has lost, `inflight`
the attempts that timed out and may still be applied. An error response
(`raise_for_status`) is not retried; a lost connection and a timeout are, and any of the
three may have been applied. When all attempts failed, `ClientError` is logged and the
pipeline goes on as if the call had worked; `TimeoutError` ends the cycle.
`UnreadableAnswer`, the fourth kind of fault, is an update that was applied but whose answer
`response.json()` cannot decode: that exception is no `ClientError` either, and ends the
cycle. `Late` applies an attempt that its client has given up on, or drops it.

### Extravars

`connector_tenant_defaults` is the dictionary of the Ansible object: by key of the
topology, where its value comes from (a tenant's feed, the role defaults, nowhere). A
cycle keeps the object over its events; `--only-ansible` has one of its own. `TokenOwners`
is the token whose topology is fetched, with the fallback to any other tenant's;
`Merged` takes over the overrides; `Entries` are the tenants a run sets up, `Refused` the
runs that do not start. `SetUpConnectors`, `SetUpPoem` and `SetUpArchiver` are the roles:
all of the work, or some of it when the run fails, in the order of the tasks. `cause` and
`excused` are history, for the properties.

### Subscription

`offset` is how many messages are behind the subscription, `min` how many AMS has
dropped. A daemon pulls and handles over and over; `Command` starts `argo-cpas` as a
pipeline run, as `--only-ams` (`--offset` first, as the two calls of `move_offset`, then
`pull_and_print`, then a pull for the tenants whose tokens to refresh unless they are
known), or as `--only-webapi`. Faults: `AMS()` cannot confirm the subscription (`GivesUp`:
`SystemExit` ends the command, or the daemon, until an operator takes the step `Restart`), a
pull fails, only its acknowledgement is answered, a cycle ends early, AMS drops its oldest
message. `acker[i]` is who moved the offset over message `i` last.

`pullack_sub` pulls and acknowledges in two requests, which are one step here: what AMS
answers to an acknowledgement after somebody else has moved the offset is not in this
repository. The request whose answer is lost is a fault of its own (`"ack"`).

## Properties

### Application

* `CompletedMeansConfigured`: a connector or POEM job is `COMPLETED` only if its
  playbook has configured the tenant.
* `CompletedMeansPublishing`: a monitoring-box job is `COMPLETED` only if some backend
  host publishes for the tenant. It holds when the tenants of the queued events can be
  added; without that it fails, see the findings.
* `OrphanedOnlyByFault`: as long as nothing has failed, whoever left a job
  `IN_PROGRESS` is still going to report on it.
* `PushedBeforePuppet`: puppet runs only when the tenants of the cycle are in both
  branches.
* `WorksOnOpenJobs`: a single daemon never works on a job that is finished.
* `OrphansStay`: a job that a crash, a lost update or an exception has left `IN_PROGRESS`
  in nobody's hands is not taken up by any later step, however often the daemon restarts
  and the event is delivered, until an operator sets its status.
* `AckedNotLost`: an acknowledged event whose job is still `INITIALISED` is in some
  process's hands, unless something failed or a malformed payload was published.
* `FollowsLifecycle`: `Application` implements `JobLifecycle`. Its one surprise is that
  a job may go from `INITIALISED` straight to a final status: the update that claims
  it may be lost, or an operator may have initialised it again.
* `JobsSettle`, `StopHonoured`: liveness, below.
* `TypeOK`: the types.

`FollowsLifecycle`, `WorksOnOpenJobs`, `OrphansStay` and `PushedBeforePuppet` are stated of a
single process. Two processes do break them (both see `INITIALISED`; one overwrites the
branch the other has pushed); no document promises that they may run together, so
this is recorded as hazards and not as findings.

### The components

* `MonboxGit`. `SuccessIsReal`: an operation that reports success has done its work in
  both branches. `BranchesAgree`: with nobody at work the branches name the same tenants.
  Both hold unless requests overlapped, the second also needs that nothing failed.
  `HalfRemovedStays`: a tenant whose deletion failed between the branches stays in the
  agent branch however often it is deleted again; only adding it again helps.
  `ImplementsRegistry`: the tenants that are in both branches form a `TenantRegistry`:
  they come in and go only as somebody has just asked, save for overwriting pushes, each
  of which counts.
* `InitCheck`. `FindsAsModelled`: what a check counts is a set of (host, tenant) pairs that
  published, so `MonboxEvents.CheckInit` is right, unless daemons print what they
  consumed first. `OneHostIsExact`: with one host the outcome is right in both
  directions. `MiscountNeedsDouble`: a tenant nobody publishes for is `COMPLETED` only when
  another one is counted twice, by two hosts or on the two lines of a host's only worker.
* `TokenSpool`. `SavedIsAccepted` and `DeployedIsAccepted`: saved and deployed tokens are
  those the service accepts, on files that were not `disturbed`; a refresh never
  invalidates what a host has been given. `StaleIsKept`: a token that is not accepted is
  replaced by no later session, since any token that is there counts as good.
* `StatusDelivery`. `FinalIsFinal`: only a timeout brings a finished job back to
  `IN_PROGRESS`. `RetriesMaskErrors`: fewer lost connections than `retries` lose no update,
  as long as no other kind of fault happens.
  `AcknowledgedStays`: what was answered is in place unless an attempt timed out.
  `ImplementsPatchCall`: the status changes to what the call asks for, within the call,
  or by a straggler that the call left behind.
* `Extravars`. `ReportedIsServed`: a `COMPLETED` job is carried out on the hosts, with its own
  tenant's tokens, and stays so until a run is asked for other tenants than those of its
  event, names a tenant with the same POEM schema, or finds the archiver's token missing.
  `ForeignTopologyHasCause`: a connector has a topology value of another tenant only when
  another connector event came before in its cycle, it had no token of its own, or
  several tenants were configured at once. `OwnFeedWins`: keys that the tenant's own
  feed gives are never among them once it was fetched.
* `Subscription`. `NothingSkipped`: an event behind the offset was handled or is in the hands
  of a cycle, unless the operator moved the offset, AMS dropped it or its pull or cycle
  failed. `SkipsAtMostAsked`: `--offset` moves no further than asked, whoever moves the
  subscription between its two calls. `StuckWithoutAck`: without `ack` only the first
  `pullmsgs` messages are ever handled. `EventuallyHandled`: with it every event is reached,
  unless every daemon goes down.

`OrphansStay`, `HalfRemovedStays`, `StaleIsKept` and `StuckWithoutAck` state what the code does and an
operator has to know, not what one would wish it did.

## Runs

| Run | Instance | Shows |
|---|---|---|
| `single_daemon` | one daemon, no ack, two tenants, four kinds of events, two messages, two faults of six kinds, operator starts, stops, re-initialises | the statuses tell the truth and follow the life cycle |
| `two_processes` | daemon and `argo-cpas`, ack, events published twice, a malformed payload, one fault of five kinds | what holds however two processes interleave |
| `live_daemon` | one daemon, one tenant filtered out, a misnamed playbook, messages that the filter drops, one fault of seven kinds, stop signals | liveness |
| `monbox_branches` | two processes, three requests among add `t1`, add both, delete `t1`, delete `t2`; `t2` configured; two faults of three kinds | what becomes of the branches; refinement of `TenantRegistry` |
| `token_spools` | two processes, three sessions of five kinds on two files, two tenants, one fault of seven kinds | which tokens are accepted |
| `init_check` | one or two hosts, three tenants, two checks, four layouts, every order of workers | the reading of the output |
| `status_delivery` | three attempts per call, four faults of four kinds, two resets | the retry loop; refinement of `PatchCall` |
| `extravars` | two runs over three tenants (two share a POEM schema, one has a manual token only), full, partial and empty token files, four options, batches of up to three events | what hosts are given |
| `subscription_modes` | one daemon, two commands, three messages of three kinds, `pullmsgs` 2, `--offset` -2 and 1, with and without `ack`, tenants configured, one fault of five kinds | who moves the subscription; liveness |
| `archiver_without_token` | one refresh fails | finding 1 |
| `monbox_not_added` | no REST-API token, no fault | finding 2 |
| `only_ams_acks` | `ack`, no `automation.tenants`, one command, no fault | finding 3 |

**Bounds of the Application runs.** `MaxPublished` = 2 messages, which is what an order
or an overlap of two events needs; the same message may be published twice, so one job
can be delivered by two positions and, without ack, by any number of cycles. `PullMsgs`
= 2 puts both in one batch or in two. `InitCheckCount` = 1 covers a check that succeeds,
one that names some tenants only, and one that names none; more checks repeat the same
step with the same outcomes. One backend host; two hosts are where the counting of the
check goes wrong, which `init_check` takes up. `MaxFaults` = 2 lets a fault hit the
handling of another one. Nothing else bounds the runs: the number of cycles is
unbounded. `restSpool` starts with the tokens of both tenants except in
`monbox_not_added`, so that monitoring boxes can be added without a POEM event before
them.

**Bounds of the component runs.** `MaxOperations` = 3: two requests that overlap, and a
third that meets what they left; a half-removed tenant needs one to remove it, one to
retry and one to add it again. `MaxFaults` = 2 lets the retry fail too. `MaxSessions` = 3:
two sessions that overlap, and one that lives with the result; one fault is enough to
part a file from its service, and the overlap needs none. In `init_check` three tenants
leave room for one that is up, one that is not and one that was there before, and two
hosts for every way to count twice; the check is a function of the hosts' output, so
nothing changes with more of them but the number of lines. `Retries` = 3 has a first, a
middle and a last attempt, and four faults exhaust one call and hit the next.
`MaxRuns` = 2 makes a second cycle or command meet what the first left on the hosts; the
batches have two connector events in either order of their feeds. `MaxPublished` = 3 is
one more than `pullmsgs`, which is what a head of the line and a second pull need.

**Deadlock** is checked in the passing safety runs of `Application`, where `Start` or a
new cycle is always possible. `live_daemon` does not check it: a stopped daemon without
an operator who starts it again has nothing left to do. The component runs do not
either: they end when their bound on requests, sessions, runs, resets or commands is
spent, or, in `init_check`, with the report; in `only_ams_acks` TLC is to find the
violation. Nothing in these modules waits for another process.

**Fairness.** `FairSpec` assumes weak fairness of `ProcessStep(p)`, the process's own
steps. It is what the event loop and finite timeouts justify: nothing in a cycle waits
on another process, requests are bounded by `timeout` and `retries`, the number of
checks by `init_check_count`, and `wait_for` returns after the poll interval.
ansible-runner and git have no timeout in the code; that they end is an assumption.
Fairness of a whole process is enough, since a process is always at one label. Faults,
signals, crashes, the operator and the portal are not fair; faults are finite.

* `JobsSettle`: a job of an event in reach of the daemon that is `INITIALISED` ends
  `COMPLETED` or `FAILED`, unless it is orphaned or the daemon goes down. "In reach"
  needs the window: without ack the subscription never advances, so `PullMsgs` is as
  large as `MaxPublished`.
* `StopHonoured`: a stop signal ends the daemon.

`Subscription.FairSpec` likewise assumes that a process that runs is scheduled and its
calls come back (`WF_vars(Step(p))` for each process). Nobody has to start a command,
nothing has to be published, no fault has to happen.

* `EventuallyHandled`: with `ack` and configured tenants every published event is handled,
  dropped by a fault, skipped by the operator's `--offset`, or dropped by AMS, unless an
  outage of AMS ends every daemon. `Restart` is not fair: nobody has to start one again.

## Findings

1. `archiver_without_token`: an archiver job whose tenant has no token is reported
   `COMPLETED` with the message that it was configured. Connector and POEM runs refuse
   a run without tenants; archiver runs do not.
2. `monbox_not_added`: a tenant that `add_new_tenant` refuses is not skipped but
   reported with the others, and the outcome counts only the tenants that were added:
   with none added the job is `COMPLETED` after 0 == 0.
3. `only_ams_acks`: `README.md:222` says that `--only-ams` always pulls without ack. It
   prints without ack, but when neither `automation.tenants` nor `--add-tenants` is given
   it pulls once more (`modules/app.py:370`), with `ack` if that is set, to learn for which
   tenants to refresh tokens. The event leaves the subscription unhandled.

Noticed on the way, without a run, as no property of the models tells them apart:

* The help of `--only-ansible` (`cli/argo_cpas.py:19`) says that it does not contact the Web
  API; `modules/app.py:286` fetches the topology, as `README.md:98` says.
* The template's `url_api_integrations` for AMS uses `{project-name}`
  (`config/argo-cpas.conf.template:26`), which `modules/tokens.py:60` does not fill in;
  `README.md:213` has `{tenant_name}`.
* `README.md:325`: the manual tokens are passed as the extra variable `connector_tokens`;
  `modules/ansible.py` puts them into the entries of the tenants.
* `update_packages_on_agent` (`modules/monboxgit.py:297`) runs on the hosts of
  `sensu-backend`.
* Removing a POEM tenant looks for its schema with `grep -q`
  (`ansible/roles/poem/tasks/remove-tenants.yml:15`), which also matches longer names.

## Proofs

Every safety property of the passing runs is proved: all invariants, the three action
properties and the three refinements. A theorem holds for every value of the constants
that satisfies the assumption of its module (types of the settings and, for the finite
sets that are counted, finiteness; TLC checks it in every run): any number of processes,
tenants, messages, hosts, retries and faults. What a theorem assumes beyond that is
written in its `ASSUME` and said below. The inductive invariants also hold in TLC, on
the instances of the runs.

The proofs are built alike. One lemma per action says what it does to the fields of the
process that takes it (`...Effect`), so that the steps of the invariants need not expand
the actions again; a `Goto...` lemma does the common part, a process that passes from
one label and locals to the next while the others stay.

### Application

**`TypeCorrect`.** `TypeOK` is not inductive: a step that looks up the current event
needs it to be a message of the topic. `Positions` adds that the events a process
holds are positions of the topic, and that inside a loop body there is a current
event, so that `Min` of the events left is one of them (`MinIsMember`, from the
well-foundedness of `<` on the naturals). `Inv == TypeOK /\ Positions` is inductive. The
proof has one lemma per group of actions. `GotoInv` does the common part: a step of one
process keeps `Inv` if the label and locals it goes to are `Sound` and it leaves the
rest well typed (`RestOK`).

**`CompletedIsConfigured`.** Assumes that the operator does not set `COMPLETED` by hand
(`"COMPLETED" \notin OperatorStatuses`); with it the property is false by design. The
strengthening `CInv` adds `Reported`: a process about to report a success has its job
among the configured ones, wherever the other processes are; and `Queued`: the
monitoring-box queue holds only monitoring-box events, so that its reports, which may be
`COMPLETED` without any playbook, concern no other job. `configured` only grows, which is
why other processes cannot break `Reported`. `QuietGoto` disposes of the steps to labels
that say nothing.

**`NoOrphanWithoutFault`.** Assumes `Documented`: every mapped event names one of the
playbooks the pipeline knows, and the operator does not set `IN_PROGRESS` by hand. The
first is needed because the event loop logs any other name ("Invalid ansible playbook
name") and goes on, after the job has been claimed. The invariant `OInv` adds to `Inv`
what holds while `faults = 0`: `InHands`, every `IN_PROGRESS` job is held by a process,
and `Fit`, the conditions under which holding a job leads to a report: the process has a
token that the services accept, so its updates are applied; a claimed event names a
known playbook; and the events the monitoring-box loops still have to take are among
those on which the common report is made. `HandOver` is the step of the argument: who
lets go of a job sets its final status. Steps that count a fault leave nothing to prove
(`FaultOInv`).

**`AckedInHand`.** Any number of processes on one subscription. Assumes `NoReset`: no
operator initialises a job again, after which its acknowledged event would be nobody's.
`AInv` says, while nothing has failed, that every event behind the offset whose job is
still `INITIALISED` is among the events or the queue of some process (`Delivered`), and
what its locals say of the statuses (`Kept`): who is past the claim has moved the job
past `INITIALISED`, idle processes hold nothing, and the loops of the monitoring boxes
drop only events whose job has gone on. Two processes may hold the same job; statuses
only go on, so what one drops is past `INITIALISED` for the other too.

**`WorksOnOpenJobsOnly`, `OrphansStayOrphaned`, `PushedBeforePuppetRuns`,
`LifecycleFollowed`** assume one process (`OneProcess`); two break all four, see above. The
first also assumes that the operator finishes no job by hand, the second that neither is one
set to `IN_PROGRESS` by hand, the last that the operator only initialises. `Works`
(in `SInv`) ties each place in the cycle to the statuses of the jobs in hand; the
difficult places are the queue, whose events are claimed long after they were read, and
`report_monbox`, where one job may be reported by two events, with the same `Outcome`.
`Unclaimed` (in `UInv`) adds that between the status read and the claim nobody has claimed
the job, so that the claims and the queue take up no job that is already in progress;
`QuietOrphans` and `PatchOrphans` then reduce each step to what the process holds before and
after it. `Pushed` (in `BInv`) says which branches have the entries of the cycle, place by place.
`LifecycleFollowed` shows from `SInv` that each step maps to a step of `JobLifecycle` or
to a stutter, and the initial states to initial states.

**`CompletedIsPublishing`** needs that comparing two counts in
`_check_if_all_tenants_inited` is comparing tenants, and that the queued tenants are those
added, which the code does not see to (finding 2). `Equipped` says when they are: one
process, at most one backend host, a REST-API token for every tenant from the start, the
components configured that `add_new_tenant` looks for, and no refresh that fails.
Everything else may fail. `PInv` adds
to `CInv`: `Stocked`, the tokens that `add_new_tenant` will look up are there for every
event in hand; `Added`, `new_tenant_entries` has every queued tenant from the middle of the
monitoring-box part on; and `Shown`, what a check found stays published. The step
from the counts is `FS_Subset`: a subset with as many elements is the whole set.

### The components

**MonboxGit.** `BranchInv` has five parts. `Alone`: without overlaps what a process has
read is what the branch holds, and what it has pushed is there. `Level`: if nothing has
failed either, the branches differ by just what the process at work has pushed to the
first. `Stranding`: nobody who deletes a stranded tenant gets past the backend branch, and
nobody is adding it. `TypeInv`, `Kept`: types; tenants nobody asks for stay where they
were. `BranchesImplementRegistry` maps each step to the registry's: only a push changes
who is in both branches, and what it changes beyond its request it overwrites.

**InitCheck.** Lemmas per layout (`PublishedFirst`, `HeadingFirst`, `ConsumedFirst`,
`ByWorker`) say which lines are read; `CountedLines`, which tenants they name and when
twice. `Finding` abstracts a check to the lines found and the tenant each names. The four
properties are then facts about that function: a bijection with pairs of host and tenant,
an injection that is onto when the numbers agree (`FS_Injection`), and the pigeonhole
principle when a tenant is left out (`FS_PigeonHole`). `CheckInv` says of the last check
what the properties say of the report.

**StatusDelivery.** `DeliveryInv` adds that the attempts lost are bounded by the faults
of each kind (`Counted`), what `body` is at each place (`Calling`), and, until something
times out, `Punctual`: what was answered is in place and only errors leave a job claimed.
The refinement maps `inflight` to the set of stragglers of `PatchCall`.

**TokenSpool.** `Freshness`: on an undisturbed file one session at a time is at work, from
what it loaded, and each token that is in the file, a snapshot or a host is the last one
issued. A new issue cannot invalidate one, because a token is obtained only if the file
lacks it, and then nobody has it (`Good`). `Condemnation`: a condemned token is in the
file or about to be written there again, and nobody is to obtain another. The module's
assumption says that there is a spool; the code has two.

**Extravars.** `CauseInv` adds to the properties what the fetch gave (`Fetched`) and what
earlier events left in the object (`LeftBehind`); `ServiceInv`, that a claimed job that
was carried out is on the hosts until a run meddles (`Fulfilled`). The assumption of the
module says that the names of sources that are no tenants (`none`, `role`, `manual`) are
no tenants.

**Subscription.** `NothingSkipped` is inductive with the types and `Holding` (events
are in hand at `handle` only, and who pulls there is a pipeline); `AtStart` for
`StuckWithoutAck`. `OffsetSkipsAtMostAsked` assumes `OneCommand`, as in the run: between
the two calls of a command only daemons pull, so the offset only grows and `Ahead` holds.
With two `--offset` commands at once it is false, as one may move the offset back
between the two calls of the other.

### Only model-checked

`JobsSettle`, `StopHonoured` and `EventuallyHandled` are liveness under fairness, which is
beyond TLAPS here. The three runs that expect a violation are counterexamples by nature.

## Not modelled

* The IAM cache file: it holds one value with its expiry, and a stale or unreadable file
  only costs a request. `FetchToken` gives a token or none, and `TokenExpires` lets it
  stop being accepted during a cycle.
* `modules/artifacts.py`, `--clean-artifacts` and printing: sequential work on files that
  nothing else reads. `--only-iam` and `--only-statusapi` without `--update-status`
  print what they fetch.
* `modules/config.py` and `modules/log.py`: read once at the start; the settings that
  behaviour depends on are the constants of the modules. `general.retries` = 0, with which
  a request is never sent and `raise None` follows (`modules/http.py:52`), is excluded by
  `StatusDeliveryAssumption`.
* The contents of configuration files: a branch is the set of tenants in it. The two
  entries of a tenant in the backend file (section and publisher queue) are written
  together and are one here.
* Of the extra variables, user and group names, the default service type and the other
  role defaults, which no property tells apart; a manual `default` token is a manual
  token of every tenant that has no other. The `DEFAULT` tenant that the connector role
  sets up when a run names nobody.
* Package updates after the checks, which change nothing that is kept here; an
  exception in them is the fault `exception`.
* What the tasks of the roles do on the hosts beyond setting up and removing a tenant.
* Packaging, the service unit and the container setup.

## Plan

1. *Done*: `CpasState`, `PlaybookEvents`, `MonboxEvents`, `Application`, `JobLifecycle`, and
   the proofs of `TypeOK`, `CompletedMeansConfigured` and `OrphanedOnlyByFault`.
2. *Done*: `TokenSpool`, `MonboxGit` with `TenantRegistry`, `InitCheck`, `Extravars`,
   `StatusDelivery` with `PatchCall`, and `Subscription`, each with its run.
3. *Done*: theorems for every safety property of the component modules, and the
   refinements of `TenantRegistry` and `PatchCall`.
4. *Done*: `AckedNotLost`, `CompletedMeansPublishing`, `WorksOnOpenJobs`, `OrphansStay`,
   `PushedBeforePuppet` and `FollowsLifecycle` of `Application`.
5. Next: weaken what the theorems assume. `CompletedIsPublishing` with several processes,
   when all of them are equipped; `FollowsLifecycle` for any number of processes against
   a life cycle that allows the second claim; `OffsetSkipsAtMostAsked` for commands of
   which only one uses `--offset`.

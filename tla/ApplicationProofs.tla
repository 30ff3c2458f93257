---------------------------- MODULE ApplicationProofs ----------------------------
(***************************************************************************)
(* What holds of any number of processes: the types of the state, and, as  *)
(* long as nothing has failed, that no job is left IN_PROGRESS and that no *)
(* acknowledged event is lost.                                             *)
(***************************************************************************)
EXTENDS Application, WellFoundedInduction, FiniteSetTheorems, TLAPS

LEMMA MinIsMember ==
    ASSUME NEW S \in SUBSET Nat, S # {}
    PROVE  Min(S) \in S /\ \A y \in S : Min(S) <= y
<1> DEFINE R == OpToRel(<, Nat)
<1>1. IsWellFoundedOn(R, Nat)
  BY NatLessThanWellFounded DEF R
<1>2. \A x, y \in Nat : y < x => <<y, x>> \in R
  BY Zenon DEF OpToRel
<1> HIDE DEF R
<1>3. PICK x \in S : \A y \in S : ~(<<y, x>> \in R)
  BY <1>1, WFMin
<1>4. \A y \in S : x =< y
  <2> TAKE y \in S
  <2>1. ~(y < x)
    BY <1>2, <1>3, Zenon
  <2> QED BY <2>1
<1> QED BY <1>4 DEF Min

-------------------------------------------------------------------------------
\* The events a process still iterates over are messages of the topic, and the
\* labels inside a loop body have one at hand.
AtEvent == {"recheck", "claim", "playbook", "report", "add_claim"}
Positions ==
    \A p \in Procs :
        /\ run[p].todo \subseteq 1..Len(topic)
        /\ run[p].monbox_init_events \subseteq 1..Len(topic)
        /\ pc[p] \in AtEvent => run[p].todo # {}
Inv == TypeOK /\ Positions

\* What a process may go to: a label and locals that keep the invariant.
Sound(l, r) ==
    /\ l \in Labels /\ r \in Cycle
    /\ r.todo \subseteq 1..Len(topic)
    /\ r.monbox_init_events \subseteq 1..Len(topic)
    /\ l \in AtEvent => r.todo # {}

\* What a step of the pipeline leaves alone or keeps well typed.
RestOK ==
    /\ topic' = topic /\ offset' \in Nat
    /\ status' \in [Jobs -> Statuses]
    /\ spool' \in [TokenTypes -> SUBSET (Tenants \X STRING)]
    /\ restSpool' \subseteq Tenants
    /\ configured' \subseteq Jobs
    /\ git' \in [Repos -> SUBSET Tenants]
    /\ monboxes' \subseteq BackendHosts \X Tenants
    /\ stop' \in [Procs -> BOOLEAN]
    /\ faults' \in 0..MaxFaults

LEMMA GotoInv ==
    ASSUME Inv, NEW p \in Procs, NEW l, NEW r,
           Sound(l, r), Goto(p, l, r), RestOK
    PROVE  Inv'
<1>1. pc' \in [Procs -> Labels] /\ run' \in [Procs -> Cycle]
  BY DEF Inv, TypeOK, Sound, Goto
<1>2. ASSUME NEW q \in Procs
      PROVE  /\ run'[q].todo \subseteq 1..Len(topic)
             /\ run'[q].monbox_init_events \subseteq 1..Len(topic)
             /\ pc'[q] \in AtEvent => run'[q].todo # {}
  <2>1. CASE q = p
    <3>1. pc'[q] = l /\ run'[q] = r
      BY <2>1 DEF Inv, TypeOK, Goto
    <3> QED BY <3>1 DEF Sound
  <2>2. CASE q # p
    <3>1. pc'[q] = pc[q] /\ run'[q] = run[q]
      BY <2>2 DEF Inv, TypeOK, Goto
    <3> QED BY <3>1 DEF Inv, Positions
  <2> QED BY <2>1, <2>2
<1>3. TypeOK'
  BY <1>1 DEF Inv, TypeOK, RestOK
<1>4. Positions'
  BY <1>2 DEF Positions, RestOK
<1> QED BY <1>3, <1>4 DEF Inv

LEMMA NewCycleType ==
    NewCycle \in Cycle /\ NewCycle.todo = {} /\ NewCycle.monbox_init_events = {}
BY DEF NewCycle, Cycle

LEMMA NewCycleSound ==
    /\ Sound("idle", NewCycle)
    /\ Sound("exited", NewCycle)
BY NewCycleType DEF Sound, Labels, AtEvent

LEMMA EndCycleInv ==
    ASSUME Inv, NEW p \in Procs, EndCycle(p), RestOK
    PROVE  Inv'
BY NewCycleSound, GotoInv DEF EndCycle

LEMMA FaultType ==
    ASSUME Inv, NEW kind, NoFault \/ Fault(kind)
    PROVE  faults' \in 0..MaxFaults
BY ConfigAssumption DEF Inv, TypeOK, NoFault, Fault

LEMMA Locals ==
    ASSUME Inv, NEW p \in Procs
    PROVE  /\ run[p] \in Cycle
           /\ run[p].todo \subseteq 1..Len(topic)
           /\ run[p].monbox_init_events \subseteq 1..Len(topic)
           /\ pc[p] \in AtEvent => run[p].todo # {}
BY DEF Inv, TypeOK, Positions

LEMMA CurrentEvent ==
    ASSUME Inv, NEW p \in Procs, run[p].todo # {}
    PROVE  /\ Current(p) \in run[p].todo
           /\ topic[Current(p)].tenant \in Tenants
           /\ topic[Current(p)].name \in EventNames
           /\ CurrentJob(p) \in Jobs
<1>1. run[p].todo \in SUBSET Nat
  BY Locals DEF Cycle
<1>2. Current(p) \in run[p].todo
  BY <1>1, MinIsMember DEF Current
<1>3. topic[Current(p)] \in Message
  BY <1>2, Locals, ConfigAssumption DEF Inv, TypeOK
<1> QED BY <1>2, <1>3 DEF Message, CurrentJob, Job, Jobs

\* Going on with the next event of the loop, or at a label outside loop bodies.
LEMMA RestSound ==
    ASSUME Inv, NEW p \in Procs, NEW l \in Labels \ AtEvent
    PROVE  Sound(l, [run[p] EXCEPT !.todo = Rest(p)])
<1>1. [run[p] EXCEPT !.todo = Rest(p)] \in Cycle
  BY Locals DEF Rest, Cycle
<1>2. /\ [run[p] EXCEPT !.todo = Rest(p)].todo \subseteq 1..Len(topic)
      /\ [run[p] EXCEPT !.todo = Rest(p)].monbox_init_events \subseteq 1..Len(topic)
  BY Locals DEF Rest, Cycle
<1> QED BY <1>1, <1>2 DEF Sound

LEMMA PatchType ==
    ASSUME Inv, NEW p \in Procs, NEW j \in Jobs, NEW s \in Statuses,
           PatchStatus(p, j, s)
    PROVE  status' \in [Jobs -> Statuses] /\ faults' \in 0..MaxFaults
BY FaultType DEF PatchStatus, Inv, TypeOK

LEMMA GetType ==
    ASSUME Inv, NEW p \in Procs, NEW j, NEW s, GetStatus(p, j, s)
    PROVE  faults' \in 0..MaxFaults
BY FaultType DEF GetStatus

-------------------------------------------------------------------------------
LEMMA PullInv == ASSUME Inv, NEW p \in Procs, Pull(p) PROVE Inv'
<1> DEFINE ends == {offset + PullMsgs, Len(topic)}
           last == Min(ends)
           matched == {i \in (offset + 1)..last : MatchesFilter(topic[i])}
           new == [NewCycle EXCEPT !.todo = matched, !.restapi_tokens = restSpool]
<1>1. offset \in Nat /\ Len(topic) \in Nat /\ PullMsgs \in Nat
  BY ConfigAssumption DEF Inv, TypeOK
<1>2. last \in Nat /\ last <= Len(topic)
  <2>1. ends \in SUBSET Nat /\ ends # {} /\ Len(topic) \in ends
    BY <1>1
  <2> HIDE DEF ends
  <2>2. last \in ends /\ \A y \in ends : last <= y
    BY <2>1, MinIsMember
  <2> QED BY <2>1, <2>2
<1>3. RestOK
  <2>1. AckedUpTo(last) \in Nat
    BY <1>1, <1>2 DEF AckedUpTo
  <2> QED BY <2>1, FaultType DEF Pull, RestOK, Inv, TypeOK, spoolVars, hostVars
<1>4. CASE Goto(p, "iam", new)
  <2>1. matched \subseteq 1..Len(topic)
    BY <1>1, <1>2
  <2>2. restSpool \subseteq Tenants
    BY DEF Inv, TypeOK
  <2> HIDE DEF matched
  <2>3. matched \in SUBSET Nat
    BY <1>1, <2>1
  <2>4. new \in Cycle /\ new.todo = matched /\ new.monbox_init_events = {}
    BY <2>2, <2>3, NewCycleType DEF Cycle
  <2>5. Sound("iam", new)
    BY <2>1, <2>4 DEF Sound, Labels, AtEvent
  <2> QED BY <1>3, <1>4, <2>5, GotoInv
<1>5. CASE EndCycle(p)
  BY <1>3, <1>5, EndCycleInv
<1> QED BY <1>4, <1>5 DEF Pull

LEMMA TokensSound ==
    ASSUME Inv, NEW p \in Procs, NEW l \in Labels \ AtEvent,
           NEW tokens \in [TokenTypes -> SUBSET (Tenants \X STRING)],
           NEW refreshed \in BOOLEAN
    PROVE  Sound(l, [run[p] EXCEPT !.tokens = tokens, !.any_refresh = refreshed])
<1> DEFINE new == [run[p] EXCEPT !.tokens = tokens, !.any_refresh = refreshed]
<1>1. /\ new \in Cycle
      /\ new.todo = run[p].todo
      /\ new.monbox_init_events = run[p].monbox_init_events
  BY Locals DEF Cycle
<1> QED BY <1>1, Locals DEF Sound

LEMMA TokensInv ==
    ASSUME Inv, NEW p \in Procs, NEW type_tok \in TokenTypes, NEW at,
           NEW next \in Labels \ AtEvent,
           \/ RefreshTokens(p, type_tok, at, next)
           \/ SaveTokens(p, type_tok, at, next)
    PROVE  Inv'
<1>0. spool \in [TokenTypes -> SUBSET (Tenants \X STRING)]
  BY DEF Inv, TypeOK
<1>1. CASE RefreshTokens(p, type_tok, at, next)
  <2> DEFINE missing == (AllowedTenants(p) \X Components[type_tok]) \ spool[type_tok]
             new(failed) == [run[p] EXCEPT
                 !.tokens[type_tok] = spool[type_tok] \cup (missing \ failed),
                 !.any_refresh = missing # failed]
  <2>1. PICK failed \in SUBSET missing :
           /\ IF failed = {} THEN NoFault ELSE Fault("refresh")
           /\ Goto(p, next, new(failed))
    BY <1>1 DEF RefreshTokens
  <2>2. RestOK
    BY <1>1, <2>1, FaultType
       DEF RefreshTokens, RestOK, Inv, TypeOK, amsVars, spoolVars, hostVars
  <2>3. missing \subseteq Tenants \X STRING
    <3>1. AllowedTenants(p) \subseteq Tenants
      <4>1. \A i \in run[p].todo : topic[i] \in Message
        BY Locals, ConfigAssumption DEF Inv, TypeOK
      <4> QED BY <4>1 DEF AllowedTenants, Message
    <3> QED BY <3>1, ConfigAssumption
  <2> DEFINE saved == spool[type_tok] \cup (missing \ failed)
             refreshed == missing # failed
             tokens == [run[p].tokens EXCEPT ![type_tok] = saved]
  <2>4. tokens \in [TokenTypes -> SUBSET (Tenants \X STRING)]
    <3>1. saved \in SUBSET (Tenants \X STRING)
      BY <1>0, <2>3
    <3> HIDE DEF saved
    <3> QED BY <3>1, Locals DEF Cycle
  <2>5. /\ refreshed \in BOOLEAN
        /\ new(failed) = [run[p] EXCEPT !.tokens = tokens, !.any_refresh = refreshed]
    BY Locals DEF Cycle
  <2>6. Sound(next, new(failed))
    BY <2>4, <2>5, TokensSound
  <2> QED BY <2>1, <2>2, <2>6, GotoInv
<1>2. CASE SaveTokens(p, type_tok, at, next)
  <2>1. run[p].tokens \in [TokenTypes -> SUBSET (Tenants \X STRING)]
    BY Locals DEF Cycle
  <2>2. RestOK
    BY <1>0, <1>2, <2>1, FaultType
       DEF SaveTokens, RestOK, Inv, TypeOK, amsVars, hostVars
  <2>3. [run[p] EXCEPT !.any_refresh = FALSE] \in Cycle
    BY Locals DEF Cycle
  <2>4. Sound(next, [run[p] EXCEPT !.any_refresh = FALSE])
    BY <2>3, Locals DEF Sound, Cycle
  <2> QED BY <1>2, <2>2, <2>4, GotoInv DEF SaveTokens
<1> QED BY <1>1, <1>2

-------------------------------------------------------------------------------
\* Locals whose events are events the process already had.
LEMMA LocalsSound ==
    ASSUME Inv, NEW p \in Procs, NEW l \in Labels, NEW r \in Cycle,
           r.todo \subseteq run[p].todo \cup run[p].monbox_init_events,
           r.monbox_init_events \subseteq run[p].todo \cup run[p].monbox_init_events,
           l \in AtEvent => r.todo # {}
    PROVE  Sound(l, r)
BY Locals DEF Sound

LEMMA EventLoopInv ==
    ASSUME Inv, NEW p \in Procs,
           \/ AmsUnreachable(p) \/ PullFails(p) \/ FetchToken(p) \/ SkipFiltered(p)
           \/ Claim(p) \/ InvalidPlaybook(p) \/ Report(p) \/ EndEvents(p)
    PROVE  Inv'
<1> USE DEF amsVars, spoolVars, hostVars
<1>1. CASE AmsUnreachable(p)
  BY <1>1, NewCycleSound, GotoInv, FaultType DEF AmsUnreachable, RestOK, Inv, TypeOK
<1>2. CASE PullFails(p)
  BY <1>2, EndCycleInv, FaultType DEF PullFails, RestOK, Inv, TypeOK
<1>3. CASE FetchToken(p)
  <2>1. PICK token \in BOOLEAN :
           /\ IF token THEN NoFault ELSE Fault("iam")
           /\ Goto(p, "refresh_webapi", [run[p] EXCEPT !.token = token])
    BY <1>3 DEF FetchToken
  <2>2. RestOK
    BY <1>3, <2>1, FaultType DEF FetchToken, RestOK, Inv, TypeOK
  <2>3. Sound("refresh_webapi", [run[p] EXCEPT !.token = token])
    BY Locals DEF Sound, Cycle, Labels, AtEvent
  <2> QED BY <2>1, <2>2, <2>3, GotoInv
<1>4. CASE SkipFiltered(p) \/ InvalidPlaybook(p)
  <2>1. RestOK
    BY <1>4, FaultType DEF SkipFiltered, InvalidPlaybook, RestOK, Inv, TypeOK
  <2>2. Sound("events", [run[p] EXCEPT !.todo = Rest(p)])
    BY RestSound DEF Labels, AtEvent
  <2> QED BY <1>4, <2>1, <2>2, GotoInv DEF SkipFiltered, InvalidPlaybook
<1>5. CASE Claim(p)
  <2>1. run[p].todo # {}
    BY <1>5, Locals DEF Claim, AtEvent
  <2>2. CurrentJob(p) \in Jobs /\ "IN_PROGRESS" \in Statuses
    BY <2>1, CurrentEvent DEF Statuses
  <2>3. RestOK
    BY <1>5, <2>2, PatchType DEF Claim, RestOK, Inv, TypeOK
  <2>4. Sound("playbook", run[p])
    BY <2>1, Locals DEF Sound, Labels
  <2> QED BY <1>5, <2>3, <2>4, GotoInv DEF Claim
<1>6. CASE Report(p)
  <2>1. run[p].todo # {}
    BY <1>6, Locals DEF Report, AtEvent
  <2>2. CurrentJob(p) \in Jobs
    BY <2>1, CurrentEvent
  <2>3. (IF run[p].ok THEN "COMPLETED" ELSE "FAILED") \in Statuses
    BY DEF Statuses
  <2>4. RestOK
    BY <1>6, <2>2, <2>3, PatchType DEF Report, RestOK, Inv, TypeOK
  <2>5. Sound("events", [run[p] EXCEPT !.todo = Rest(p)])
    BY RestSound DEF Labels, AtEvent
  <2> QED BY <1>6, <2>4, <2>5, GotoInv DEF Report
<1>7. CASE EndEvents(p)
  <2>1. RestOK
    BY <1>7, FaultType DEF EndEvents, RestOK, Inv, TypeOK
  <2>2. Sound("add", [run[p] EXCEPT !.todo = run[p].monbox_init_events])
    BY Locals DEF Sound, Cycle, Labels, AtEvent
  <2> QED BY <1>7, <2>1, <2>2, GotoInv, EndCycleInv DEF EndEvents
<1> QED BY <1>1, <1>2, <1>3, <1>4, <1>5, <1>6, <1>7

LEMMA StatusReadInv ==
    ASSUME Inv, NEW p \in Procs, GetJobStatus(p) \/ RecheckMonbox(p)
    PROVE  Inv'
<1> USE DEF amsVars, spoolVars, hostVars
<1>1. Sound("events", [run[p] EXCEPT !.todo = Rest(p)])
  BY RestSound DEF Labels, AtEvent
<1>2. CASE GetJobStatus(p)
  <2>1. RestOK
    BY <1>2, GetType DEF GetJobStatus, RestOK, Inv, TypeOK
  <2>2. run[p].todo # {}
    BY <1>2 DEF GetJobStatus
  <2>3. Sound("claim", run[p]) /\ Sound("recheck", run[p])
    BY <2>2, Locals DEF Sound, Labels
  <2>4. \/ Goto(p, "claim", run[p]) \/ Goto(p, "recheck", run[p])
        \/ Goto(p, "events", [run[p] EXCEPT !.todo = Rest(p)])
    BY <1>2 DEF GetJobStatus
  <2> QED BY <1>1, <2>1, <2>3, <2>4, GotoInv
<1>3. CASE RecheckMonbox(p)
  <2> DEFINE new(queued) == [run[p] EXCEPT !.todo = Rest(p),
                                           !.monbox_init_events = queued]
  <2>1. PICK queued \in {run[p].monbox_init_events,
                         run[p].monbox_init_events \cup {Current(p)}} :
           Goto(p, "events", new(queued))
    <3>1. PICK seen \in Statuses :
             Goto(p, "events", new(IF Claimable(seen)
                                   THEN run[p].monbox_init_events \cup {Current(p)}
                                   ELSE run[p].monbox_init_events))
      BY <1>3, Locals DEF RecheckMonbox, Cycle
    <3> QED BY <3>1
  <2>2. RestOK
    BY <1>3, GetType DEF RecheckMonbox, RestOK, Inv, TypeOK
  <2>3. Current(p) \in run[p].todo
    BY <1>3, Locals, CurrentEvent DEF RecheckMonbox, AtEvent
  <2>4. Sound("events", new(queued))
    <3>1. queued \in SUBSET Nat /\ queued \subseteq 1..Len(topic)
      BY <2>1, <2>3, Locals DEF Cycle
    <3>2. new(queued) \in Cycle
      BY <3>1, Locals DEF Cycle, Rest
    <3> QED BY <3>1, <3>2, Locals DEF Sound, Cycle, Rest, Labels, AtEvent
  <2> QED BY <2>1, <2>2, <2>4, GotoInv
<1> QED BY <1>2, <1>3

LEMMA RunPlaybookInv == ASSUME Inv, NEW p \in Procs, RunPlaybook(p) PROVE Inv'
<1> USE DEF amsVars, spoolVars, hostVars
<1>1. run[p].todo # {}
  BY Locals DEF RunPlaybook, AtEvent
<1>2. topic[Current(p)].tenant \in Tenants /\ Job(Current(p)) \in Jobs
  BY <1>1, CurrentEvent DEF CurrentJob
<1>3. restSpool' \subseteq Tenants /\ configured' \subseteq Jobs
  BY <1>2 DEF RunPlaybook, Inv, TypeOK
<1>4. RestOK
  BY <1>3, FaultType DEF RunPlaybook, RestOK, Inv, TypeOK
<1>5. PICK ok \in BOOLEAN : Goto(p, "report", [run[p] EXCEPT !.ok = ok])
  BY DEF RunPlaybook, Verdict
<1>6. Sound("report", [run[p] EXCEPT !.ok = ok])
  BY <1>1, Locals DEF Sound, Cycle, Labels
<1> QED BY <1>4, <1>5, <1>6, GotoInv

-------------------------------------------------------------------------------
LEMMA AddTenantsInv ==
    ASSUME Inv, NEW p \in Procs, AddNewTenant(p) \/ ClaimMonbox(p)
    PROVE  Inv'
<1> USE DEF amsVars, spoolVars, hostVars
<1>1. Sound("add", [run[p] EXCEPT !.todo = Rest(p)])
  BY RestSound DEF Labels, AtEvent
<1>2. CASE AddNewTenant(p)
  <2> DEFINE tenant == topic[Current(p)].tenant
             new == [run[p] EXCEPT !.new_tenant_entries = @ \cup {tenant}]
  <2>1. run[p].todo # {}
    BY <1>2 DEF AddNewTenant
  <2>2. tenant \in Tenants
    BY <2>1, CurrentEvent
  <2>3. Sound("add_claim", new)
    <3> HIDE DEF tenant
    <3> QED BY <2>1, <2>2, Locals DEF Sound, Cycle, Labels
  <2>4. RestOK
    BY <1>2, FaultType DEF AddNewTenant, RestOK, Inv, TypeOK
  <2> QED BY <1>1, <1>2, <2>3, <2>4, GotoInv DEF AddNewTenant
<1>3. CASE ClaimMonbox(p)
  <2>1. CurrentJob(p) \in Jobs /\ "IN_PROGRESS" \in Statuses
    BY <1>3, Locals, CurrentEvent DEF ClaimMonbox, AtEvent, Statuses
  <2>2. RestOK
    BY <1>3, <2>1, PatchType DEF ClaimMonbox, RestOK, Inv, TypeOK
  <2> QED BY <1>1, <1>3, <2>2, GotoInv DEF ClaimMonbox
<1> QED BY <1>2, <1>3

LEMMA CommitInv ==
    ASSUME Inv, NEW p \in Procs,
           \/ \E repo \in Repos, at \in Labels, next \in Labels \ AtEvent :
                 DownloadConfig(p, repo, at, next)
           \/ CommitBackend(p) \/ CommitAgent(p)
    PROVE  Inv'
<1> USE DEF amsVars, spoolVars, hostVars
<1>1. CASE \E repo \in Repos, at \in Labels, next \in Labels \ AtEvent :
              DownloadConfig(p, repo, at, next)
  <2>1. PICK repo \in Repos, at \in Labels, next \in Labels \ AtEvent :
           DownloadConfig(p, repo, at, next)
    BY <1>1
  <2>2. RestOK
    BY <2>1, FaultType DEF DownloadConfig, RestOK, Inv, TypeOK
  <2>3. git[repo] \in SUBSET Tenants
    BY DEF Inv, TypeOK
  <2>4. Sound(next, [run[p] EXCEPT !.yaml_data = git[repo]])
    BY <2>3, Locals DEF Sound, Cycle
  <2> QED BY <2>1, <2>2, <2>4, GotoInv DEF DownloadConfig
<1>2. NewConfig(p) \in SUBSET Tenants
  BY Locals DEF NewConfig, Cycle
<1>3. ASSUME NEW repo \in Repos, NEW committed \in BOOLEAN,
             PushConfig(repo, NewConfig(p), committed)
      PROVE  git' \in [Repos -> SUBSET Tenants] /\ faults' \in 0..MaxFaults
  BY <1>2, <1>3, FaultType DEF PushConfig, Inv, TypeOK
<1>4. CASE CommitBackend(p)
  <2>1. PICK committed \in BOOLEAN :
           /\ PushConfig("backend", NewConfig(p), committed)
           /\ Goto(p, "download_agent",
                   [run[p] EXCEPT !.backend_commit_status = committed])
    BY <1>4 DEF CommitBackend
  <2>2. RestOK
    BY <1>3, <1>4, <2>1 DEF CommitBackend, RestOK, Inv, TypeOK, Repos
  <2>3. Sound("download_agent", [run[p] EXCEPT !.backend_commit_status = committed])
    BY Locals DEF Sound, Cycle, Labels, AtEvent
  <2> QED BY <2>1, <2>2, <2>3, GotoInv
<1>5. CASE CommitAgent(p)
  <2>1. RestOK
    BY <1>3, <1>5 DEF CommitAgent, RestOK, Inv, TypeOK, Repos
  <2>2. /\ Sound("puppet", run[p])
        /\ Sound("fail", [run[p] EXCEPT !.todo = run[p].monbox_init_events])
    BY Locals DEF Sound, Cycle, Labels, AtEvent
  <2>3. \/ Goto(p, "puppet", run[p])
        \/ Goto(p, "fail", [run[p] EXCEPT !.todo = run[p].monbox_init_events])
    BY <1>5 DEF CommitAgent
  <2> QED BY <2>1, <2>2, <2>3, GotoInv
<1> QED BY <1>1, <1>4, <1>5

LEMMA InitCheckInv ==
    ASSUME Inv, NEW p \in Procs, RunPuppet(p) \/ CheckInit(p) \/ FetchTokenAgain(p)
    PROVE  Inv'
<1> USE DEF amsVars, spoolVars, hostVars
<1>1. CASE RunPuppet(p)
  <2>1. PICK reached \in SUBSET BackendHosts :
           monboxes' = monboxes \cup (reached \X (git["backend"] \cap git["agent"]))
    BY <1>1 DEF RunPuppet
  <2>2. git["backend"] \in SUBSET Tenants
    BY DEF Inv, TypeOK, Repos
  <2>3. monboxes' \subseteq BackendHosts \X Tenants
    BY <2>1, <2>2 DEF Inv, TypeOK
  <2>4. RestOK
    BY <1>1, <2>3, FaultType DEF RunPuppet, RestOK, Inv, TypeOK
  <2>5. /\ Sound("check", run[p])
        /\ Sound("fail", [run[p] EXCEPT !.todo = run[p].monbox_init_events])
    BY Locals DEF Sound, Cycle, Labels, AtEvent
  <2>6. \/ Goto(p, "check", run[p])
        \/ Goto(p, "fail", [run[p] EXCEPT !.todo = run[p].monbox_init_events])
    BY <1>1 DEF RunPuppet
  <2> QED BY <2>4, <2>5, <2>6, GotoInv
<1>2. CASE CheckInit(p)
  <2> DEFINE new(n, all, inited) ==
               [run[p] EXCEPT !.checks = n, !.all_tenants_inited = all,
                              !.inited_tenants = inited]
  <2>1. PICK all \in BOOLEAN, inited \in SUBSET Tenants :
           Goto(p, "check", new(run[p].checks + 1, all, inited))
    <3>1. PICK lines \in SUBSET (monboxes \cap (BackendHosts \X run[p].new_tenant_entries)) :
             Goto(p, "check", new(run[p].checks + 1,
                                  AllInited(lines, run[p].new_tenant_entries),
                                  {line[2] : line \in lines}))
      BY <1>2, Locals DEF CheckInit, Cycle
    <3>2. {line[2] : line \in lines} \in SUBSET Tenants
      BY Locals DEF Cycle
    <3>3. AllInited(lines, run[p].new_tenant_entries) \in BOOLEAN
      BY DEF AllInited
    <3> QED BY <3>1, <3>2, <3>3
  <2>2. RestOK
    BY <1>2, FaultType DEF CheckInit, RestOK, Inv, TypeOK
  <2>3. Sound("check", new(run[p].checks + 1, all, inited))
    <3>1. run[p].checks + 1 \in Nat
      BY Locals DEF Cycle
    <3>2. new(run[p].checks + 1, all, inited) \in Cycle
      BY <3>1, Locals DEF Cycle
    <3> QED BY <3>2, Locals DEF Sound, Cycle, Labels, AtEvent
  <2> QED BY <2>1, <2>2, <2>3, GotoInv
<1>3. CASE FetchTokenAgain(p)
  <2> DEFINE new(token) == [run[p] EXCEPT !.token = token,
                                          !.todo = run[p].monbox_init_events]
  <2>1. PICK token \in BOOLEAN :
           /\ IF token THEN NoFault ELSE Fault("iam")
           /\ Goto(p, "report_monbox", new(token))
    BY <1>3 DEF FetchTokenAgain
  <2>2. RestOK
    BY <1>3, <2>1, FaultType DEF FetchTokenAgain, RestOK, Inv, TypeOK
  <2>3. Sound("report_monbox", new(token))
    BY Locals DEF Sound, Cycle, Labels, AtEvent
  <2> QED BY <2>1, <2>2, <2>3, GotoInv
<1> QED BY <1>1, <1>2, <1>3

LEMMA ReportMonboxInv ==
    ASSUME Inv, NEW p \in Procs, ReportMonbox(p) \/ ReportFailure(p) \/ EndMonbox(p)
    PROVE  Inv'
<1> USE DEF amsVars, spoolVars, hostVars
<1>1. /\ Sound("report_monbox", [run[p] EXCEPT !.todo = Rest(p)])
      /\ Sound("fail", [run[p] EXCEPT !.todo = Rest(p)])
  BY RestSound DEF Labels, AtEvent
<1>2. CASE ReportMonbox(p)
  <2>1. CurrentJob(p) \in Jobs
    BY <1>2, CurrentEvent DEF ReportMonbox
  <2>2. InitOutcome(p, topic[Current(p)].tenant) \in Statuses
    BY DEF InitOutcome, Statuses
  <2>3. RestOK
    BY <1>2, <2>1, <2>2, PatchType DEF ReportMonbox, RestOK, Inv, TypeOK
  <2> QED BY <1>1, <1>2, <2>3, GotoInv DEF ReportMonbox
<1>3. CASE ReportFailure(p)
  <2>1. CurrentJob(p) \in Jobs /\ "FAILED" \in Statuses
    BY <1>3, CurrentEvent DEF ReportFailure, Statuses
  <2>2. RestOK
    BY <1>3, <2>1, PatchType DEF ReportFailure, RestOK, Inv, TypeOK
  <2> QED BY <1>1, <1>3, <2>2, GotoInv DEF ReportFailure
<1>4. CASE EndMonbox(p)
  BY <1>4, EndCycleInv, FaultType DEF EndMonbox, RestOK, Inv, TypeOK
<1> QED BY <1>2, <1>3, <1>4

-------------------------------------------------------------------------------
LEMMA ControlInv ==
    ASSUME Inv, NEW p \in Procs,
           DaemonStops(p) \/ Raise(p) \/ Crash(p) \/ Start(p)
    PROVE  Inv'
<1> USE DEF amsVars, spoolVars, hostVars
<1>1. RestOK
  BY FaultType DEF DaemonStops, Raise, Crash, Start, RestOK, Inv, TypeOK
<1>2. Goto(p, "exited", NewCycle) \/ Goto(p, "idle", NewCycle) \/ EndCycle(p)
  BY DEF DaemonStops, Raise, Crash, Start
<1> QED BY <1>1, <1>2, NewCycleSound, GotoInv, EndCycleInv

\* Steps that leave every process where it is.
LEMMA SteadyInv ==
    ASSUME Inv,
           \/ \E p \in Procs : Signal(p) \/ TokenExpires(p)
           \/ \E j \in Jobs, s \in Statuses : UpdateStatus(j, s)
    PROVE  Inv'
<1> USE DEF amsVars, spoolVars, hostVars
<1>1. CASE \E p \in Procs : Signal(p)
  BY <1>1, FaultType DEF Signal, Inv, TypeOK, Positions
<1>2. CASE \E j \in Jobs, s \in Statuses : UpdateStatus(j, s)
  BY <1>2, FaultType DEF UpdateStatus, Inv, TypeOK, Positions
<1>3. ASSUME NEW p \in Procs, TokenExpires(p) PROVE Inv'
  <2>1. [run[p] EXCEPT !.token = FALSE] \in Cycle
    BY Locals DEF Cycle
  <2>2. run' = [run EXCEPT ![p] = [run[p] EXCEPT !.token = FALSE]]
    BY <1>3 DEF TokenExpires
  <2>3. TypeOK'
    BY <1>3, <2>1, <2>2, FaultType DEF TokenExpires, Inv, TypeOK
  <2>4. \A q \in Procs : /\ run'[q].todo = run[q].todo
                         /\ run'[q].monbox_init_events = run[q].monbox_init_events
    BY <2>2, Locals DEF Inv, TypeOK, Cycle
  <2>5. topic' = topic /\ pc' = pc
    BY <1>3 DEF TokenExpires
  <2>6. Positions'
    BY <2>4, <2>5 DEF Inv, Positions
  <2> QED BY <2>3, <2>6 DEF Inv
<1> QED BY <1>1, <1>2, <1>3

LEMMA PublishInv ==
    ASSUME Inv, NEW m \in Messages, Publish(m)
    PROVE  Inv'
<1>1. m.tenant \in Tenants /\ m.name \in EventNames
  BY ConfigAssumption DEF Message
<1>2. status' \in [Jobs -> Statuses]
  BY <1>1 DEF Publish, Inv, TypeOK, Statuses
<1>3. topic' \in Seq(Messages) /\ Len(topic') = Len(topic) + 1
  BY DEF Publish, Inv, TypeOK
<1>4. TypeOK'
  BY <1>2, <1>3, FaultType DEF Publish, Inv, TypeOK, spoolVars, hostVars
<1>5. \A S \in SUBSET (1..Len(topic)) : S \subseteq 1..Len(topic')
  BY <1>3 DEF Inv, TypeOK
<1>6. Positions'
  BY <1>5 DEF Publish, Inv, Positions
<1> QED BY <1>4, <1>6 DEF Inv

-------------------------------------------------------------------------------
LEMMA InitInv == Init => Inv
<1> SUFFICES ASSUME Init PROVE Inv
  OBVIOUS
<1>1. TypeOK
  BY ConfigAssumption, NewCycleType
     DEF Init, TypeOK, Jobs, Statuses, Labels, Repos, TokenTypes
<1>2. Positions
  BY NewCycleType DEF Init, Positions, AtEvent
<1> QED BY <1>1, <1>2 DEF Inv

LEMMA NextInv == Inv /\ [Next]_vars => Inv'
<1> SUFFICES ASSUME Inv, [Next]_vars PROVE Inv'
  OBVIOUS
<1>1. ASSUME NEW p \in Procs, PlaybookStep(p) PROVE Inv'
  <2>1. /\ {"webapi", "ams"} \subseteq TokenTypes
        /\ {"save_webapi", "refresh_ams", "save_ams", "events"} \subseteq Labels \ AtEvent
    BY DEF TokenTypes, Labels, AtEvent
  <2> QED BY <1>1, <2>1, PullInv, TokensInv, EventLoopInv, StatusReadInv,
             RunPlaybookInv, SteadyInv DEF PlaybookStep
<1>2. ASSUME NEW p \in Procs, MonboxStep(p) PROVE Inv'
  <2>1. /\ {"backend", "agent"} \subseteq Repos
        /\ {"add", "download_agent"} \subseteq Labels
        /\ {"push_backend", "push_agent"} \subseteq Labels \ AtEvent
    BY DEF Repos, Labels, AtEvent
  <2> QED BY <1>2, <2>1, AddTenantsInv, CommitInv, InitCheckInv, ReportMonboxInv
          DEF MonboxStep
<1>3. CASE UNCHANGED vars
  BY <1>3 DEF vars, Inv, TypeOK, Positions
<1> QED BY <1>1, <1>2, <1>3, ControlInv, SteadyInv, PublishInv DEF Next, ProcessStep

\* The types of the state, and with them that every loop only ever holds messages
\* that were really published, whatever the configuration, the number of processes
\* and the faults.
THEOREM TypeCorrect == Spec => []TypeOK
<1>1. Inv => TypeOK
  BY DEF Inv
<1> QED BY <1>1, InitInv, NextInv, PTL DEF Spec

-------------------------------------------------------------------------------
(***************************************************************************)
(* Without a fault no job is left IN_PROGRESS by everyone.  The argument   *)
(* follows the responsibility for a job: who claims it holds it, and the   *)
(* step that lets go of it sets its final status.  That the update really  *)
(* happens needs a token that is accepted, and that every claim leads to a *)
(* report needs a playbook the pipeline knows (Fit).                       *)
(***************************************************************************)
\* Holding, of a label and locals.
HeldAt(l, r) ==
    CASE l \in {"playbook", "report"} -> {Job(Min(r.todo))}
      [] l \in {"fail", "report_monbox"} -> {Job(i) : i \in r.todo}
      [] l \in {"add", "add_claim", "push_backend", "download_agent",
                "push_agent", "puppet", "check"} ->
            {Job(i) : i \in r.monbox_init_events}
      [] OTHER -> {}

Before == {"idle", "exited", "iam"}
Fit(l, r) ==
    /\ l \notin Before => r.token
    /\ l \in {"claim", "playbook"} =>
           EventPlaybook(topic[Min(r.todo)].name) \in PlaybookKinds
    /\ l \in {"add", "add_claim"} => r.todo \subseteq r.monbox_init_events

InHands == \A j \in Jobs : status[j] = "IN_PROGRESS" =>
              \E p \in Procs : j \in HeldAt(pc[p], run[p])
OInv == /\ Inv
        /\ faults = 0 => InHands /\ \A p \in Procs : Fit(pc[p], run[p])

\* Playbooks are named as documented, and no operator sets IN_PROGRESS by hand.
Documented == /\ \A e \in MappedEvents : PlaybookKind[e] # "other"
              /\ "IN_PROGRESS" \notin OperatorStatuses

LEMMA HeldIsHolding == \A p \in Procs : HeldAt(pc[p], run[p]) = Holding(p)
BY DEF HeldAt, Holding, CurrentJob, Current

-------------------------------------------------------------------------------
LEMMA FaultOInv == ASSUME Inv', faults' # 0 PROVE OInv'
BY DEF OInv

\* p passes from what it held to what it holds next: what is in progress after the
\* step is held by p, or was in progress before and is somebody else's.
LEMMA HandOver ==
    ASSUME OInv, Inv', NEW p \in Procs, NEW l, NEW r, Goto(p, l, r),
           faults = 0, topic' = topic, Fit(l, r),
           \A j \in Jobs : status'[j] = "IN_PROGRESS" =>
               \/ j \in HeldAt(l, r)
               \/ status[j] = "IN_PROGRESS" /\ j \notin HeldAt(pc[p], run[p])
    PROVE  OInv'
<1>1. pc'[p] = l /\ run'[p] = r
  BY DEF OInv, Inv, TypeOK, Goto
<1>2. \A q \in Procs : q # p => pc'[q] = pc[q] /\ run'[q] = run[q]
  BY DEF OInv, Inv, TypeOK, Goto
<1>3. ASSUME NEW j \in Jobs, status'[j] = "IN_PROGRESS"
      PROVE  \E q \in Procs : j \in HeldAt(pc[q], run[q])'
  <2>1. CASE j \in HeldAt(l, r)
    <3>1. j \in HeldAt(pc[p], run[p])'
      BY <1>1, <2>1 DEF HeldAt, Job
    <3> QED BY <3>1
  <2>2. CASE status[j] = "IN_PROGRESS" /\ j \notin HeldAt(pc[p], run[p])
    <3>1. PICK q \in Procs : j \in HeldAt(pc[q], run[q])
      BY <2>2 DEF OInv, InHands
    <3>2. q # p
      BY <2>2, <3>1
    <3>3. j \in HeldAt(pc[q], run[q])'
      BY <1>2, <3>1, <3>2 DEF HeldAt, Job
    <3> QED BY <3>3
  <2> QED BY <1>3, <2>1, <2>2
<1>4. ASSUME NEW q \in Procs PROVE Fit(pc[q], run[q])'
  <2>1. CASE q = p
    BY <1>1, <2>1 DEF Fit, EventPlaybook
  <2>2. CASE q # p
    BY <1>2, <2>2 DEF OInv, Fit, EventPlaybook
  <2> QED BY <2>1, <2>2
<1> QED BY <1>3, <1>4 DEF OInv, InHands

\* The same for a step that sets no status.
LEMMA KeepHolding ==
    ASSUME OInv, Inv', NEW p \in Procs, NEW l, NEW r, Goto(p, l, r),
           faults = 0, topic' = topic, status' = status, Fit(l, r),
           HeldAt(pc[p], run[p]) \subseteq HeldAt(l, r)
    PROVE  OInv'
BY HandOver

\* The same for a step that sets one, of a job of its own.
LEMMA PatchHolding ==
    ASSUME OInv, Inv', NEW p \in Procs, NEW l, NEW r, Goto(p, l, r),
           NEW j \in Jobs, NEW s, PatchStatus(p, j, s), pc[p] \notin Before,
           faults' = 0, topic' = topic, Fit(l, r),
           s = "IN_PROGRESS" => j \in HeldAt(l, r),
           HeldAt(pc[p], run[p]) \subseteq HeldAt(l, r) \cup {j}
    PROVE  OInv'
<1>1. faults = 0
  BY ConfigAssumption DEF OInv, Inv, TypeOK, PatchStatus, NoFault, Fault
<1>2. run[p].token
  BY <1>1 DEF OInv, Fit
<1>3. status' = [status EXCEPT ![j] = s]
  BY <1>1, <1>2 DEF PatchStatus, Fault
<1>4. ASSUME NEW k \in Jobs, status'[k] = "IN_PROGRESS"
      PROVE  \/ k \in HeldAt(l, r)
             \/ status[k] = "IN_PROGRESS" /\ k \notin HeldAt(pc[p], run[p])
  <2>1. CASE k = j
    BY <1>3, <1>4, <2>1 DEF OInv, Inv, TypeOK
  <2>2. CASE k # j
    BY <1>3, <1>4, <2>2 DEF OInv, Inv, TypeOK
  <2> QED BY <2>1, <2>2
<1> QED BY <1>1, <1>4, HandOver

\* A process that holds nothing may go to a label where it holds nothing.
LEMMA NewCycleOInv ==
    ASSUME OInv, Inv', NEW p \in Procs,
           \/ Goto(p, "exited", NewCycle) \/ Goto(p, "idle", NewCycle) \/ EndCycle(p),
           HeldAt(pc[p], run[p]) = {}, faults = 0, topic' = topic, status' = status
    PROVE  OInv'
BY KeepHolding DEF EndCycle, Fit, Before

\* Without a fault after the step there was none before, and it was not one.
LEMMA NoFaultBefore ==
    ASSUME OInv, faults' = 0, NEW kind
    PROVE  ~Fault(kind) /\ (NoFault => faults = 0)
BY ConfigAssumption DEF OInv, Inv, TypeOK, NoFault, Fault

-------------------------------------------------------------------------------
LEMMA BeginOInv ==
    ASSUME OInv, Inv', faults' = 0, NEW p \in Procs,
           AmsUnreachable(p) \/ PullFails(p) \/ Pull(p) \/ FetchToken(p)
    PROVE  OInv'
<1>1. ~AmsUnreachable(p) /\ ~PullFails(p)
  BY NoFaultBefore DEF AmsUnreachable, PullFails
<1>2. topic' = topic /\ status' = status
  BY DEF Pull, FetchToken, AmsUnreachable, PullFails, amsVars
<1>3. CASE Pull(p)
  <2>1. HeldAt(pc[p], run[p]) = {} /\ faults = 0
    BY <1>3, NoFaultBefore DEF Pull, HeldAt
  <2>2. EndCycle(p) \/ \E r : Goto(p, "iam", r)
    BY <1>3 DEF Pull
  <2>3. \A r : Fit("iam", r)
    BY DEF Fit, Before
  <2> QED BY <1>2, <2>1, <2>2, <2>3, NewCycleOInv, KeepHolding
<1>4. CASE FetchToken(p)
  <2>1. HeldAt(pc[p], run[p]) = {}
    BY <1>4 DEF FetchToken, HeldAt
  <2>2. faults = 0 /\ Goto(p, "refresh_webapi", [run[p] EXCEPT !.token = TRUE])
    BY <1>4, NoFaultBefore DEF FetchToken
  <2>3. Fit("refresh_webapi", [run[p] EXCEPT !.token = TRUE])
    BY Locals DEF OInv, Fit, Cycle
  <2> QED BY <1>2, <2>1, <2>2, <2>3, KeepHolding
<1> QED BY <1>1, <1>3, <1>4

LEMMA TokensOInv ==
    ASSUME OInv, Inv', faults' = 0, NEW p \in Procs, NEW t \in TokenTypes,
           NEW at \in {"refresh_webapi", "save_webapi", "refresh_ams", "save_ams"},
           NEW l \in {"save_webapi", "refresh_ams", "save_ams", "events"},
           RefreshTokens(p, t, at, l) \/ SaveTokens(p, t, at, l)
    PROVE  OInv'
<1>1. topic' = topic /\ status' = status /\ faults = 0
  BY NoFaultBefore DEF RefreshTokens, SaveTokens, amsVars
<1>2. HeldAt(pc[p], run[p]) = {}
  BY DEF RefreshTokens, SaveTokens, HeldAt
<1>3. run[p].token
  BY <1>1 DEF RefreshTokens, SaveTokens, OInv, Fit, Before
<1>4. CASE RefreshTokens(p, t, at, l)
  <2>1. PICK toks, b : Goto(p, l, [run[p] EXCEPT !.tokens[t] = toks, !.any_refresh = b])
    BY <1>4 DEF RefreshTokens
  <2>2. [run[p] EXCEPT !.tokens[t] = toks, !.any_refresh = b].token = run[p].token
    BY Locals DEF OInv, Cycle
  <2>3. Fit(l, [run[p] EXCEPT !.tokens[t] = toks, !.any_refresh = b])
    BY <1>3, <2>2 DEF Fit
  <2> QED BY <1>1, <1>2, <2>1, <2>3, KeepHolding
<1>5. CASE SaveTokens(p, t, at, l)
  <2>1. Goto(p, l, [run[p] EXCEPT !.any_refresh = FALSE])
    BY <1>5 DEF SaveTokens
  <2>2. Fit(l, [run[p] EXCEPT !.any_refresh = FALSE])
    BY <1>3, Locals DEF OInv, Fit, Cycle
  <2> QED BY <1>1, <1>2, <2>1, <2>2, KeepHolding
<1> QED BY <1>4, <1>5

\* Locals with another list of events.
LEMMA TodoLocals ==
    ASSUME OInv, NEW p \in Procs, NEW S
    PROVE  LET r == [run[p] EXCEPT !.todo = S]
           IN  /\ r.todo = S /\ r.token = run[p].token
               /\ r.monbox_init_events = run[p].monbox_init_events
BY Locals DEF OInv, Cycle

LEMMA EventLoopOInv ==
    ASSUME OInv, Inv', Documented, faults' = 0, NEW p \in Procs,
           \/ SkipFiltered(p) \/ GetJobStatus(p) \/ RecheckMonbox(p)
           \/ InvalidPlaybook(p) \/ EndEvents(p)
    PROVE  OInv'
<1>1. topic' = topic /\ status' = status /\ faults = 0
  BY NoFaultBefore DEF SkipFiltered, GetJobStatus, GetStatus, RecheckMonbox,
                       InvalidPlaybook, EndEvents, amsVars
<1>2. run[p].token
  BY <1>1 DEF SkipFiltered, GetJobStatus, RecheckMonbox, InvalidPlaybook, EndEvents,
              OInv, Fit, Before
<1>3. Fit("events", [run[p] EXCEPT !.todo = Rest(p)])
  BY <1>2, TodoLocals DEF Fit
<1>4. ~InvalidPlaybook(p)
  BY <1>1 DEF InvalidPlaybook, OInv, Fit, Current
<1>5. HeldAt(pc[p], run[p]) = {}
  BY <1>4 DEF SkipFiltered, GetJobStatus, RecheckMonbox, EndEvents, HeldAt
<1>6. CASE SkipFiltered(p)
  BY <1>1, <1>3, <1>5, <1>6, KeepHolding DEF SkipFiltered
<1>7. CASE GetJobStatus(p)
  <2>1. CASE Goto(p, "events", [run[p] EXCEPT !.todo = Rest(p)])
    BY <1>1, <1>3, <1>5, <2>1, KeepHolding
  <2>2. CASE Goto(p, "recheck", run[p])
    <3>1. Fit("recheck", run[p])
      BY <1>2 DEF Fit
    <3> QED BY <1>1, <1>5, <2>2, <3>1, KeepHolding
  <2>3. CASE /\ Goto(p, "claim", run[p])
             /\ EventPlaybook(topic[Current(p)].name) # "none"
    <3>1. EventPlaybook(topic[Current(p)].name) \in PlaybookKinds
      BY <2>3, ConfigAssumption DEF EventPlaybook, Documented
    <3>2. Fit("claim", run[p])
      BY <1>2, <3>1 DEF Fit, Current
    <3> QED BY <1>1, <1>5, <2>3, <3>2, KeepHolding
  <2> QED BY <1>7, <2>1, <2>2, <2>3 DEF GetJobStatus
<1>8. CASE RecheckMonbox(p)
  <2>1. PICK queued : Goto(p, "events", [run[p] EXCEPT !.todo = Rest(p),
                                                       !.monbox_init_events = queued])
    BY <1>8, Locals DEF RecheckMonbox, OInv, Cycle
  <2>2. Fit("events", [run[p] EXCEPT !.todo = Rest(p), !.monbox_init_events = queued])
    BY <1>2, Locals DEF OInv, Fit, Cycle
  <2> QED BY <1>1, <1>5, <2>1, <2>2, KeepHolding
<1>9. CASE EndEvents(p)
  <2>1. Fit("add", [run[p] EXCEPT !.todo = run[p].monbox_init_events])
    BY <1>2, TodoLocals DEF Fit
  <2> QED BY <1>1, <1>5, <1>9, <2>1, KeepHolding, NewCycleOInv DEF EndEvents
<1> QED BY <1>4, <1>6, <1>7, <1>8, <1>9

LEMMA PlaybookOInv ==
    ASSUME OInv, Inv', faults' = 0, NEW p \in Procs,
           Claim(p) \/ RunPlaybook(p) \/ Report(p)
    PROVE  OInv'
<1>1. topic' = topic /\ faults = 0 /\ pc[p] \notin Before
  BY NoFaultBefore DEF Claim, RunPlaybook, Report, PatchStatus, amsVars, Before
<1>2. run[p].token
  BY <1>1 DEF OInv, Fit
<1>3. CurrentJob(p) \in Jobs
  BY Locals, CurrentEvent DEF OInv, Claim, RunPlaybook, Report, AtEvent
<1>4. CASE Claim(p)
  <2>1. Fit("playbook", run[p])
    BY <1>1, <1>2, <1>4 DEF Claim, OInv, Fit
  <2>2. /\ CurrentJob(p) \in HeldAt("playbook", run[p])
        /\ HeldAt(pc[p], run[p]) = {}
    BY <1>4 DEF Claim, HeldAt, CurrentJob, Current
  <2> QED BY <1>1, <1>3, <1>4, <2>1, <2>2, PatchHolding DEF Claim
<1>5. CASE RunPlaybook(p)
  <2>1. PICK ok : Goto(p, "report", [run[p] EXCEPT !.ok = ok])
    BY <1>5 DEF RunPlaybook
  <2> DEFINE new == [run[p] EXCEPT !.ok = ok]
  <2>2. new.todo = run[p].todo /\ new.token
    BY <1>2, Locals DEF OInv, Cycle
  <2>3. Fit("report", new)
    BY <2>2 DEF Fit
  <2>4. HeldAt(pc[p], run[p]) = HeldAt("report", new)
    BY <1>5, <2>2 DEF RunPlaybook, HeldAt
  <2>5. status' = status
    BY <1>5 DEF RunPlaybook
  <2> HIDE DEF new
  <2> QED BY <1>1, <2>1, <2>3, <2>4, <2>5, KeepHolding DEF new
<1>6. CASE Report(p)
  <2>1. Fit("events", [run[p] EXCEPT !.todo = Rest(p)])
    BY <1>2, TodoLocals DEF Fit
  <2>2. HeldAt(pc[p], run[p]) = {CurrentJob(p)}
    BY <1>6 DEF Report, HeldAt, CurrentJob, Current
  <2> QED BY <1>1, <1>3, <1>6, <2>1, <2>2, PatchHolding DEF Report
<1> QED BY <1>4, <1>5, <1>6

-------------------------------------------------------------------------------
\* While monitoring boxes are processed the queued jobs stay in hand.
MonboxLabels == {"add", "add_claim", "push_backend", "download_agent", "push_agent",
                 "puppet", "check"}

LEMMA MonboxKeeps ==
    ASSUME OInv, Inv', faults' = 0, NEW p \in Procs, pc[p] \in MonboxLabels,
           NEW l \in MonboxLabels, NEW r, Goto(p, l, r),
           r.token = run[p].token, r.monbox_init_events = run[p].monbox_init_events,
           l \in {"add", "add_claim"} => r.todo \subseteq r.monbox_init_events,
           faults = 0, topic' = topic, status' = status
    PROVE  OInv'
<1>1. run[p].token
  BY DEF OInv, Fit, MonboxLabels, Before
<1>2. Fit(l, r)
  BY <1>1 DEF Fit, MonboxLabels
<1>3. HeldAt(pc[p], run[p]) = HeldAt(l, r)
  BY DEF HeldAt, MonboxLabels
<1> QED BY <1>2, <1>3, KeepHolding

LEMMA MonboxFails ==
    ASSUME OInv, Inv', faults' = 0, NEW p \in Procs, pc[p] \in MonboxLabels,
           Goto(p, "fail", [run[p] EXCEPT !.todo = run[p].monbox_init_events]),
           faults = 0, topic' = topic, status' = status
    PROVE  OInv'
<1> DEFINE new == [run[p] EXCEPT !.todo = run[p].monbox_init_events]
<1>1. new.todo = run[p].monbox_init_events /\ new.token = run[p].token
  BY TodoLocals
<1>2. Fit("fail", new)
  BY <1>1 DEF OInv, Fit, MonboxLabels, Before
<1>3. HeldAt(pc[p], run[p]) = HeldAt("fail", new)
  BY <1>1 DEF HeldAt, MonboxLabels
<1> QED BY <1>2, <1>3, KeepHolding

LEMMA AddOInv ==
    ASSUME OInv, Inv', faults' = 0, NEW p \in Procs,
           AddNewTenant(p) \/ ClaimMonbox(p)
    PROVE  OInv'
<1> DEFINE rest == [run[p] EXCEPT !.todo = Rest(p)]
<1>1. /\ topic' = topic /\ faults = 0
      /\ pc[p] \in MonboxLabels /\ pc[p] \notin Before
  BY NoFaultBefore DEF AddNewTenant, ClaimMonbox, PatchStatus, amsVars,
                       MonboxLabels, Before
<1>2. run[p].token /\ run[p].todo \subseteq run[p].monbox_init_events
  BY <1>1 DEF AddNewTenant, ClaimMonbox, OInv, Fit
<1>3. /\ rest.token = run[p].token
      /\ rest.monbox_init_events = run[p].monbox_init_events
      /\ rest.todo \subseteq rest.monbox_init_events
  BY <1>2, TodoLocals DEF Rest
<1>4. CASE AddNewTenant(p)
  <2> DEFINE new == [run[p] EXCEPT
                        !.new_tenant_entries = @ \cup {topic[Current(p)].tenant}]
  <2>1. /\ new.todo = run[p].todo /\ new.token = run[p].token
        /\ new.monbox_init_events = run[p].monbox_init_events
    BY Locals DEF OInv, Cycle
  <2>2. Goto(p, "add_claim", new) \/ Goto(p, "add", rest)
    BY <1>4 DEF AddNewTenant
  <2>3. status' = status
    BY <1>4 DEF AddNewTenant
  <2> HIDE DEF new, rest
  <2> QED BY <1>1, <1>2, <1>3, <2>1, <2>2, <2>3, MonboxKeeps DEF MonboxLabels
<1>5. CASE ClaimMonbox(p)
  <2>1. run[p].todo # {}
    BY <1>5, Locals DEF ClaimMonbox, OInv, AtEvent
  <2>2. CurrentJob(p) \in Jobs /\ Current(p) \in run[p].todo
    BY <2>1, CurrentEvent DEF OInv
  <2>3. Fit("add", rest)
    BY <1>2, <1>3 DEF Fit
  <2>4. HeldAt(pc[p], run[p]) = HeldAt("add", rest)
    BY <1>3, <1>5 DEF ClaimMonbox, HeldAt
  <2>5. CurrentJob(p) \in HeldAt("add", rest)
    BY <1>2, <1>3, <2>2 DEF HeldAt, CurrentJob
  <2> QED BY <1>1, <1>5, <2>2, <2>3, <2>4, <2>5, PatchHolding DEF ClaimMonbox
<1> QED BY <1>4, <1>5

LEMMA CommitOInv ==
    ASSUME OInv, Inv', faults' = 0, NEW p \in Procs,
           \/ \E repo \in Repos, at \in MonboxLabels,
                 l \in {"push_backend", "push_agent"} : DownloadConfig(p, repo, at, l)
           \/ CommitBackend(p) \/ CommitAgent(p) \/ RunPuppet(p) \/ CheckInit(p)
    PROVE  OInv'
<1>1. /\ topic' = topic /\ status' = status /\ faults = 0
      /\ pc[p] \in MonboxLabels
  BY NoFaultBefore DEF DownloadConfig, CommitBackend, CommitAgent, PushConfig,
                       RunPuppet, CheckInit, amsVars, MonboxLabels
<1>2. CASE \E repo \in Repos, at \in MonboxLabels,
              l \in {"push_backend", "push_agent"} : DownloadConfig(p, repo, at, l)
  <2>1. PICK repo \in Repos, l \in {"push_backend", "push_agent"} :
           Goto(p, l, [run[p] EXCEPT !.yaml_data = git[repo]])
    BY <1>2 DEF DownloadConfig
  <2>2. LET r == [run[p] EXCEPT !.yaml_data = git[repo]]
        IN  /\ r.token = run[p].token
            /\ r.monbox_init_events = run[p].monbox_init_events
    BY Locals DEF OInv, Cycle
  <2> QED BY <1>1, <2>1, <2>2, MonboxKeeps DEF MonboxLabels
<1>3. CASE CommitBackend(p)
  <2>1. PICK c : Goto(p, "download_agent", [run[p] EXCEPT !.backend_commit_status = c])
    BY <1>3 DEF CommitBackend
  <2>2. LET r == [run[p] EXCEPT !.backend_commit_status = c]
        IN  /\ r.token = run[p].token
            /\ r.monbox_init_events = run[p].monbox_init_events
    BY Locals DEF OInv, Cycle
  <2> QED BY <1>1, <2>1, <2>2, MonboxKeeps DEF MonboxLabels
<1>4. CASE CommitAgent(p) \/ RunPuppet(p)
  <2>1. \/ Goto(p, "puppet", run[p]) \/ Goto(p, "check", run[p])
        \/ Goto(p, "fail", [run[p] EXCEPT !.todo = run[p].monbox_init_events])
    BY <1>4 DEF CommitAgent, RunPuppet
  <2> QED BY <1>1, <2>1, MonboxKeeps, MonboxFails DEF MonboxLabels
<1>5. CASE CheckInit(p)
  <2> DEFINE new(n, all, inited) ==
               [run[p] EXCEPT !.checks = n, !.all_tenants_inited = all,
                              !.inited_tenants = inited]
  <2>1. PICK n, all, inited : Goto(p, "check", new(n, all, inited))
    <3>1. PICK lines \in SUBSET (monboxes \cap (BackendHosts \X run[p].new_tenant_entries)) :
             Goto(p, "check", new(run[p].checks + 1,
                                  AllInited(lines, run[p].new_tenant_entries),
                                  {line[2] : line \in lines}))
      BY <1>5, Locals DEF CheckInit, OInv, Cycle
    <3> QED BY <3>1
  <2>2. /\ new(n, all, inited).token = run[p].token
        /\ new(n, all, inited).monbox_init_events = run[p].monbox_init_events
    BY Locals DEF OInv, Cycle
  <2> HIDE DEF new
  <2> QED BY <1>1, <2>1, <2>2, MonboxKeeps DEF MonboxLabels
<1> QED BY <1>2, <1>3, <1>4, <1>5

LEMMA ReportMonboxOInv ==
    ASSUME OInv, Inv', faults' = 0, NEW p \in Procs,
           \/ FetchTokenAgain(p) \/ ReportMonbox(p) \/ ReportFailure(p) \/ EndMonbox(p)
    PROVE  OInv'
<1> DEFINE rest == [run[p] EXCEPT !.todo = Rest(p)]
<1>1. topic' = topic /\ faults = 0 /\ pc[p] \notin Before
  BY NoFaultBefore DEF FetchTokenAgain, ReportMonbox, ReportFailure, EndMonbox,
                       LoopOver, PatchStatus, amsVars, Before
<1>2. run[p].token
  BY <1>1 DEF OInv, Fit
<1>3. rest.todo = run[p].todo \ {Current(p)} /\ rest.token
  BY <1>2, TodoLocals DEF Rest
<1>4. CASE FetchTokenAgain(p)
  <2> DEFINE new == [run[p] EXCEPT !.token = TRUE, !.todo = run[p].monbox_init_events]
  <2>1. Goto(p, "report_monbox", new) /\ status' = status
    BY <1>4, NoFaultBefore DEF FetchTokenAgain
  <2>2. new.token /\ new.todo = run[p].monbox_init_events
    BY Locals DEF OInv, Cycle
  <2>3. Fit("report_monbox", new)
    BY <2>2 DEF Fit
  <2>4. HeldAt(pc[p], run[p]) = HeldAt("report_monbox", new)
    BY <1>4, <2>2 DEF FetchTokenAgain, HeldAt
  <2> HIDE DEF new
  <2> QED BY <1>1, <2>1, <2>3, <2>4, KeepHolding
<1>5. ASSUME NEW l \in {"fail", "report_monbox"}, pc[p] = l, run[p].todo # {},
             NEW s \in {"COMPLETED", "FAILED"},
             PatchStatus(p, CurrentJob(p), s), Goto(p, l, rest)
      PROVE  OInv'
  <2>1. CurrentJob(p) \in Jobs
    BY <1>5, CurrentEvent DEF OInv
  <2>2. Fit(l, rest)
    BY <1>3 DEF Fit
  <2>3. HeldAt(pc[p], run[p]) \subseteq HeldAt(l, rest) \cup {CurrentJob(p)}
    BY <1>3, <1>5 DEF HeldAt, CurrentJob
  <2> HIDE DEF rest
  <2> QED BY <1>1, <1>5, <2>1, <2>2, <2>3, PatchHolding
<1>6. CASE ReportMonbox(p)
  BY <1>5, <1>6 DEF ReportMonbox, InitOutcome
<1>7. CASE ReportFailure(p)
  BY <1>5, <1>7 DEF ReportFailure
<1>8. CASE EndMonbox(p)
  <2>1. HeldAt(pc[p], run[p]) = {} /\ status' = status
    BY <1>8 DEF EndMonbox, LoopOver, HeldAt
  <2> QED BY <1>1, <1>8, <2>1, NewCycleOInv DEF EndMonbox
<1> QED BY <1>4, <1>6, <1>7, <1>8

-------------------------------------------------------------------------------
LEMMA ControlOInv ==
    ASSUME OInv, Inv', Documented, faults' = 0, NEW p \in Procs,
           DaemonStops(p) \/ Raise(p) \/ Crash(p) \/ Start(p)
    PROVE  OInv'
<1>1. ~Raise(p) /\ ~Crash(p)
  BY NoFaultBefore DEF Raise, Crash
<1>2. /\ topic' = topic /\ status' = status /\ faults = 0
      /\ HeldAt(pc[p], run[p]) = {}
  BY <1>1, NoFaultBefore DEF DaemonStops, Start, amsVars, HeldAt
<1> QED BY <1>1, <1>2, NewCycleOInv DEF DaemonStops, Start

\* Steps that leave every process where it is.
LEMMA SteadyOInv ==
    ASSUME OInv, Inv', Documented, faults' = 0,
           \/ \E p \in Procs : Signal(p) \/ TokenExpires(p)
           \/ \E j \in Jobs, s \in Statuses : UpdateStatus(j, s)
    PROVE  OInv'
<1>1. \A p \in Procs : ~TokenExpires(p)
  BY NoFaultBefore DEF TokenExpires
<1>2. topic' = topic /\ pc' = pc /\ run' = run /\ faults = 0
  BY <1>1, NoFaultBefore DEF Signal, UpdateStatus, amsVars
<1>3. \A j \in Jobs : status'[j] = "IN_PROGRESS" => status[j] = "IN_PROGRESS"
  BY <1>1 DEF Signal, UpdateStatus, Documented, OInv, Inv, TypeOK
<1> QED BY <1>2, <1>3 DEF OInv, InHands, HeldAt, Job, Fit, EventPlaybook

LEMMA PublishOInv ==
    ASSUME OInv, Inv', faults' = 0, NEW m \in Messages, Publish(m)
    PROVE  OInv'
<1>1. pc' = pc /\ run' = run /\ faults = 0
  BY NoFaultBefore DEF Publish
<1>2. \A i \in 1..Len(topic) : topic'[i] = topic[i]
  BY DEF Publish, OInv, Inv, TypeOK
<1>3. \A j \in Jobs : status'[j] = "IN_PROGRESS" => status[j] = "IN_PROGRESS"
  BY DEF Publish, OInv, Inv, TypeOK
<1>4. ASSUME NEW p \in Procs
      PROVE  /\ Fit(pc[p], run[p])'
             /\ HeldAt(pc[p], run[p])' = HeldAt(pc[p], run[p])
  <2>1. /\ run[p].todo \in SUBSET Nat /\ run[p].todo \subseteq 1..Len(topic)
        /\ run[p].monbox_init_events \subseteq 1..Len(topic)
    BY Locals DEF OInv, Cycle
  <2>2. pc[p] \in AtEvent => Min(run[p].todo) \in 1..Len(topic)
    BY <2>1, Locals, MinIsMember DEF OInv
  <2>3. \A i \in 1..Len(topic) : Job(i)' = Job(i)
    BY <1>2 DEF Job
  <2>4. Fit(pc[p], run[p])'
    BY <1>1, <1>2, <2>2 DEF OInv, Fit, EventPlaybook, AtEvent
  <2>5. /\ {Job(i) : i \in run[p].todo}' = {Job(i) : i \in run[p].todo}
        /\ {Job(i) : i \in run[p].monbox_init_events}'
               = {Job(i) : i \in run[p].monbox_init_events}
    BY <1>1, <2>1, <2>3
  <2>6. pc[p] \in {"playbook", "report"} =>
            {Job(Min(run[p].todo))}' = {Job(Min(run[p].todo))}
    BY <1>1, <2>2, <1>2 DEF Job, AtEvent
  <2>7. HeldAt(pc[p], run[p])' = HeldAt(pc[p], run[p])
    BY <1>1, <2>5, <2>6 DEF HeldAt
  <2> QED BY <2>4, <2>7
<1> QED BY <1>1, <1>3, <1>4 DEF OInv, InHands

-------------------------------------------------------------------------------
LEMMA InitOInv == Init => OInv
<1> SUFFICES ASSUME Init PROVE OInv
  OBVIOUS
<1>1. \A p \in Procs : pc[p] \in {"idle", "exited"}
  BY DEF Init
<1>2. \A p \in Procs : Fit(pc[p], run[p])
  BY <1>1 DEF Fit, Before
<1>3. InHands
  BY DEF Init, InHands
<1> QED BY <1>2, <1>3, InitInv DEF OInv

LEMMA NextOInv == OInv /\ Documented /\ [Next]_vars => OInv'
<1> SUFFICES ASSUME OInv, Documented, [Next]_vars, faults' = 0
             PROVE  OInv'
  BY NextInv, FaultOInv DEF OInv
<1>1. Inv'
  BY NextInv DEF OInv
<1>2. ASSUME NEW p \in Procs, PlaybookStep(p) PROVE OInv'
  <2>1. CASE RefreshTokens(p, "webapi", "refresh_webapi", "save_webapi")
    BY <1>1, <2>1, TokensOInv DEF TokenTypes
  <2>2. CASE SaveTokens(p, "webapi", "save_webapi", "refresh_ams")
    BY <1>1, <2>2, TokensOInv DEF TokenTypes
  <2>3. CASE RefreshTokens(p, "ams", "refresh_ams", "save_ams")
    BY <1>1, <2>3, TokensOInv DEF TokenTypes
  <2>4. CASE SaveTokens(p, "ams", "save_ams", "events")
    BY <1>1, <2>4, TokensOInv DEF TokenTypes
  <2> QED BY <1>1, <1>2, <2>1, <2>2, <2>3, <2>4, BeginOInv, EventLoopOInv,
             PlaybookOInv, SteadyOInv DEF PlaybookStep
<1>3. ASSUME NEW p \in Procs, MonboxStep(p) PROVE OInv'
  <2>1. CASE DownloadConfig(p, "backend", "add", "push_backend")
    BY <1>1, <2>1, CommitOInv DEF Repos, MonboxLabels
  <2>2. CASE DownloadConfig(p, "agent", "download_agent", "push_agent")
    BY <1>1, <2>2, CommitOInv DEF Repos, MonboxLabels
  <2> QED BY <1>1, <1>3, <2>1, <2>2, AddOInv, CommitOInv, ReportMonboxOInv
          DEF MonboxStep
<1>4. CASE UNCHANGED vars
  BY <1>1, <1>4 DEF vars, OInv, InHands, HeldAt, Job, Fit, EventPlaybook
<1> QED BY <1>1, <1>2, <1>3, <1>4, ControlOInv, SteadyOInv, PublishOInv
        DEF Next, ProcessStep

\* As long as nothing has failed, a job that is IN_PROGRESS is in the hands of a
\* process that will report on it: for every configuration whose playbooks have the
\* documented names, any number of processes racing for the same jobs, stop signals
\* at any time, and operators who set any status but IN_PROGRESS.
THEOREM NoOrphanWithoutFault ==
    ASSUME Documented
    PROVE  Spec => []OrphanedOnlyByFault
<1>1. OInv => OrphanedOnlyByFault
  BY HeldIsHolding DEF OInv, InHands, OrphanedOnlyByFault, Orphaned, Inv, TypeOK
<1>2. OInv /\ [Next]_vars => OInv'
  BY NextOInv
<1> QED BY <1>1, <1>2, InitOInv, PTL DEF Spec

-------------------------------------------------------------------------------
(***************************************************************************)
(* Without a fault no acknowledged event is lost.  An event leaves the     *)
(* lists of the process that pulled it when it is not for this             *)
(* installation or its job is past INITIALISED; that a status, once past   *)
(* it, never comes back makes this true of every process and of events     *)
(* that were delivered to several.                                         *)
(***************************************************************************)
\* No operator initialises a job again.
NoReset == "update" \notin Operator \/ "INITIALISED" \notin OperatorStatuses

Past(s) == s \notin {"NONE", "INITIALISED"}
HeldIn(r) == {Job(i) : i \in r.todo \cup r.monbox_init_events}
Awaited(i) == /\ i <= offset /\ topic[i].form = "event"
              /\ Served(Job(i)) /\ status[Job(i)] = "INITIALISED"
Objects == \A k \in 1..Len(topic) : topic[k].form # "nonobject"

\* What label l and locals r say of the statuses st.
Kept(l, r, st) ==
    /\ l \notin Before => r.token = TRUE
    /\ l \in {"idle", "exited"} => r.todo = {} /\ r.monbox_init_events = {}
    /\ l \in {"playbook", "report"} => Past(st[Job(Min(r.todo))])
    /\ l \in MonboxLabels => r.todo \subseteq r.monbox_init_events
    /\ l \in {"fail", "report_monbox"} =>
           \A i \in r.monbox_init_events \ r.todo : Past(st[Job(i)])

Delivered ==
    /\ offset <= Len(topic)
    /\ \A i \in 1..Len(topic) : topic[i].form = "event" => status[Job(i)] # "NONE"
    /\ Objects => \A i \in 1..Len(topic) :
                      Awaited(i) => \E p \in Procs : Job(i) \in HeldIn(run[p])

AInv == /\ Inv
        /\ faults = 0 => Delivered /\ \A p \in Procs : Kept(pc[p], run[p], status)

-------------------------------------------------------------------------------
LEMMA FaultAInv == ASSUME Inv', faults' # 0 PROVE AInv'
BY DEF AInv

LEMMA FaultlessBefore ==
    ASSUME AInv, faults' = 0, NEW kind
    PROVE  ~Fault(kind) /\ (NoFault => faults = 0)
BY ConfigAssumption DEF AInv, Inv, TypeOK, NoFault, Fault

\* Statuses only go on.
Onwards == \A j \in Jobs : status'[j] = status[j] \/ Past(status'[j])

LEMMA EventJob ==
    ASSUME Inv, NEW i \in 1..Len(topic)
    PROVE  Job(i) \in Jobs /\ topic[i] \in Message
BY ConfigAssumption DEF Inv, TypeOK, Message, Job, Jobs

LEMMA KeptOnwards ==
    ASSUME Inv, NEW q \in Procs, Kept(pc[q], run[q], status), NEW st,
           \A j \in Jobs : st[j] = status[j] \/ Past(st[j])
    PROVE  Kept(pc[q], run[q], st)
<1>1. \A i \in run[q].todo \cup run[q].monbox_init_events : Job(i) \in Jobs
  BY Locals, EventJob
<1>2. pc[q] \in {"playbook", "report"} => Job(Min(run[q].todo)) \in Jobs
  BY Locals, CurrentEvent DEF AtEvent, CurrentJob, Current
<1> QED BY <1>1, <1>2 DEF Kept, MonboxLabels, Past

\* p passes on what it held, but for jobs that are past INITIALISED or not served.
LEMMA HandOn ==
    ASSUME AInv, Inv', faults = 0, NEW p \in Procs, NEW l, NEW r, Goto(p, l, r),
           topic' = topic, offset' = offset, Onwards, Kept(l, r, status'),
           \A j \in HeldIn(run[p]) :
               Served(j) /\ status'[j] = "INITIALISED" => j \in HeldIn(r)
    PROVE  AInv'
<1>1. pc'[p] = l /\ run'[p] = r
  BY DEF AInv, Inv, TypeOK, Goto
<1>2. \A q \in Procs : q # p => pc'[q] = pc[q] /\ run'[q] = run[q]
  BY DEF AInv, Inv, TypeOK, Goto
<1>3. ASSUME NEW q \in Procs PROVE Kept(pc[q], run[q], status)'
  <2>1. CASE q = p
    BY <1>1, <2>1 DEF Kept, MonboxLabels, Past, Job
  <2>2. CASE q # p
    <3>1. Kept(pc[q], run[q], status')
      BY KeptOnwards DEF AInv, Onwards
    <3> QED BY <1>2, <2>2, <3>1 DEF Kept, MonboxLabels, Past, Job
  <2> QED BY <2>1, <2>2
<1>4. ASSUME NEW i \in 1..Len(topic), topic[i].form = "event"
      PROVE  status'[Job(i)] # "NONE"
  BY <1>4, EventJob DEF AInv, Delivered, Onwards, Past
<1>5. ASSUME Objects, NEW i \in 1..Len(topic), i <= offset, topic[i].form = "event",
             Served(Job(i)), status'[Job(i)] = "INITIALISED"
      PROVE  \E q \in Procs : Job(i) \in HeldIn(run'[q])
  <2>1. status[Job(i)] = "INITIALISED"
    BY <1>5, EventJob DEF AInv, Onwards, Past
  <2>2. PICK q \in Procs : Job(i) \in HeldIn(run[q])
    BY <1>5, <2>1 DEF AInv, Delivered, Awaited
  <2>3. CASE q = p
    <3>1. Job(i) \in HeldIn(run'[p])
      BY <1>1, <1>5, <2>2, <2>3
    <3> QED BY <3>1
  <2>4. CASE q # p
    BY <1>2, <2>2, <2>4
  <2> QED BY <2>3, <2>4
<1>6. \A i : Served(Job(i))' <=> Served(Job(i))
  BY DEF Served, Job, MatchesFilter, EventPlaybook
<1>7. Delivered'
  <2>1. offset' <= Len(topic')
    BY DEF AInv, Delivered
  <2>2. (Objects => \A i \in 1..Len(topic) :
            Awaited(i) => \E q \in Procs : Job(i) \in HeldIn(run[q]))'
    BY <1>5, <1>6 DEF Objects, Awaited, HeldIn, Job
  <2> QED BY <1>4, <2>1, <2>2 DEF Delivered, Job
<1> QED BY <1>3, <1>7 DEF AInv

LEMMA Patched ==
    ASSUME AInv, faults' = 0, NEW p \in Procs, run[p].token = TRUE,
           NEW j \in Jobs, NEW s \in {"IN_PROGRESS", "COMPLETED", "FAILED"},
           PatchStatus(p, j, s)
    PROVE  /\ faults = 0 /\ Onwards /\ Past(status'[j])
           /\ \A k \in Jobs : Past(status[k]) => Past(status'[k])
<1>1. faults = 0 /\ status' = [status EXCEPT ![j] = s]
  BY FaultlessBefore DEF PatchStatus
<1>2. status \in [Jobs -> Statuses]
  BY DEF AInv, Inv, TypeOK
<1> QED BY <1>1, <1>2 DEF Onwards, Past

LEMMA SameStatus == ASSUME status' = status PROVE Onwards
BY DEF Onwards

\* A process that holds nothing may begin or end a cycle.
LEMMA EmptyHandOn ==
    ASSUME AInv, Inv', faults = 0, NEW p \in Procs,
           \/ Goto(p, "exited", NewCycle) \/ Goto(p, "idle", NewCycle) \/ EndCycle(p),
           topic' = topic, offset' = offset, status' = status,
           \A j \in HeldIn(run[p]) : Served(j) => status[j] # "INITIALISED"
    PROVE  AInv'
<1>1. \A l \in {"idle", "exited"} : Kept(l, NewCycle, status')
  BY NewCycleType DEF Kept, Before, MonboxLabels
<1> QED BY <1>1, HandOn, SameStatus DEF EndCycle

\* Locals that hold the same events, or more.
LEMMA KeepEvents ==
    ASSUME AInv, Inv', faults = 0, NEW p \in Procs, NEW l, NEW r, Goto(p, l, r),
           topic' = topic, offset' = offset, status' = status, Kept(l, r, status),
           run[p].todo \cup run[p].monbox_init_events \subseteq
               r.todo \cup r.monbox_init_events
    PROVE  AInv'
<1>1. HeldIn(run[p]) \subseteq HeldIn(r)
  BY DEF HeldIn
<1> QED BY <1>1, HandOn, SameStatus

-------------------------------------------------------------------------------
LEMMA ServedMatches ==
    ASSUME NEW i, topic[i].form = "event", Served(Job(i))
    PROVE  MatchesFilter(topic[i])
BY DEF Served, Job, MatchesFilter

\* What is acknowledged by a pull was acknowledged before, is in hand now, or is not
\* for this installation; unless the pull raises.
LEMMA PullAInv ==
    ASSUME AInv, Inv', faults' = 0, NEW p \in Procs, Pull(p)
    PROVE  AInv'
<1> DEFINE ends == {offset + PullMsgs, Len(topic)}
           last == Min(ends)
           matched == {i \in (offset + 1)..last : MatchesFilter(topic[i])}
           new == [NewCycle EXCEPT !.todo = matched, !.restapi_tokens = restSpool]
<1>1. offset \in Nat /\ Len(topic) \in Nat /\ PullMsgs \in Nat
  BY ConfigAssumption DEF AInv, Inv, TypeOK
<1>2. last \in Nat /\ last <= Len(topic)
  <2>1. ends \in SUBSET Nat /\ ends # {} /\ Len(topic) \in ends
    BY <1>1
  <2> HIDE DEF ends
  <2>2. last \in ends /\ \A y \in ends : last <= y
    BY <2>1, MinIsMember
  <2> QED BY <2>1, <2>2
<1>3. /\ topic' = topic /\ status' = status /\ faults = 0 /\ pc[p] = "idle"
      /\ offset' \in {offset, last}
  BY FaultlessBefore DEF Pull, AckedUpTo
<1>4. Objects => ~(\E i \in (offset + 1)..last : topic[i].form = "nonobject")
  BY <1>1, <1>2 DEF Objects
<1>5. PICK l, r : /\ Goto(p, l, r) /\ Kept(l, r, status)
                  /\ Objects => matched \subseteq r.todo
  <2>1. CASE Goto(p, "iam", new)
    <3>1. new.todo = matched /\ Kept("iam", new, status)
      BY DEF NewCycle, Kept, MonboxLabels, Before
    <3> HIDE DEF new, matched
    <3> QED BY <2>1, <3>1
  <2>2. CASE EndCycle(p) /\ (Objects => matched = {})
    <3>1. \A l \in {"idle", "exited"} : Kept(l, NewCycle, status)
      BY NewCycleType DEF Kept, Before, MonboxLabels
    <3> HIDE DEF matched
    <3> QED BY <2>2, <3>1 DEF EndCycle
  <2> QED BY <1>4, <2>1, <2>2 DEF Pull
<1> HIDE DEF ends, new
<1>6. pc'[p] = l /\ run'[p] = r
  BY <1>5 DEF AInv, Inv, TypeOK, Goto
<1>7. \A q \in Procs : q # p => pc'[q] = pc[q] /\ run'[q] = run[q]
  BY <1>5 DEF AInv, Inv, TypeOK, Goto
<1>8. ASSUME NEW q \in Procs PROVE Kept(pc[q], run[q], status)'
  <2>1. Kept(pc'[q], run'[q], status)
    BY <1>3, <1>5, <1>6, <1>7 DEF AInv
  <2> QED BY <1>3, <2>1 DEF Kept, MonboxLabels, Past, Job
<1>9. ASSUME Objects, NEW i \in 1..Len(topic), i <= offset', topic[i].form = "event",
             Served(Job(i)), status[Job(i)] = "INITIALISED"
      PROVE  \E q \in Procs : Job(i) \in HeldIn(run'[q])
  <2>1. CASE i <= offset
    <3>1. PICK q \in Procs : Job(i) \in HeldIn(run[q])
      BY <1>3, <1>9, <2>1 DEF AInv, Delivered, Awaited
    <3>2. q # p
      BY <1>3, <3>1 DEF AInv, Kept, MonboxLabels, HeldIn
    <3> QED BY <1>7, <3>1, <3>2
  <2>2. CASE ~(i <= offset)
    <3>1. i \in matched
      <4>1. i \in (offset + 1)..last
        BY <1>1, <1>2, <1>3, <1>9, <2>2
      <4> QED BY <1>9, <4>1, ServedMatches
    <3>2. Job(i) \in HeldIn(run'[p])
      BY <1>5, <1>6, <1>9, <3>1 DEF HeldIn
    <3> QED BY <3>2
  <2> QED BY <2>1, <2>2
<1>10. \A i : Served(Job(i))' <=> Served(Job(i))
  BY <1>3 DEF Served, Job, MatchesFilter, EventPlaybook
<1>11. Delivered'
  <2>1. offset' <= Len(topic')
    BY <1>2, <1>3 DEF AInv, Delivered
  <2>2. (Objects => \A i \in 1..Len(topic) :
            Awaited(i) => \E q \in Procs : Job(i) \in HeldIn(run[q]))'
    BY <1>3, <1>9, <1>10 DEF Objects, Awaited, HeldIn, Job
  <2>3. (\A i \in 1..Len(topic) : topic[i].form = "event" => status[Job(i)] # "NONE")'
    BY <1>3 DEF AInv, Delivered, Job
  <2> QED BY <2>1, <2>2, <2>3 DEF Delivered
<1> QED BY <1>8, <1>11 DEF AInv

LEMMA TokensAInv ==
    ASSUME AInv, Inv', faults' = 0, NEW p \in Procs,
           \/ FetchToken(p)
           \/ \E t \in TokenTypes, at \in {"refresh_webapi", "refresh_ams"},
                 l \in {"save_webapi", "save_ams"} : RefreshTokens(p, t, at, l)
           \/ \E t \in TokenTypes, at \in {"save_webapi", "save_ams"},
                 l \in {"refresh_ams", "events"} : SaveTokens(p, t, at, l)
    PROVE  AInv'
<1>1. topic' = topic /\ offset' = offset /\ status' = status /\ faults = 0
  BY FaultlessBefore DEF FetchToken, RefreshTokens, SaveTokens, amsVars
<1>2. CASE FetchToken(p)
  <2> DEFINE new == [run[p] EXCEPT !.token = TRUE]
  <2>1. Goto(p, "refresh_webapi", new)
    BY <1>2, FaultlessBefore DEF FetchToken
  <2>2. /\ new.todo = run[p].todo /\ new.token = TRUE
        /\ new.monbox_init_events = run[p].monbox_init_events
    BY Locals DEF AInv, Cycle
  <2> HIDE DEF new
  <2>3. Kept("refresh_webapi", new, status)
    BY <2>2 DEF Kept, MonboxLabels
  <2> QED BY <1>1, <2>1, <2>2, <2>3, KeepEvents
<1>3. ASSUME NEW t \in TokenTypes, NEW at \in {"refresh_webapi", "refresh_ams"},
             NEW l \in {"save_webapi", "save_ams"}, RefreshTokens(p, t, at, l)
      PROVE  AInv'
  <2>1. PICK toks, b : Goto(p, l, [run[p] EXCEPT !.tokens[t] = toks, !.any_refresh = b])
    BY <1>3 DEF RefreshTokens
  <2> DEFINE new == [run[p] EXCEPT !.tokens[t] = toks, !.any_refresh = b]
  <2>2. /\ new.todo = run[p].todo /\ new.token = run[p].token
        /\ new.monbox_init_events = run[p].monbox_init_events
    BY Locals DEF AInv, Cycle
  <2> HIDE DEF new
  <2>3. Kept(l, new, status)
    BY <1>1, <1>3, <2>2 DEF RefreshTokens, AInv, Kept, MonboxLabels, Before
  <2> QED BY <1>1, <2>1, <2>2, <2>3, KeepEvents DEF new
<1>4. ASSUME NEW t \in TokenTypes, NEW at \in {"save_webapi", "save_ams"},
             NEW l \in {"refresh_ams", "events"}, SaveTokens(p, t, at, l)
      PROVE  AInv'
  <2> DEFINE new == [run[p] EXCEPT !.any_refresh = FALSE]
  <2>1. Goto(p, l, new)
    BY <1>4 DEF SaveTokens
  <2>2. /\ new.todo = run[p].todo /\ new.token = run[p].token
        /\ new.monbox_init_events = run[p].monbox_init_events
    BY Locals DEF AInv, Cycle
  <2> HIDE DEF new
  <2>3. Kept(l, new, status)
    BY <1>1, <1>4, <2>2 DEF SaveTokens, AInv, Kept, MonboxLabels, Before
  <2> QED BY <1>1, <2>1, <2>2, <2>3, KeepEvents
<1> QED BY <1>2, <1>3, <1>4

-------------------------------------------------------------------------------
LEMMA ListFields ==
    ASSUME AInv, NEW p \in Procs, NEW S
    PROVE  LET r == [run[p] EXCEPT !.todo = S]
           IN  /\ r.todo = S /\ r.token = run[p].token
               /\ r.monbox_init_events = run[p].monbox_init_events
BY Locals DEF AInv, Cycle

\* An event may be dropped when it is not served or its job is past INITIALISED.
LEMMA DropEvent ==
    ASSUME AInv, Inv', faults = 0, NEW p \in Procs, run[p].token = TRUE,
           Goto(p, "events", [run[p] EXCEPT !.todo = Rest(p)]),
           topic' = topic, offset' = offset, Onwards,
           Served(CurrentJob(p)) => status'[CurrentJob(p)] # "INITIALISED"
    PROVE  AInv'
<1> DEFINE new == [run[p] EXCEPT !.todo = Rest(p)]
<1>1. /\ new.todo = run[p].todo \ {Current(p)} /\ new.token = TRUE
      /\ new.monbox_init_events = run[p].monbox_init_events
  BY ListFields DEF Rest
<1> HIDE DEF new
<1>2. Kept("events", new, status')
  BY <1>1 DEF Kept, MonboxLabels
<1>3. \A j \in HeldIn(run[p]) : j \in HeldIn(new) \/ j = CurrentJob(p)
  BY <1>1 DEF HeldIn, CurrentJob
<1> QED BY <1>2, <1>3, HandOn DEF new

LEMMA SkipAInv ==
    ASSUME AInv, Inv', faults' = 0, NEW p \in Procs, SkipFiltered(p) \/ InvalidPlaybook(p)
    PROVE  AInv'
<1>1. /\ topic' = topic /\ offset' = offset /\ status' = status /\ faults = 0
      /\ pc[p] \in {"events", "playbook"}
      /\ Goto(p, "events", [run[p] EXCEPT !.todo = Rest(p)])
  BY FaultlessBefore DEF SkipFiltered, InvalidPlaybook, amsVars
<1>2. run[p].token = TRUE
  BY <1>1 DEF AInv, Kept, MonboxLabels, Before
<1>3. Served(CurrentJob(p)) => status[CurrentJob(p)] # "INITIALISED"
  <2>1. CASE SkipFiltered(p)
    BY <2>1 DEF SkipFiltered, Served, CurrentJob, Job
  <2>2. CASE InvalidPlaybook(p)
    BY <1>1, <2>2 DEF InvalidPlaybook, AInv, Kept, MonboxLabels, Past, CurrentJob, Current
  <2> QED BY <2>1, <2>2
<1> QED BY <1>1, <1>2, <1>3, DropEvent, SameStatus

LEMMA StatusReadAInv ==
    ASSUME AInv, Inv', faults' = 0, NEW p \in Procs, GetJobStatus(p) \/ RecheckMonbox(p)
    PROVE  AInv'
<1>1. /\ topic' = topic /\ offset' = offset /\ status' = status /\ faults = 0
      /\ pc[p] \in {"events", "recheck"}
  BY FaultlessBefore DEF GetJobStatus, RecheckMonbox, GetStatus, amsVars
<1>2. run[p].token = TRUE
  BY <1>1 DEF AInv, Kept, MonboxLabels, Before
<1>3. \A j, seen : GetStatus(p, j, seen) => seen = status[j]
  BY <1>2, FaultlessBefore DEF GetStatus
<1>4. CASE GetJobStatus(p)
  <2>1. CASE Goto(p, "claim", run[p])
    <3>1. Kept("claim", run[p], status)
      BY <1>2 DEF Kept, MonboxLabels
    <3> QED BY <1>1, <2>1, <3>1, KeepEvents
  <2>2. CASE Goto(p, "recheck", run[p])
    <3>1. Kept("recheck", run[p], status)
      BY <1>2 DEF Kept, MonboxLabels
    <3> QED BY <1>1, <2>2, <3>1, KeepEvents
  <2>3. CASE /\ Goto(p, "events", [run[p] EXCEPT !.todo = Rest(p)])
             /\ status[CurrentJob(p)] # "INITIALISED" \/ ~Served(CurrentJob(p))
    BY <1>1, <1>2, <2>3, DropEvent, SameStatus
  <2> DEFINE name == topic[Current(p)].name
  <2>4. /\ EventPlaybook(name) = "none" /\ name # "INIT_MONITORING_BOX" =>
               ~Served(CurrentJob(p))
    BY DEF Served, CurrentJob, Job
  <2> HIDE DEF name
  <2>5. PICK seen \in Statuses :
          /\ GetStatus(p, CurrentJob(p), seen)
          /\ CASE EventPlaybook(name) # "none" /\ Claimable(seen) -> Goto(p, "claim", run[p])
               [] name = "INIT_MONITORING_BOX" -> Goto(p, "recheck", run[p])
               [] OTHER -> Goto(p, "events", [run[p] EXCEPT !.todo = Rest(p)])
    BY <1>4 DEF GetJobStatus, name
  <2> QED BY <1>3, <2>1, <2>2, <2>3, <2>4, <2>5 DEF Claimable
<1>5. CASE RecheckMonbox(p)
  <2> DEFINE new(queued) == [run[p] EXCEPT !.todo = Rest(p),
                                           !.monbox_init_events = queued]
  <2>1. PICK queued :
           /\ Goto(p, "events", new(queued))
           /\ run[p].monbox_init_events \subseteq queued
           /\ status[CurrentJob(p)] = "INITIALISED" => Current(p) \in queued
    <3>1. PICK seen \in Statuses :
             /\ GetStatus(p, CurrentJob(p), seen)
             /\ Goto(p, "events", new(IF Claimable(seen)
                                      THEN run[p].monbox_init_events \cup {Current(p)}
                                      ELSE run[p].monbox_init_events))
      BY <1>5, Locals DEF RecheckMonbox, AInv, Cycle
    <3> DEFINE now == IF Claimable(seen) THEN run[p].monbox_init_events \cup {Current(p)}
                                         ELSE run[p].monbox_init_events
    <3>2. /\ run[p].monbox_init_events \subseteq now
          /\ status[CurrentJob(p)] = "INITIALISED" => Current(p) \in now
      BY <1>3, <3>1 DEF Claimable
    <3> HIDE DEF new, now
    <3>3. Goto(p, "events", new(now))
      BY <3>1 DEF now
    <3> QED BY <3>2, <3>3
  <2>2. /\ new(queued).todo = run[p].todo \ {Current(p)}
        /\ new(queued).monbox_init_events = queued /\ new(queued).token = TRUE
    BY <1>2, Locals DEF AInv, Cycle, Rest
  <2> HIDE DEF new
  <2>3. Kept("events", new(queued), status')
    BY <2>2 DEF Kept, MonboxLabels
  <2>4. \A j \in HeldIn(run[p]) : status[j] = "INITIALISED" => j \in HeldIn(new(queued))
    BY <2>1, <2>2 DEF HeldIn, CurrentJob
  <2> QED BY <1>1, <2>1, <2>3, <2>4, HandOn, SameStatus
<1> QED BY <1>4, <1>5

LEMMA PlaybookAInv ==
    ASSUME AInv, Inv', faults' = 0, NEW p \in Procs,
           Claim(p) \/ RunPlaybook(p) \/ Report(p)
    PROVE  AInv'
<1>1. topic' = topic /\ offset' = offset /\ pc[p] \in {"claim", "playbook", "report"}
  BY DEF Claim, RunPlaybook, Report, amsVars
<1>2. faults = 0
  BY FaultlessBefore DEF Claim, RunPlaybook, Report, PatchStatus
<1>3. run[p].token = TRUE
  BY <1>1, <1>2 DEF AInv, Kept, Before, MonboxLabels
<1>4. CurrentJob(p) \in Jobs
  BY <1>1, Locals, CurrentEvent DEF AInv, AtEvent
<1>5. CASE Claim(p)
  <2>1. Onwards /\ Past(status'[CurrentJob(p)])
    BY <1>3, <1>4, <1>5, Patched DEF Claim
  <2>2. Kept("playbook", run[p], status')
    BY <1>3, <2>1 DEF Kept, MonboxLabels, CurrentJob, Current
  <2> QED BY <1>1, <1>2, <1>5, <2>1, <2>2, HandOn DEF Claim
<1>6. CASE RunPlaybook(p)
  <2>1. PICK ok : Goto(p, "report", [run[p] EXCEPT !.ok = ok])
    BY <1>6 DEF RunPlaybook
  <2> DEFINE new == [run[p] EXCEPT !.ok = ok]
  <2>2. /\ new.todo = run[p].todo /\ new.token = TRUE
        /\ new.monbox_init_events = run[p].monbox_init_events
    BY <1>3, Locals DEF AInv, Cycle
  <2> HIDE DEF new
  <2>3. Kept("report", new, status)
    BY <1>2, <1>6, <2>2 DEF RunPlaybook, AInv, Kept, MonboxLabels
  <2>4. status' = status
    BY <1>6 DEF RunPlaybook
  <2> QED BY <1>1, <1>2, <2>1, <2>2, <2>3, <2>4, KeepEvents DEF new
<1>7. CASE Report(p)
  <2>1. Onwards /\ Past(status'[CurrentJob(p)])
    BY <1>3, <1>4, <1>7, Patched DEF Report
  <2> QED BY <1>1, <1>2, <1>3, <1>7, <2>1, DropEvent DEF Report, Past
<1> QED BY <1>5, <1>6, <1>7

LEMMA EndEventsAInv ==
    ASSUME AInv, Inv', faults' = 0, NEW p \in Procs, EndEvents(p)
    PROVE  AInv'
<1>1. /\ topic' = topic /\ offset' = offset /\ status' = status /\ faults = 0
      /\ pc[p] = "events" /\ run[p].todo = {}
  BY FaultlessBefore DEF EndEvents, amsVars
<1>2. CASE StartMonboxInit(run[p].monbox_init_events)
  <2> DEFINE new == [run[p] EXCEPT !.todo = run[p].monbox_init_events]
  <2>1. Goto(p, "add", new)
    BY <1>2 DEF EndEvents
  <2>2. /\ new.todo = run[p].monbox_init_events /\ new.token = run[p].token
        /\ new.monbox_init_events = run[p].monbox_init_events
    BY ListFields
  <2> HIDE DEF new
  <2>3. Kept("add", new, status)
    BY <1>1, <2>2 DEF AInv, Kept, Before, MonboxLabels
  <2> QED BY <1>1, <2>1, <2>2, <2>3, KeepEvents
<1>3. CASE ~StartMonboxInit(run[p].monbox_init_events)
  <2>1. IsFiniteSet(run[p].monbox_init_events)
    <3>1. Len(topic) \in Nat
      BY DEF AInv, Inv, TypeOK
    <3>2. IsFiniteSet(1..Len(topic))
      BY <3>1, FS_Interval
    <3> QED BY <3>2, Locals, FS_Subset DEF AInv
  <2>2. run[p].monbox_init_events = {}
    <3>1. Cardinality(run[p].monbox_init_events) \in Nat
      BY <2>1, FS_CardinalityType
    <3>2. Cardinality(run[p].monbox_init_events) = 0
      BY <1>3, <3>1 DEF StartMonboxInit
    <3> QED BY <2>1, <3>2, FS_EmptySet
  <2>3. EndCycle(p) /\ HeldIn(run[p]) = {}
    BY <1>1, <1>3, <2>2 DEF EndEvents, HeldIn
  <2> QED BY <1>1, <2>3, EmptyHandOn
<1> QED BY <1>2, <1>3

-------------------------------------------------------------------------------
\* The queued events stay in hand to the end of the cycle.
LEMMA AddAInv ==
    ASSUME AInv, Inv', faults' = 0, NEW p \in Procs, AddNewTenant(p) \/ ClaimMonbox(p)
    PROVE  AInv'
<1> DEFINE rest == [run[p] EXCEPT !.todo = Rest(p)]
<1>1. /\ topic' = topic /\ offset' = offset /\ pc[p] \in {"add", "add_claim"}
      /\ run[p].todo # {}
  BY Locals DEF AddNewTenant, ClaimMonbox, amsVars, AInv, AtEvent
<1>2. faults = 0
  BY FaultlessBefore DEF AddNewTenant, ClaimMonbox, PatchStatus
<1>3. run[p].token = TRUE /\ run[p].todo \subseteq run[p].monbox_init_events
  BY <1>1, <1>2 DEF AInv, Kept, Before, MonboxLabels
<1>4. /\ rest.todo \subseteq run[p].monbox_init_events /\ rest.token = TRUE
      /\ rest.monbox_init_events = run[p].monbox_init_events
  BY <1>3, ListFields DEF Rest
<1> HIDE DEF rest
<1>5. \A st : Kept("add", rest, st)
  BY <1>4 DEF Kept, MonboxLabels
<1>6. HeldIn(run[p]) \subseteq HeldIn(rest)
  BY <1>3, <1>4 DEF HeldIn
<1>7. CASE AddNewTenant(p)
  <2> DEFINE new == [run[p] EXCEPT
                        !.new_tenant_entries = @ \cup {topic[Current(p)].tenant}]
  <2>1. /\ new.todo = run[p].todo /\ new.token = TRUE
        /\ new.monbox_init_events = run[p].monbox_init_events
    BY <1>3, Locals DEF AInv, Cycle
  <2>2. Goto(p, "add_claim", new) \/ Goto(p, "add", rest)
    BY <1>7 DEF AddNewTenant, rest
  <2>3. status' = status
    BY <1>7 DEF AddNewTenant
  <2> HIDE DEF new
  <2>4. Kept("add_claim", new, status)
    BY <1>3, <2>1 DEF Kept, MonboxLabels
  <2>5. run[p].todo \cup run[p].monbox_init_events
            \subseteq rest.todo \cup rest.monbox_init_events
    BY <1>3, <1>4
  <2> QED BY <1>1, <1>2, <1>5, <2>1, <2>2, <2>3, <2>4, <2>5, KeepEvents
<1>8. CASE ClaimMonbox(p)
  <2>1. CurrentJob(p) \in Jobs
    BY <1>1, CurrentEvent DEF AInv
  <2>2. Onwards
    BY <1>3, <1>8, <2>1, Patched DEF ClaimMonbox
  <2>3. Goto(p, "add", rest)
    BY <1>8 DEF ClaimMonbox, rest
  <2> QED BY <1>1, <1>2, <1>5, <1>6, <2>2, <2>3, HandOn
<1> QED BY <1>7, <1>8

LEMMA MonboxAInv ==
    ASSUME AInv, Inv', faults' = 0, NEW p \in Procs,
           \/ DownloadConfig(p, "backend", "add", "push_backend") \/ CommitBackend(p)
           \/ DownloadConfig(p, "agent", "download_agent", "push_agent") \/ CommitAgent(p)
           \/ RunPuppet(p) \/ CheckInit(p) \/ FetchTokenAgain(p)
    PROVE  AInv'
<1>1. /\ topic' = topic /\ offset' = offset /\ status' = status /\ faults = 0
      /\ pc[p] \in MonboxLabels
  BY FaultlessBefore DEF DownloadConfig, CommitBackend, CommitAgent, PushConfig, RunPuppet,
                         CheckInit, FetchTokenAgain, amsVars, MonboxLabels
<1>2. run[p].token = TRUE
  BY <1>1 DEF AInv, Kept, Before, MonboxLabels
<1>3. run[p].todo \subseteq run[p].monbox_init_events
  BY <1>1 DEF AInv, Kept, MonboxLabels
<1>4. ASSUME NEW l \in {"push_backend", "download_agent", "push_agent", "puppet", "check"},
             NEW r, Goto(p, l, r), r.todo = run[p].todo, r.token = TRUE,
             r.monbox_init_events = run[p].monbox_init_events
      PROVE  AInv'
  <2>1. Kept(l, r, status)
    BY <1>3, <1>4 DEF Kept, MonboxLabels
  <2> QED BY <1>1, <1>4, <2>1, KeepEvents
<1>5. ASSUME NEW repo, NEW at, NEW l \in {"push_backend", "push_agent"},
             DownloadConfig(p, repo, at, l)
      PROVE  AInv'
  <2> DEFINE new == [run[p] EXCEPT !.yaml_data = git[repo]]
  <2>1. /\ new.todo = run[p].todo /\ new.token = TRUE
        /\ new.monbox_init_events = run[p].monbox_init_events
    BY <1>2, Locals DEF AInv, Cycle
  <2>2. Goto(p, l, new)
    BY <1>5 DEF DownloadConfig
  <2> HIDE DEF new
  <2> QED BY <1>4, <2>1, <2>2
<1>6. CASE CommitBackend(p)
  <2>1. PICK c : Goto(p, "download_agent", [run[p] EXCEPT !.backend_commit_status = c])
    BY <1>6 DEF CommitBackend
  <2> DEFINE new == [run[p] EXCEPT !.backend_commit_status = c]
  <2>2. /\ new.todo = run[p].todo /\ new.token = TRUE
        /\ new.monbox_init_events = run[p].monbox_init_events
    BY <1>2, Locals DEF AInv, Cycle
  <2> HIDE DEF new
  <2> QED BY <1>4, <2>1, <2>2 DEF new
<1>7. ASSUME NEW l \in {"fail", "report_monbox"}, NEW r, Goto(p, l, r),
             r.todo = run[p].monbox_init_events, r.token = TRUE,
             r.monbox_init_events = run[p].monbox_init_events
      PROVE  AInv'
  <2>1. Kept(l, r, status)
    BY <1>7 DEF Kept, Before, MonboxLabels
  <2> QED BY <1>1, <1>3, <1>7, <2>1, KeepEvents
<1>8. CASE CommitAgent(p) \/ RunPuppet(p)
  <2> DEFINE new == [run[p] EXCEPT !.todo = run[p].monbox_init_events]
  <2>1. /\ new.todo = run[p].monbox_init_events /\ new.token = TRUE
        /\ new.monbox_init_events = run[p].monbox_init_events
    BY <1>2, ListFields
  <2>2. Goto(p, "puppet", run[p]) \/ Goto(p, "check", run[p]) \/ Goto(p, "fail", new)
    BY <1>8 DEF CommitAgent, RunPuppet
  <2> HIDE DEF new
  <2> QED BY <1>2, <1>4, <1>7, <2>1, <2>2
<1>9. CASE CheckInit(p)
  <2> DEFINE new(n, all, inited) ==
               [run[p] EXCEPT !.checks = n, !.all_tenants_inited = all,
                              !.inited_tenants = inited]
  <2>1. PICK n, all, inited : Goto(p, "check", new(n, all, inited))
    <3>1. PICK lines \in SUBSET (monboxes \cap (BackendHosts \X run[p].new_tenant_entries)) :
             Goto(p, "check", new(run[p].checks + 1,
                                  AllInited(lines, run[p].new_tenant_entries),
                                  {line[2] : line \in lines}))
      BY <1>9, Locals DEF CheckInit, AInv, Cycle
    <3> QED BY <3>1
  <2>2. /\ new(n, all, inited).todo = run[p].todo /\ new(n, all, inited).token = TRUE
        /\ new(n, all, inited).monbox_init_events = run[p].monbox_init_events
    BY <1>2, Locals DEF AInv, Cycle
  <2> HIDE DEF new
  <2> QED BY <1>4, <2>1, <2>2
<1>10. CASE FetchTokenAgain(p)
  <2> DEFINE new == [run[p] EXCEPT !.token = TRUE, !.todo = run[p].monbox_init_events]
  <2>1. Goto(p, "report_monbox", new)
    BY <1>10, FaultlessBefore DEF FetchTokenAgain
  <2>2. /\ new.todo = run[p].monbox_init_events /\ new.token = TRUE
        /\ new.monbox_init_events = run[p].monbox_init_events
    BY Locals DEF AInv, Cycle
  <2> HIDE DEF new
  <2> QED BY <1>7, <2>1, <2>2
<1> QED BY <1>5, <1>6, <1>8, <1>9, <1>10

\* When the last report is out, no queued job is INITIALISED any more.
LEMMA ReportAInv ==
    ASSUME AInv, Inv', faults' = 0, NEW p \in Procs,
           ReportMonbox(p) \/ ReportFailure(p) \/ EndMonbox(p)
    PROVE  AInv'
<1>1. topic' = topic /\ offset' = offset /\ pc[p] \in {"fail", "report_monbox"}
  BY DEF ReportMonbox, ReportFailure, EndMonbox, LoopOver, amsVars
<1>2. faults = 0
  BY FaultlessBefore DEF ReportMonbox, ReportFailure, EndMonbox, PatchStatus
<1>3. /\ run[p].token = TRUE
      /\ \A i \in run[p].monbox_init_events \ run[p].todo : Past(status[Job(i)])
  BY <1>1, <1>2 DEF AInv, Kept, Before, MonboxLabels
<1>4. CASE EndMonbox(p)
  <2>1. \A j \in HeldIn(run[p]) : Past(status[j])
    BY <1>3, <1>4 DEF EndMonbox, LoopOver, HeldIn
  <2>2. status' = status /\ EndCycle(p)
    BY <1>4 DEF EndMonbox
  <2> QED BY <1>1, <1>2, <2>1, <2>2, EmptyHandOn DEF Past
<1>5. ASSUME NEW l \in {"fail", "report_monbox"}, run[p].todo # {},
             NEW s \in {"COMPLETED", "FAILED"}, PatchStatus(p, CurrentJob(p), s),
             Goto(p, l, [run[p] EXCEPT !.todo = Rest(p)])
      PROVE  AInv'
  <2> DEFINE rest == [run[p] EXCEPT !.todo = Rest(p)]
  <2>1. /\ rest.todo = run[p].todo \ {Current(p)} /\ rest.token = TRUE
        /\ rest.monbox_init_events = run[p].monbox_init_events
    BY <1>3, ListFields DEF Rest
  <2> HIDE DEF rest
  <2>2. CurrentJob(p) \in Jobs
    BY <1>5, CurrentEvent DEF AInv
  <2>3. /\ Onwards /\ Past(status'[CurrentJob(p)])
        /\ \A k \in Jobs : Past(status[k]) => Past(status'[k])
    BY <1>3, <1>5, <2>2, Patched
  <2>4. \A i \in rest.monbox_init_events \ rest.todo : Past(status'[Job(i)])
    <3> TAKE i \in rest.monbox_init_events \ rest.todo
    <3>1. Job(i) \in Jobs
      BY <2>1, Locals, EventJob DEF AInv
    <3>2. i = Current(p) \/ i \in run[p].monbox_init_events \ run[p].todo
      BY <2>1
    <3> QED BY <1>3, <2>3, <3>1, <3>2 DEF CurrentJob
  <2>5. Kept(l, rest, status')
    BY <2>1, <2>4 DEF Kept, MonboxLabels
  <2>6. \A j \in HeldIn(run[p]) : j \in HeldIn(rest) \/ j = CurrentJob(p)
    BY <2>1 DEF HeldIn, CurrentJob
  <2> QED BY <1>1, <1>2, <1>5, <2>3, <2>5, <2>6, HandOn DEF rest, Past
<1>6. CASE ReportMonbox(p)
  BY <1>5, <1>6 DEF ReportMonbox, InitOutcome
<1>7. CASE ReportFailure(p)
  BY <1>5, <1>7 DEF ReportFailure
<1> QED BY <1>4, <1>6, <1>7
-------------------------------------------------------------------------------
LEMMA ControlAInv ==
    ASSUME AInv, Inv', faults' = 0, NEW p \in Procs,
           DaemonStops(p) \/ Start(p)
    PROVE  AInv'
<1>1. topic' = topic /\ offset' = offset /\ status' = status /\ faults = 0
  BY FaultlessBefore DEF DaemonStops, Start, amsVars
<1>2. pc[p] \in {"idle", "exited"}
  BY DEF DaemonStops, Start
<1>3. HeldIn(run[p]) = {}
  BY <1>1, <1>2 DEF AInv, Kept, HeldIn
<1> QED BY <1>1, <1>3, EmptyHandOn DEF DaemonStops, Start

\* A stop signal changes nothing here, and an operator only moves a status on.
LEMMA SteadyAInv ==
    ASSUME AInv, Inv', faults = 0, pc' = pc, run' = run,
           topic' = topic, offset' = offset, Onwards
    PROVE  AInv'
<1>1. ASSUME NEW q \in Procs PROVE Kept(pc[q], run[q], status)'
  <2>1. Kept(pc[q], run[q], status')
    BY KeptOnwards DEF AInv, Onwards
  <2> QED BY <2>1 DEF Kept, Past, Job
<1>2. ASSUME NEW i \in 1..Len(topic), topic[i].form = "event"
      PROVE  /\ status'[Job(i)] # "NONE"
             /\ status'[Job(i)] = "INITIALISED" => status[Job(i)] = "INITIALISED"
  BY <1>2, EventJob DEF AInv, Delivered, Onwards, Past
<1>3. \A i : Served(Job(i))' <=> Served(Job(i))
  BY DEF Served, Job, MatchesFilter, EventPlaybook
<1>4. (\A i \in 1..Len(topic) : topic[i].form = "event" => status[Job(i)] # "NONE")'
  BY <1>2 DEF Job
<1>5. (Objects => \A i \in 1..Len(topic) :
          Awaited(i) => \E q \in Procs : Job(i) \in HeldIn(run[q]))'
  BY <1>2, <1>3 DEF AInv, Delivered, Objects, Awaited, HeldIn, Job
<1>6. (offset <= Len(topic))'
  BY DEF AInv, Delivered
<1> QED BY <1>1, <1>4, <1>5, <1>6 DEF AInv, Delivered

LEMMA UpdateOnwards ==
    ASSUME AInv, NoReset, NEW j \in Jobs, NEW s \in Statuses, UpdateStatus(j, s)
    PROVE  Onwards
<1>1. Past(s)
  BY ConfigAssumption DEF NoReset, UpdateStatus, Past
<1> QED BY <1>1 DEF UpdateStatus, Onwards, AInv, Inv, TypeOK

\* What is published is not acknowledged yet; its job is registered.
LEMMA PublishAInv ==
    ASSUME AInv, Inv', faults' = 0, NEW m \in Messages, Publish(m)
    PROVE  AInv'
<1> DEFINE j == <<m.tenant, m.name>>
<1>1. /\ pc' = pc /\ run' = run /\ faults = 0 /\ offset' = offset
      /\ topic' = Append(topic, m) /\ j \in Jobs
  BY FaultlessBefore, ConfigAssumption DEF Publish, Message, Jobs
<1>2. /\ Len(topic) \in Nat /\ Len(topic') = Len(topic) + 1
      /\ topic'[Len(topic) + 1] = m /\ offset \in Nat
      /\ \A i \in 1..Len(topic) : topic'[i] = topic[i]
  BY <1>1 DEF AInv, Inv, TypeOK
<1>3. /\ status' = IF m.form = "event" /\ status[j] = "NONE"
                   THEN [status EXCEPT ![j] = "INITIALISED"] ELSE status
      /\ status \in [Jobs -> Statuses]
  BY DEF Publish, AInv, Inv, TypeOK
<1> HIDE DEF j
<1>4. /\ \A k \in Jobs : status[k] # "NONE" => status'[k] = status[k]
      /\ m.form = "event" => status'[j] # "NONE"
  BY <1>1, <1>3
<1>5. \A i \in 1..Len(topic) : Job(i)' = Job(i) /\ Job(i) \in Jobs
  BY <1>2, EventJob DEF Job, AInv
<1>6. offset <= Len(topic)
  BY <1>1 DEF AInv, Delivered
<1>7. ASSUME NEW i \in 1..Len(topic), topic[i].form = "event"
      PROVE  status[Job(i)] # "NONE" /\ status'[Job(i)] = status[Job(i)]
  BY <1>1, <1>4, <1>5, <1>7 DEF AInv, Delivered
<1>8. (\A i \in 1..Len(topic) : topic[i].form = "event" => status[Job(i)] # "NONE")'
  <2> SUFFICES ASSUME NEW i \in 1..Len(topic'), topic'[i].form = "event"
               PROVE  status'[Job(i)'] # "NONE"
    BY DEF Job
  <2>1. CASE i \in 1..Len(topic)
    BY <1>2, <1>5, <1>7, <2>1
  <2>2. CASE i = Len(topic) + 1
    <3>1. Job(i)' = j
      BY <1>2, <2>2 DEF Job, j
    <3> QED BY <1>2, <1>4, <2>2, <3>1
  <2> QED BY <1>2, <2>1, <2>2
<1>9. \A q \in Procs : HeldIn(run[q])' = HeldIn(run[q])
  <2> TAKE q \in Procs
  <2>1. run[q].todo \cup run[q].monbox_init_events \subseteq 1..Len(topic)
    BY Locals DEF AInv
  <2> QED BY <1>1, <1>5, <2>1 DEF HeldIn
<1>10. (Objects => \A i \in 1..Len(topic) :
           Awaited(i) => \E q \in Procs : Job(i) \in HeldIn(run[q]))'
  <2> SUFFICES ASSUME Objects', NEW i \in 1..Len(topic'), Awaited(i)'
               PROVE  \E q \in Procs : Job(i)' \in HeldIn(run[q])'
    OBVIOUS
  <2>1. i \in 1..Len(topic) /\ Objects
    BY <1>1, <1>2, <1>6 DEF Awaited, Objects
  <2>2. Served(Job(i))' <=> Served(Job(i))
    BY <1>2, <2>1 DEF Served, Job, MatchesFilter, EventPlaybook
  <2>3. Awaited(i)
    <3>1. /\ i <= offset /\ topic[i].form = "event" /\ Served(Job(i))
          /\ status'[Job(i)] = "INITIALISED"
      BY <1>1, <1>2, <1>5, <2>1, <2>2 DEF Awaited
    <3> QED BY <1>7, <2>1, <3>1 DEF Awaited
  <2>4. \E q \in Procs : Job(i) \in HeldIn(run[q])
    BY <1>1, <2>1, <2>3 DEF AInv, Delivered
  <2> QED BY <1>5, <1>9, <2>1, <2>4
<1>11. ASSUME NEW q \in Procs PROVE Kept(pc[q], run[q], status)'
  <2>1. /\ run[q].todo \cup run[q].monbox_init_events \subseteq 1..Len(topic)
        /\ pc[q] \in {"playbook", "report"} => Min(run[q].todo) \in 1..Len(topic)
    BY Locals, MinIsMember DEF AInv, AtEvent, Cycle
  <2>2. \A i \in 1..Len(topic) : Past(status[Job(i)]) => Past(status'[Job(i)'])
    BY <1>3, <1>4, <1>5 DEF Past
  <2>3. Kept(pc[q], run[q], status)
    BY <1>1 DEF AInv
  <2> QED BY <1>1, <2>1, <2>2, <2>3 DEF Kept, Past, Job
<1> QED BY <1>2, <1>6, <1>1, <1>8, <1>10, <1>11 DEF AInv, Delivered

-------------------------------------------------------------------------------
LEMMA InitAInv == Init => AInv
<1> SUFFICES ASSUME Init PROVE AInv
  OBVIOUS
<1>1. \A p \in Procs : pc[p] \in {"idle", "exited"} /\ run[p] = NewCycle
  BY DEF Init
<1>2. NewCycle.todo = {} /\ NewCycle.monbox_init_events = {}
  BY DEF NewCycle
<1>3. \A p \in Procs : Kept(pc[p], run[p], status)
  BY <1>1, <1>2 DEF Kept, Before, MonboxLabels
<1>4. Len(topic) = 0 /\ offset = 0
  BY DEF Init
<1> QED BY <1>3, <1>4, InitInv DEF AInv, Delivered

LEMMA NextAInv == AInv /\ NoReset /\ [Next]_vars => AInv'
<1> SUFFICES ASSUME AInv, NoReset, [Next]_vars, faults' = 0
             PROVE  AInv'
  BY NextInv, FaultAInv DEF AInv
<1>1. Inv'
  BY NextInv DEF AInv
<1>2. \A p \in Procs : /\ ~AmsUnreachable(p) /\ ~PullFails(p) /\ ~TokenExpires(p)
                       /\ ~Raise(p) /\ ~Crash(p)
  BY FaultlessBefore DEF AmsUnreachable, PullFails, TokenExpires, Raise, Crash
<1>3. ASSUME NEW p \in Procs, PlaybookStep(p) PROVE AInv'
  <2>1. CASE \/ RefreshTokens(p, "webapi", "refresh_webapi", "save_webapi")
             \/ SaveTokens(p, "webapi", "save_webapi", "refresh_ams")
             \/ RefreshTokens(p, "ams", "refresh_ams", "save_ams")
             \/ SaveTokens(p, "ams", "save_ams", "events")
    BY <1>1, <2>1, TokensAInv DEF TokenTypes
  <2> QED BY <1>1, <1>2, <1>3, <2>1, PullAInv, TokensAInv, SkipAInv, StatusReadAInv,
             PlaybookAInv, EndEventsAInv DEF PlaybookStep
<1>4. ASSUME NEW p \in Procs, MonboxStep(p) PROVE AInv'
  BY <1>1, <1>4, AddAInv, MonboxAInv, ReportAInv DEF MonboxStep
<1>5. ASSUME NEW p \in Procs, Signal(p) PROVE AInv'
  BY <1>1, <1>5, FaultlessBefore, SteadyAInv, SameStatus DEF Signal, amsVars
<1>6. ASSUME NEW j \in Jobs, NEW s \in Statuses, UpdateStatus(j, s) PROVE AInv'
  BY <1>1, <1>6, FaultlessBefore, SteadyAInv, UpdateOnwards DEF UpdateStatus, amsVars
<1>7. CASE UNCHANGED vars
  BY <1>1, <1>7, SteadyAInv, SameStatus DEF vars
<1> QED BY <1>1, <1>2, <1>3, <1>4, <1>5, <1>6, <1>7, ControlAInv, PublishAInv
        DEF Next, ProcessStep

\* As long as nothing has failed, and nothing that is not an object was published,
\* an event the subscription has acknowledged is in the hands of a process until its
\* job is past INITIALISED: for every configuration, any number of processes that
\* pull from the subscription, stop signals and restarts at any time, and operators
\* who set any status but INITIALISED.
THEOREM AckedInHand ==
    ASSUME NoReset
    PROVE  Spec => []AckedNotLost
<1>1. AInv => AckedNotLost
  BY DEF AInv, Inv, TypeOK, Delivered, Objects, Awaited, HeldIn, InHand, AckedNotLost
<1>2. AInv /\ [Next]_vars => AInv'
  BY NextAInv
<1> QED BY <1>1, <1>2, InitAInv, PTL DEF Spec
===============================================================================

------------------------------- MODULE Extravars -------------------------------
(***************************************************************************)
(* What the playbooks are given and what the hosts end up with: one        *)
(* Ansible object serves all the events of a cycle and keeps the topology  *)
(* overrides of each, the operator's --add-tenants and --remove-tenants    *)
(* replace the tenant of every event, and argo-cpas --only-ansible runs a  *)
(* playbook by itself.  POEM schemas drop the hyphens of tenant names.     *)
(***************************************************************************)
EXTENDS Integers, Sequences

CONSTANTS
    Tenants,
    Schema,     \* by tenant, its tenant_schema_name in POEM
    Keys,       \* the connector_tenant_topo_* keys
    Feed,       \* by tenant, the keys the Web API gives for its token
    RoleKeys,   \* keys that ansible.defaults_file sets
    Manual,     \* tenants with a manual connector token
    Spools,     \* component tokens a run may find: sets of <<tenant, kind>>
    Batches,    \* events a cycle may pull: sequences of <<tenant, kind>>
    Options,    \* what the operator may ask for: [add, remove], {} for neither
    MaxRuns     \* bound on the cycles and --only-ansible runs

Kinds == {"connectors", "poem", "archiver"}
Jobs == Tenants \X Kinds
Option == [add : SUBSET Tenants, remove : SUBSET Tenants]
NoOption == [add |-> {}, remove |-> {}]

ASSUME ExtravarsAssumption ==
    /\ Tenants \cap {"none", "manual", "role"} = {}
    /\ Feed \in [Tenants -> SUBSET Keys] /\ RoleKeys \subseteq Keys
    /\ Manual \subseteq Tenants
    /\ \A s \in Spools : s \subseteq Jobs
    /\ \A b \in Batches : b \in Seq(Jobs)
    /\ Options \subseteq Option
    /\ MaxRuns \in Nat

VARIABLES
    connectors, \* by tenant, its connector configuration on the hosts
    poem,       \* by schema, the tenant whose tokens it has, or "none"
    archiver,   \* tenants of the archiver
    reported,   \* jobs whose status is COMPLETED
    pc,
    connector_tenant_defaults, \* of the Ansible object: where each key comes from
    call,       \* the run in progress
    queue,      \* events of the cycle that are left
    runs,       \* how many runs were started
    cause,      \* history: why a tenant may have the topology of another one
    excused     \* history: jobs that were not carried out as their event asks

hostVars == <<connectors, poem, archiver>>
vars == <<hostVars, reported, pc, connector_tenant_defaults, call, queue, runs,
          cause, excused>>

Source == {"none", "role"} \cup Tenants
Causes == {"batch", "fallback", "shared", "unanswered"}
Entry == [token : {"none", "manual"} \cup Tenants, topology : [Keys -> Source]]
NoEntry == [token |-> "none", topology |-> [k \in Keys |-> "none"]]
Defaults == [k \in Keys |-> IF k \in RoleKeys THEN "role" ELSE "none"]

Overrides == [owner : Source, keys : SUBSET Keys]
NoOverrides == [owner |-> "none", keys |-> {}]

\* only: --only-ansible; tenant: that of the event, or the first of --add-tenants;
\* earlier: tenants whose connector events came before in the cycle.
Call == [only : BOOLEAN, tenant : Source, kind : Kinds, options : Option,
         held : SUBSET Jobs, overrides : Overrides, answered : BOOLEAN,
         earlier : SUBSET Tenants, ok : BOOLEAN]
NoCall == [only |-> FALSE, tenant |-> "none", kind |-> "connectors",
           options |-> NoOption, held |-> {}, overrides |-> NoOverrides,
           answered |-> FALSE, earlier |-> {}, ok |-> FALSE]

Init ==
    /\ connectors = [t \in Tenants |-> NoEntry]
    /\ poem = [s \in {Schema[t] : t \in Tenants} |-> "none"]
    /\ archiver = {} /\ reported = {}
    /\ pc = "idle" /\ connector_tenant_defaults = Defaults
    /\ call = NoCall
    /\ queue = <<>> /\ runs = 0
    /\ cause = [t \in Tenants |-> {}] /\ excused = {}

-------------------------------------------------------------------------------
\* What ansible.run is given: the event's tenant where nothing was asked for.
Added == IF call.only \/ call.options.add # {} THEN call.options.add ELSE {call.tenant}
Removed == call.options.remove
Has(t, kind) == <<t, kind>> \in call.held

\* The process's Ansible object, with what it was called with, is gone.
Discard == connector_tenant_defaults' = Defaults /\ call' = NoCall

StartCycle(batch, options, held) ==
    /\ pc = "idle" /\ runs < MaxRuns
    /\ runs' = runs + 1
    /\ queue' = batch
    /\ call' = [NoCall EXCEPT !.options = options, !.held = held]
    /\ pc' = "events"
    /\ UNCHANGED <<hostVars, reported, connector_tenant_defaults, cause, excused>>

\* --only-ansible: the topology of the first added tenant, none for a removal.
StartOnlyAnsible(kind, options, held) ==
    /\ pc = "idle" /\ runs < MaxRuns
    /\ runs' = runs + 1
    /\ \E first \in IF options.add = {} THEN {"none"} ELSE options.add :
        call' = [NoCall EXCEPT !.only = TRUE, !.tenant = first, !.kind = kind,
                               !.options = options, !.held = held]
    /\ pc' = IF kind = "connectors" /\ options.remove = {} THEN "fetch" ELSE "run"
    /\ UNCHANGED <<hostVars, reported, connector_tenant_defaults, queue, cause, excused>>

\* The next event, its job INITIALISED (again), is claimed.
Claim ==
    /\ pc = "events" /\ queue # <<>>
    /\ LET job == Head(queue)
       IN  /\ reported' = reported \ {job}
           /\ call' = [call EXCEPT !.tenant = job[1], !.kind = job[2],
                                   !.overrides = NoOverrides, !.answered = FALSE,
                                   !.ok = FALSE]
           /\ pc' = IF job[2] = "connectors" THEN "fetch" ELSE "run"
    /\ queue' = Tail(queue)
    /\ UNCHANGED <<hostVars, connector_tenant_defaults, runs, cause, excused>>

EndCycle ==
    /\ pc = "events" /\ queue = <<>>
    /\ pc' = "idle"
    /\ Discard
    /\ UNCHANGED <<hostVars, reported, queue, runs, cause, excused>>

-------------------------------------------------------------------------------
\* find_connector_token for the tenant, else the first found for any other one:
\* whose token asks for the topology.  (Mutant: the first found at once.)
TokenOwnersAny(tenant) ==
    LET holders == {t \in Tenants : Has(t, "connectors")}
    IN  IF holders = {} THEN {"none"} ELSE holders
TokenOwners(tenant) ==
    LET holders == {t \in Tenants : Has(t, "connectors")}
    IN  IF tenant \in holders THEN {tenant}
        ELSE IF holders = {} THEN {"none"} ELSE holders

\* fetch_topology_config.  A request that fails gives no overrides; without a
\* token it is sent, and refused.
FetchTopology ==
    /\ pc = "fetch"
    /\ \E owner \in TokenOwners(call.tenant), fails \in BOOLEAN :
        LET answered == owner # "none" /\ ~fails
        IN  call' = [call EXCEPT
                !.overrides = IF answered THEN [owner |-> owner, keys |-> Feed[owner]]
                                          ELSE NoOverrides,
                !.answered = answered]
    /\ pc' = "run"
    /\ UNCHANGED <<hostVars, reported, connector_tenant_defaults, queue, runs, cause,
                   excused>>

\* The overrides replace what the object has for their keys.  (Mutants: what an
\* earlier event left stays; the other keys are dropped.)
MergedReplaced(defaults, overrides) == [k \in overrides.keys |-> overrides.owner]
MergedOnce(defaults, overrides) ==
    [k \in Keys |-> IF k \in overrides.keys /\ defaults[k] \notin Tenants
                    THEN overrides.owner ELSE defaults[k]]
Merged(defaults, overrides) ==
    [k \in Keys |-> IF k \in overrides.keys THEN overrides.owner ELSE defaults[k]]

\* The token of a tenant's own entry: its component token, else a manual one.
WebapiToken(t) ==
    IF Has(t, "connectors") THEN t ELSE IF t \in Manual THEN "manual" ELSE "none"

HasTokens(t, kind) ==
    IF kind = "connectors" THEN WebapiToken(t) # "none" ELSE Has(t, kind)

\* The tenants a run sets up: a removal empties the connectors' and POEM's list,
\* and tenants without tokens are skipped.  (Mutant: only the list is looked at.)
EntriesUnchecked(kind) ==
    IF kind \in {"connectors", "poem"} /\ Removed # {} THEN {} ELSE Added
Entries(kind) ==
    IF kind \in {"connectors", "poem"} /\ Removed # {} THEN {}
    ELSE {t \in Added : HasTokens(t, kind)}

\* Connectors and POEM refuse to run when every tenant was skipped, and POEM when
\* it was given none.
Refused(kind) ==
    /\ kind \in {"connectors", "poem"}
    /\ Removed = {} /\ Entries(kind) = {}
    /\ kind = "connectors" => Added # {}

-------------------------------------------------------------------------------
\* The roles carry out all of the work or, when the run fails, some of it:
\* setting up comes before removing, and starts from nothing.
SetUpConnectors(topology, ended) ==
    \E added \in SUBSET Entries("connectors"), broken \in SUBSET Entries("connectors"),
       removed \in SUBSET Removed :
        /\ ended => added = Entries("connectors") /\ broken = {} /\ removed = Removed
        /\ added \cap broken = {}
        /\ connectors' = [t \in Tenants |->
                IF t \in removed \cup broken THEN NoEntry
                ELSE IF t \in added THEN [token |-> WebapiToken(t), topology |-> topology]
                ELSE connectors[t]]
        /\ cause' = [t \in Tenants |-> IF t \in added THEN
                {c \in Causes :
                    \/ c = "batch" /\ call.earlier \ {t} # {}
                    \/ c = "fallback" /\ ~Has(t, "connectors")
                    \/ c = "shared" /\ Added # {call.tenant}
                    \/ c = "unanswered" /\ ~call.answered}
                ELSE cause[t]]
    /\ UNCHANGED <<poem, archiver>>

SetUpPoem(ended) ==
    \E added \in SUBSET Entries("poem"), removed \in SUBSET Removed :
        /\ ended => added = Entries("poem") /\ removed = Removed
        /\ poem' \in {p \in [DOMAIN poem -> Tenants \cup {"none"}] :
                \A s \in DOMAIN poem :
                    LET owners == {t \in added : Schema[t] = s}
                    IN  IF \E t \in removed : Schema[t] = s THEN p[s] = "none"
                        ELSE IF owners # {} THEN p[s] \in owners ELSE p[s] = poem[s]}
        /\ UNCHANGED <<connectors, archiver, cause>>

SetUpArchiver(ended) ==
    \E added \in SUBSET Entries("archiver"), removed \in SUBSET Removed :
        /\ ended => added = Entries("archiver") /\ removed = Removed
        /\ archiver' = (archiver \cup added) \ removed
        /\ UNCHANGED <<connectors, poem, cause>>

SetUp(kind, topology, ended) ==
    \/ kind = "connectors" /\ SetUpConnectors(topology, ended)
    \/ kind = "poem" /\ SetUpPoem(ended)
    \/ kind = "archiver" /\ SetUpArchiver(ended)

\* Jobs whose hosts a run may leave otherwise than their own event asked: those of
\* other tenants that it names, those of a tenant with the same POEM schema, and
\* that of an archiver without its token, which is skipped while the run goes on.
Meddled ==
    LET named == Added \cup Removed
        asked == ~call.only /\ call.options = NoOption
    IN  {<<t, call.kind>> : t \in {t \in Tenants :
            \/ t \in named /\ ~asked
            \/ t \in named /\ call.kind = "archiver" /\ ~Has(t, "archiver")
            \/ ~call.only /\ t = call.tenant /\ ~asked
            \/ call.kind = "poem" /\ \E u \in named \ {t} : Schema[u] = Schema[t]}}

\* Ansible.run, which takes over the overrides even if it then refuses to run the
\* playbook; --only-ansible returns with it.
RunPlaybook ==
    LET kind   == call.kind
        merged == Merged(connector_tenant_defaults, call.overrides)
    IN  /\ pc = "run"
        /\ \E ended \in BOOLEAN :
            /\ IF call.only THEN pc' = "idle" /\ Discard
               ELSE /\ pc' = "report"
                    /\ connector_tenant_defaults' =
                            IF kind = "connectors" THEN merged ELSE connector_tenant_defaults
                    /\ call' = [call EXCEPT !.ok = ended, !.earlier =
                            IF kind = "connectors" THEN @ \cup {call.tenant} ELSE @]
            /\ IF Refused(kind)
               THEN ~ended /\ UNCHANGED <<hostVars, cause, excused>>
               ELSE /\ SetUp(kind, merged, ended)
                    /\ excused' = (excused \ {<<call.tenant, kind>>}) \cup Meddled
        /\ UNCHANGED <<reported, queue, runs>>

Report ==
    /\ pc = "report"
    /\ reported' = IF call.ok THEN reported \cup {<<call.tenant, call.kind>>} ELSE reported
    /\ pc' = "events"
    /\ UNCHANGED <<hostVars, connector_tenant_defaults, call, queue, runs, cause, excused>>

Next ==
    \/ \E options \in Options, held \in Spools :
        \/ \E batch \in Batches : StartCycle(batch, options, held)
        \/ \E kind \in Kinds : StartOnlyAnsible(kind, options, held)
    \/ Claim \/ FetchTopology \/ RunPlaybook \/ Report \/ EndCycle

Spec == Init /\ [][Next]_vars

-------------------------------------------------------------------------------
\* Types: every entry on the hosts and every default of the Ansible object has a value
\* for every key of the topology.
TypeOK ==
    /\ connectors \in [Tenants -> Entry]
    /\ poem \in [{Schema[t] : t \in Tenants} -> Tenants \cup {"none"}]
    /\ archiver \subseteq Tenants
    /\ reported \subseteq Jobs /\ excused \subseteq Jobs
    /\ pc \in {"idle", "events", "fetch", "run", "report"}
    /\ connector_tenant_defaults \in [Keys -> Source]
    /\ call \in Call
    /\ runs \in 0..MaxRuns
    /\ cause \in [Tenants -> SUBSET Causes]

Served(t, kind) ==
    CASE kind = "connectors" -> connectors[t].token \in {t, "manual"}
      [] kind = "poem"       -> poem[Schema[t]] = t
      [] kind = "archiver"   -> t \in archiver

\* A COMPLETED job is carried out on the hosts, with its tenant's own tokens, and
\* stays so for as long as no run names the tenant at the operator's request, none
\* names a tenant that shares its POEM schema, and the archiver had its token.
ReportedIsServed == \A j \in reported \ excused : Served(j[1], j[2])

Foreign(t, k) == connectors[t].topology[k] \in Tenants \ {t}

\* A connector has a topology value of another tenant only if another connector
\* event came before in its cycle, it had no Web API token of its own, or the
\* operator configured several tenants at once.
ForeignTopologyHasCause ==
    \A t \in Tenants, k \in Keys :
        Foreign(t, k) => cause[t] \cap {"batch", "fallback", "shared"} # {}

\* What the Web API says of the tenant itself wins over what earlier events left in
\* the Ansible object, if the tenant's own topology was fetched.
OwnFeedWins ==
    \A t \in Tenants, k \in Keys :
        Foreign(t, k) /\ k \in Feed[t] =>
            cause[t] \cap {"fallback", "shared", "unanswered"} # {}
===============================================================================

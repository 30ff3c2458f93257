----------------------------- MODULE ExtravarsProofs -----------------------------
(***************************************************************************)
(* What hosts are given, for any number of tenants and keys, any feeds,    *)
(* token files, batches and options, and any number of runs.               *)
(***************************************************************************)
EXTENDS Extravars, TLAPS

ThisJob == <<call.tenant, call.kind>>

\* The job of an event at work is one of the batch, and not COMPLETED; --only-ansible
\* is about one of the tenants to be added.
Claimed ==
    /\ queue \in Seq(Jobs)
    /\ pc \in {"events", "report"} => call.only = FALSE
    /\ pc \in {"fetch", "run", "report"} /\ call.only = FALSE =>
           call.tenant \in Tenants /\ ThisJob \notin reported
    /\ call.only = TRUE => call.tenant \in call.options.add \cup {"none"}
    /\ pc = "idle" => connector_tenant_defaults = Defaults

\* The overrides are all of the feed of one token, the tenant's own if it has one.
Fetched ==
    pc = "run" =>
        \/ call.overrides = NoOverrides /\ call.answered = FALSE
        \/ /\ call.overrides.owner \in Tenants \cap TokenOwners(call.tenant)
           /\ call.overrides.keys = Feed[call.overrides.owner]

\* A topology value in the Ansible object is that of a tenant with an earlier event, or
\* was fetched on behalf of one that has no token of its own.
LeftBehind ==
    \A k \in Keys : connector_tenant_defaults[k] \in Tenants =>
        \/ connector_tenant_defaults[k] \in call.earlier
        \/ \E e \in call.earlier : ~Has(e, "connectors")

\* A run that succeeded has done the work of its event, unless it was told to do another's.
Fulfilled ==
    pc = "report" /\ call.ok = TRUE /\ ThisJob \notin excused =>
        Served(call.tenant, call.kind)

TypeInv == TypeOK /\ Claimed
CauseInv == Fetched /\ LeftBehind /\ ForeignTopologyHasCause /\ OwnFeedWins
ServiceInv == Fulfilled /\ ReportedIsServed

-------------------------------------------------------------------------------
LEMMA ConstantTypes ==
    /\ "none" \notin Tenants /\ "role" \notin Tenants /\ "manual" \notin Tenants
    /\ Feed \in [Tenants -> SUBSET Keys]
    /\ Options \subseteq Option /\ MaxRuns \in Nat
    /\ \A b \in Batches : b \in Seq(Jobs)
    /\ \A s \in Spools : s \subseteq Jobs
BY ExtravarsAssumption

LEMMA DefaultsTypes ==
    /\ Defaults \in [Keys -> Source] /\ \A k \in Keys : Defaults[k] \notin Tenants
    /\ NoEntry \in Entry /\ \A k \in Keys : NoEntry.topology[k] = "none"
    /\ NoOverrides \in Overrides /\ NoOverrides.keys = {}
BY ConstantTypes DEF Defaults, Source, NoEntry, Entry, NoOverrides, Overrides

LEMMA NoCallTypes ==
    /\ NoCall \in Call /\ NoCall.only = FALSE /\ NoCall.earlier = {}
    /\ NoCall.overrides = NoOverrides /\ NoCall.answered = FALSE /\ NoCall.ok = FALSE
BY DefaultsTypes DEF NoCall, Call, Source, Kinds, NoOption, Option

LEMMA CallTypes ==
    ASSUME TypeOK
    PROVE  /\ call \in Call
           /\ call.tenant \in Source /\ call.kind \in Kinds /\ call.options \in Option
           /\ call.held \in SUBSET Jobs /\ call.overrides \in Overrides
           /\ call.earlier \in SUBSET Tenants
           /\ call.options.add \in SUBSET Tenants /\ Removed \in SUBSET Tenants
BY DEF TypeOK, Call, Option, Removed

\* Whom a run names: tenants, in any case.
LEMMA NamedTypes ==
    ASSUME TypeInv, pc = "run"
    PROVE  Added \in SUBSET Tenants /\ Removed \in SUBSET Tenants
<1>1. CASE call.only = FALSE
  BY <1>1, CallTypes DEF TypeInv, Claimed, Added
<1>2. CASE call.only # FALSE
  <2>1. call.only = TRUE
    BY <1>2, CallTypes DEF TypeInv, Call
  <2> QED BY <2>1, CallTypes DEF TypeInv, Added
<1> QED BY <1>1, <1>2, CallTypes DEF TypeInv

\* What a step of a run does to its call.
LEMMA StartCycleEffect ==
    ASSUME NEW batch \in Batches, NEW options \in Options, NEW held \in Spools,
           StartCycle(batch, options, held)
    PROVE  /\ call' \in Call /\ call'.only = FALSE /\ call'.earlier = {}
           /\ queue' \in Seq(Jobs)
<1>1. options \in Option /\ held \in SUBSET Jobs /\ batch \in Seq(Jobs)
  BY ConstantTypes
<1> QED BY <1>1, NoCallTypes DEF StartCycle, Call

LEMMA StartOnlyAnsibleEffect ==
    ASSUME NEW kind \in Kinds, NEW options \in Options, NEW held \in Spools,
           StartOnlyAnsible(kind, options, held)
    PROVE  /\ call' \in Call /\ call'.only = TRUE /\ call'.earlier = {}
           /\ call'.overrides = NoOverrides /\ call'.answered = FALSE
           /\ call'.tenant \in call'.options.add \cup {"none"}
<1>1. options \in Option /\ held \in SUBSET Jobs
  BY ConstantTypes
<1>2. PICK first \in IF options.add = {} THEN {"none"} ELSE options.add :
        call' = [NoCall EXCEPT !.only = TRUE, !.tenant = first, !.kind = kind,
                               !.options = options, !.held = held]
  BY DEF StartOnlyAnsible
<1>3. first \in Source
  BY <1>1 DEF Option, Source
<1> QED BY <1>1, <1>2, <1>3, NoCallTypes DEF Call

LEMMA ClaimEffect ==
    ASSUME TypeInv, Claim
    PROVE  /\ call' \in Call /\ call'.only = FALSE
           /\ call'.earlier = call.earlier /\ call'.held = call.held
           /\ call'.overrides = NoOverrides /\ call'.answered = FALSE
           /\ call'.tenant \in Tenants
           /\ reported' = reported \ {<<call'.tenant, call'.kind>>}
           /\ queue' \in Seq(Jobs)
<1> DEFINE job == Head(queue)
           next == [call EXCEPT !.tenant = job[1], !.kind = job[2],
                                !.overrides = NoOverrides, !.answered = FALSE,
                                !.ok = FALSE]
<1>1. /\ pc = "events" /\ queue # <<>> /\ call' = next
      /\ reported' = reported \ {job} /\ queue' = Tail(queue)
  BY DEF Claim
<1>2. queue \in Seq(Jobs) /\ call.only = FALSE
  BY <1>1 DEF TypeInv, Claimed
<1>3. job \in Jobs /\ queue' \in Seq(Jobs)
  BY <1>1, <1>2
<1>4. job[1] \in Tenants /\ job[2] \in Kinds /\ job = <<job[1], job[2]>>
  BY <1>3 DEF Jobs
<1> HIDE DEF job
<1>5. /\ next \in Call /\ next.only = FALSE
      /\ next.earlier = call.earlier /\ next.held = call.held
      /\ next.overrides = NoOverrides /\ next.answered = FALSE
      /\ next.tenant = job[1] /\ next.kind = job[2]
  BY <1>2, <1>4, CallTypes, DefaultsTypes DEF TypeInv, Call, Source
<1> QED BY <1>1, <1>3, <1>4, <1>5

LEMMA FetchEffect ==
    ASSUME TypeInv, FetchTopology
    PROVE  /\ call' \in Call /\ call'.only = call.only
           /\ call'.earlier = call.earlier /\ call'.held = call.held
           /\ call'.tenant = call.tenant /\ call'.kind = call.kind
           /\ call'.options = call.options
           /\ \/ call'.overrides = NoOverrides /\ call'.answered = FALSE
              \/ /\ call'.overrides.owner \in Tenants \cap TokenOwners(call.tenant)
                 /\ call'.overrides.keys = Feed[call'.overrides.owner]
<1>1. PICK owner \in TokenOwners(call.tenant), fails \in BOOLEAN :
        call' = [call EXCEPT
            !.overrides = IF owner # "none" /\ ~fails
                          THEN [owner |-> owner, keys |-> Feed[owner]] ELSE NoOverrides,
            !.answered = owner # "none" /\ ~fails]
  BY DEF FetchTopology
<1>2. TokenOwners(call.tenant) \subseteq Tenants \cup {"none"}
  BY DEF TokenOwners
<1>3. CASE owner # "none" /\ ~fails
  <2> DEFINE overrides == [owner |-> owner, keys |-> Feed[owner]]
             next == [call EXCEPT !.overrides = overrides, !.answered = TRUE]
  <2>1. owner \in Tenants /\ Feed[owner] \in SUBSET Keys
    BY <1>2, <1>3, ConstantTypes
  <2>2. /\ overrides \in Overrides /\ overrides.owner = owner
        /\ overrides.keys = Feed[owner]
    BY <2>1 DEF Overrides, Source
  <2> HIDE DEF overrides
  <2>3. call' = next
    BY <1>1, <1>3 DEF overrides
  <2>4. /\ next \in Call /\ next.only = call.only
        /\ next.earlier = call.earlier /\ next.held = call.held
        /\ next.tenant = call.tenant /\ next.kind = call.kind
        /\ next.options = call.options
        /\ next.overrides = overrides
    BY <2>2, CallTypes DEF TypeInv, Call
  <2> HIDE DEF next
  <2> QED BY <2>1, <2>2, <2>3, <2>4
<1>4. CASE ~(owner # "none" /\ ~fails)
  <2> DEFINE next == [call EXCEPT !.overrides = NoOverrides, !.answered = FALSE]
  <2>1. call' = next
    BY <1>1, <1>4
  <2>2. /\ next \in Call /\ next.only = call.only
        /\ next.earlier = call.earlier /\ next.held = call.held
        /\ next.tenant = call.tenant /\ next.kind = call.kind
        /\ next.options = call.options
        /\ next.overrides = NoOverrides /\ next.answered = FALSE
    BY DefaultsTypes, CallTypes DEF TypeInv, Call
  <2> HIDE DEF next
  <2> QED BY <2>1, <2>2
<1> QED BY <1>3, <1>4
LEMMA MergedTypes ==
    ASSUME TypeOK
    PROVE  Merged(connector_tenant_defaults, call.overrides) \in [Keys -> Source]
<1>1. call.overrides.owner \in Source /\ connector_tenant_defaults \in [Keys -> Source]
  BY CallTypes DEF TypeOK, Overrides
<1> QED BY <1>1 DEF Merged

\* What a run of the connectors' playbook leaves: the tenants it sets up have their new
\* entry, with what explains it; the others keep theirs or have none.
LEMMA SetUpConnectorsEffect ==
    ASSUME TypeInv, pc = "run", NEW topology \in [Keys -> Source], NEW ended,
           SetUpConnectors(topology, ended)
    PROVE  /\ connectors' \in [Tenants -> Entry] /\ cause' \in [Tenants -> SUBSET Causes]
           /\ UNCHANGED <<poem, archiver>>
           /\ \A t \in Tenants :
                \/ connectors'[t] = connectors[t] /\ cause'[t] = cause[t]
                \/ t \in Added \cup Removed /\ connectors'[t] = NoEntry
                \/ /\ t \in Entries("connectors")
                   /\ connectors'[t].token = WebapiToken(t)
                   /\ connectors'[t].topology = topology
                   /\ call.earlier \ {t} # {} => "batch" \in cause'[t]
                   /\ ~Has(t, "connectors") => "fallback" \in cause'[t]
                   /\ Added # {call.tenant} => "shared" \in cause'[t]
                   /\ ~call.answered => "unanswered" \in cause'[t]
<1> DEFINE entry(t) == [token |-> WebapiToken(t), topology |-> topology]
           why(t) == {c \in Causes :
                    \/ c = "batch" /\ call.earlier \ {t} # {}
                    \/ c = "fallback" /\ ~Has(t, "connectors")
                    \/ c = "shared" /\ Added # {call.tenant}
                    \/ c = "unanswered" /\ ~call.answered}
<1>1. PICK added \in SUBSET Entries("connectors"), broken \in SUBSET Entries("connectors"),
           removed \in SUBSET Removed :
        /\ ended => added = Entries("connectors") /\ broken = {} /\ removed = Removed
        /\ added \cap broken = {}
        /\ connectors' = [t \in Tenants |->
                IF t \in removed \cup broken THEN NoEntry
                ELSE IF t \in added THEN entry(t) ELSE connectors[t]]
        /\ cause' = [t \in Tenants |-> IF t \in added THEN why(t) ELSE cause[t]]
  BY DEF SetUpConnectors
<1>2. UNCHANGED <<poem, archiver>>
  BY DEF SetUpConnectors
<1>3. \A t \in Tenants : /\ entry(t) \in Entry
                         /\ entry(t).token = WebapiToken(t)
                         /\ entry(t).topology = topology
  BY DEF Entry, WebapiToken
<1>4. \A t : /\ why(t) \in SUBSET Causes
             /\ call.earlier \ {t} # {} => "batch" \in why(t)
             /\ ~Has(t, "connectors") => "fallback" \in why(t)
             /\ Added # {call.tenant} => "shared" \in why(t)
             /\ ~call.answered => "unanswered" \in why(t)
  BY DEF Causes
<1> HIDE DEF entry, why
<1>5. connectors \in [Tenants -> Entry] /\ cause \in [Tenants -> SUBSET Causes]
  BY DEF TypeInv, TypeOK
<1>6. Entries("connectors") \subseteq Added /\ Added \subseteq Tenants
  BY NamedTypes DEF Entries
<1>7. connectors' \in [Tenants -> Entry] /\ cause' \in [Tenants -> SUBSET Causes]
  BY <1>1, <1>3, <1>4, <1>5, DefaultsTypes
<1>8. ASSUME NEW t \in Tenants
      PROVE  \/ connectors'[t] = connectors[t] /\ cause'[t] = cause[t]
             \/ t \in Added \cup Removed /\ connectors'[t] = NoEntry
             \/ /\ t \in Entries("connectors")
                /\ connectors'[t] = entry(t) /\ cause'[t] = why(t)
  <2>1. CASE t \in removed \cup broken
    BY <2>1, <1>1, <1>6
  <2>2. CASE t \notin removed \cup broken /\ t \in added
    BY <2>2, <1>1
  <2>3. CASE t \notin removed \cup broken /\ t \notin added
    BY <2>3, <1>1
  <2> QED BY <2>1, <2>2, <2>3
<1> QED BY <1>2, <1>3, <1>4, <1>7, <1>8

LEMMA SetUpConnectorsEnded ==
    ASSUME TypeInv, pc = "run", NEW topology, NEW ended, ended,
           SetUpConnectors(topology, ended), NEW t \in Entries("connectors") \ Removed
    PROVE  connectors'[t].token = WebapiToken(t)
<1>1. PICK added \in SUBSET Entries("connectors"), broken \in SUBSET Entries("connectors"),
           removed \in SUBSET Removed :
        /\ ended => added = Entries("connectors") /\ broken = {} /\ removed = Removed
        /\ connectors' = [u \in Tenants |->
                IF u \in removed \cup broken THEN NoEntry
                ELSE IF u \in added THEN [token |-> WebapiToken(u), topology |-> topology]
                ELSE connectors[u]]
  BY DEF SetUpConnectors
<1>2. t \in Tenants
  BY NamedTypes DEF Entries
<1> QED BY <1>1, <1>2

\* What it leaves of the schemas and of the archiver.
LEMMA SetUpPoemEffect ==
    ASSUME TypeInv, pc = "run", NEW ended, SetUpPoem(ended)
    PROVE  /\ poem' \in [{Schema[t] : t \in Tenants} -> Tenants \cup {"none"}]
           /\ UNCHANGED <<connectors, archiver, cause>>
           /\ \A t \in Tenants :
                  (\A u \in Added \cup Removed : Schema[u] # Schema[t])
                      => poem'[Schema[t]] = poem[Schema[t]]
           /\ ended => \A t \in Entries("poem") :
                  /\ \A u \in Removed : Schema[u] # Schema[t]
                  /\ \A u \in Added \ {t} : Schema[u] # Schema[t]
                  => poem'[Schema[t]] = t
<1>1. poem \in [{Schema[t] : t \in Tenants} -> Tenants \cup {"none"}]
  BY DEF TypeInv, TypeOK
<1>2. PICK added \in SUBSET Entries("poem"), removed \in SUBSET Removed :
        /\ ended => added = Entries("poem") /\ removed = Removed
        /\ poem' \in {p \in [DOMAIN poem -> Tenants \cup {"none"}] :
                \A s \in DOMAIN poem :
                    LET owners == {t \in added : Schema[t] = s}
                    IN  IF \E t \in removed : Schema[t] = s THEN p[s] = "none"
                        ELSE IF owners # {} THEN p[s] \in owners ELSE p[s] = poem[s]}
        /\ UNCHANGED <<connectors, archiver, cause>>
  BY DEF SetUpPoem
<1>3. Entries("poem") \subseteq Added /\ Added \subseteq Tenants
  BY NamedTypes DEF Entries
<1>4. \A t \in Tenants : Schema[t] \in DOMAIN poem
  BY <1>1
<1>5. poem' \in [{Schema[t] : t \in Tenants} -> Tenants \cup {"none"}]
  BY <1>1, <1>2
<1>6. ASSUME NEW t \in Tenants, \A u \in Added \cup Removed : Schema[u] # Schema[t]
      PROVE  poem'[Schema[t]] = poem[Schema[t]]
  BY <1>2, <1>3, <1>4, <1>6
<1>7. ASSUME ended, NEW t \in Entries("poem"),
             \A u \in Removed : Schema[u] # Schema[t],
             \A u \in Added \ {t} : Schema[u] # Schema[t]
      PROVE  poem'[Schema[t]] = t
  <2>1. Schema[t] \in DOMAIN poem /\ t \in added /\ removed = Removed
    BY <1>2, <1>3, <1>4, <1>7
  <2>2. {u \in added : Schema[u] = Schema[t]} = {t}
    BY <2>1, <1>2, <1>3, <1>7
  <2> QED BY <2>1, <2>2, <1>2, <1>7
<1> QED BY <1>2, <1>5, <1>6, <1>7

LEMMA SetUpArchiverEffect ==
    ASSUME TypeInv, pc = "run", NEW ended, SetUpArchiver(ended)
    PROVE  /\ archiver' \subseteq Tenants /\ UNCHANGED <<connectors, poem, cause>>
           /\ \A t \in Tenants \ (Added \cup Removed) : t \in archiver' <=> t \in archiver
           /\ ended => Entries("archiver") \ Removed \subseteq archiver'
<1>1. PICK added \in SUBSET Entries("archiver"), removed \in SUBSET Removed :
        /\ ended => added = Entries("archiver") /\ removed = Removed
        /\ archiver' = (archiver \cup added) \ removed
        /\ UNCHANGED <<connectors, poem, cause>>
  BY DEF SetUpArchiver
<1>2. Entries("archiver") \subseteq Added /\ Added \subseteq Tenants
  BY NamedTypes DEF Entries
<1> QED BY <1>1, <1>2 DEF TypeInv, TypeOK
-------------------------------------------------------------------------------
MergedNow == Merged(connector_tenant_defaults, call.overrides)

\* Where a run leads: --only-ansible ends with it, a cycle goes on to report.
Returns == /\ call.only = TRUE
           /\ pc' = "idle" /\ connector_tenant_defaults' = Defaults /\ call' = NoCall
GoesOn ==
    /\ call.only = FALSE
    /\ pc' = "report" /\ call' \in Call /\ call'.only = FALSE
    /\ call'.tenant = call.tenant /\ call'.kind = call.kind /\ call'.held = call.held
    /\ \/ /\ call.kind = "connectors" /\ connector_tenant_defaults' = MergedNow
          /\ call'.earlier = call.earlier \cup {call.tenant}
       \/ /\ call.kind # "connectors" /\ call'.earlier = call.earlier
          /\ connector_tenant_defaults' = connector_tenant_defaults

LEMMA RunEffect ==
    ASSUME TypeInv, RunPlaybook
    PROVE  /\ pc = "run" /\ UNCHANGED <<reported, queue, runs>>
           /\ Returns \/ GoesOn
           /\ \/ UNCHANGED <<hostVars, cause, excused>> /\ call'.ok = FALSE
              \/ /\ ~Refused(call.kind)
                 /\ \E ended \in BOOLEAN : /\ SetUp(call.kind, MergedNow, ended)
                                           /\ call'.ok = TRUE => ended
                 /\ excused' = (excused \ {ThisJob}) \cup Meddled
<1>1. pc = "run" /\ UNCHANGED <<reported, queue, runs>>
  BY DEF RunPlaybook
<1> DEFINE earlier == IF call.kind = "connectors" THEN call.earlier \cup {call.tenant}
                                                  ELSE call.earlier
           next(ended) == [call EXCEPT !.ok = ended, !.earlier = earlier]
<1>2. PICK ended \in BOOLEAN :
        /\ IF call.only THEN pc' = "idle" /\ Discard
           ELSE /\ pc' = "report"
                /\ connector_tenant_defaults' =
                        IF call.kind = "connectors" THEN MergedNow
                                                    ELSE connector_tenant_defaults
                /\ call' = next(ended)
        /\ IF Refused(call.kind)
           THEN ~ended /\ UNCHANGED <<hostVars, cause, excused>>
           ELSE /\ SetUp(call.kind, MergedNow, ended)
                /\ excused' = (excused \ {ThisJob}) \cup Meddled
  BY DEF RunPlaybook, MergedNow, ThisJob
<1>3. (Returns \/ GoesOn) /\ (call'.ok = FALSE \/ call'.ok = ended)
  <2>1. CASE call.only = TRUE
    BY <2>1, <1>2, NoCallTypes DEF Returns, Discard
  <2>2. CASE call.only = FALSE
    <3>1. earlier \in SUBSET Tenants
      BY <2>2, <1>1, CallTypes DEF TypeInv, Claimed
    <3> HIDE DEF earlier
    <3>2. /\ next(ended) \in Call /\ next(ended).only = call.only
          /\ next(ended).tenant = call.tenant /\ next(ended).kind = call.kind
          /\ next(ended).held = call.held /\ next(ended).earlier = earlier
          /\ next(ended).ok = ended
      BY <3>1, CallTypes DEF TypeInv, Call
    <3>3. call' = next(ended) /\ pc' = "report"
          /\ connector_tenant_defaults' =
                        IF call.kind = "connectors" THEN MergedNow
                                                    ELSE connector_tenant_defaults
      BY <1>2, <2>2
    <3> HIDE DEF next
    <3> QED BY <2>2, <3>2, <3>3 DEF GoesOn, earlier
  <2>3. call.only \in BOOLEAN
    BY CallTypes DEF TypeInv, Call
  <2> QED BY <2>1, <2>2, <2>3
<1>4. CASE Refused(call.kind)
  <2>1. ended = FALSE /\ UNCHANGED <<hostVars, cause, excused>>
    BY <1>2, <1>4
  <2> QED BY <2>1, <1>1, <1>3
<1>5. CASE ~Refused(call.kind)
  <2>1. /\ SetUp(call.kind, MergedNow, ended)
        /\ excused' = (excused \ {ThisJob}) \cup Meddled
    BY <1>2, <1>5
  <2>2. call'.ok = TRUE => ended
    BY <1>3
  <2> QED BY <2>1, <2>2, <1>1, <1>3, <1>5
<1> QED BY <1>4, <1>5

-------------------------------------------------------------------------------
LEMMA InitTypeInv == Init => TypeInv
<1> SUFFICES ASSUME Init PROVE TypeInv
  OBVIOUS
<1>1. TypeOK
  BY ConstantTypes, DefaultsTypes, NoCallTypes DEF Init, TypeOK
<1>2. Claimed
  BY NoCallTypes DEF Init, Claimed
<1> QED BY <1>1, <1>2 DEF TypeInv

LEMMA RunTypeInv ==
    ASSUME TypeInv, RunPlaybook
    PROVE  TypeInv'
<1>1. pc = "run" /\ UNCHANGED <<reported, queue, runs>> /\ (Returns \/ GoesOn)
  BY RunEffect
<1>2. /\ pc' \in {"idle", "report"} /\ call' \in Call
      /\ connector_tenant_defaults' \in [Keys -> Source]
  BY <1>1, MergedTypes, DefaultsTypes, NoCallTypes
     DEF Returns, GoesOn, MergedNow, TypeInv, TypeOK
<1>3. MergedNow \in [Keys -> Source]
  BY MergedTypes DEF MergedNow, TypeInv
<1>4. /\ connectors' \in [Tenants -> Entry]
      /\ poem' \in [{Schema[t] : t \in Tenants} -> Tenants \cup {"none"}]
      /\ archiver' \subseteq Tenants /\ cause' \in [Tenants -> SUBSET Causes]
      /\ excused' \subseteq Jobs
  <2>1. CASE UNCHANGED <<hostVars, cause, excused>>
    BY <2>1 DEF hostVars, TypeInv, TypeOK
  <2>2. ASSUME NEW ended, SetUp(call.kind, MergedNow, ended)
        PROVE  /\ connectors' \in [Tenants -> Entry]
               /\ poem' \in [{Schema[t] : t \in Tenants} -> Tenants \cup {"none"}]
               /\ archiver' \subseteq Tenants /\ cause' \in [Tenants -> SUBSET Causes]
    <3>1. CASE SetUpConnectors(MergedNow, ended)
      BY <3>1, <1>1, <1>3, SetUpConnectorsEffect DEF TypeInv, TypeOK
    <3>2. CASE SetUpPoem(ended)
      BY <3>2, <1>1, SetUpPoemEffect DEF TypeInv, TypeOK
    <3>3. CASE SetUpArchiver(ended)
      BY <3>3, <1>1, SetUpArchiverEffect DEF TypeInv, TypeOK
    <3> QED BY <2>2, <3>1, <3>2, <3>3 DEF SetUp
  <2>3. Meddled \subseteq Jobs
    BY CallTypes DEF TypeInv, Meddled, Jobs
  <2> QED BY <2>1, <2>2, <2>3, RunEffect DEF TypeInv, TypeOK
<1>5. TypeOK'
  BY <1>1, <1>2, <1>4 DEF TypeInv, TypeOK
<1>6. Claimed'
  <2>1. CASE Returns
    BY <1>1, <2>1, NoCallTypes DEF Returns, TypeInv, Claimed
  <2>2. CASE GoesOn
    BY <1>1, <2>2 DEF GoesOn, TypeInv, Claimed, ThisJob
  <2> QED BY <1>1, <2>1, <2>2
<1> QED BY <1>5, <1>6 DEF TypeInv

LEMMA NextTypeInv ==
    ASSUME TypeInv, [Next]_vars
    PROVE  TypeInv'
<1>0. runs < MaxRuns /\ runs' = runs + 1 => runs' \in 0..MaxRuns
  <2>1. MaxRuns \in Nat /\ runs \in 0..MaxRuns
    BY ConstantTypes DEF TypeInv, TypeOK
  <2> QED BY <2>1
<1>1. ASSUME NEW options \in Options, NEW held \in Spools, NEW batch \in Batches,
             StartCycle(batch, options, held)
      PROVE  TypeInv'
  <2>1. /\ call' \in Call /\ call'.only = FALSE /\ queue' \in Seq(Jobs) /\ pc' = "events"
        /\ runs' \in 0..MaxRuns
        /\ UNCHANGED <<hostVars, reported, connector_tenant_defaults, cause, excused>>
    <3>1. runs < MaxRuns /\ runs' = runs + 1 /\ pc' = "events"
          /\ UNCHANGED <<hostVars, reported, connector_tenant_defaults, cause, excused>>
      BY <1>1 DEF StartCycle
    <3> QED BY <3>1, <1>0, <1>1, StartCycleEffect
  <2> QED BY <2>1 DEF TypeInv, TypeOK, Claimed, hostVars
<1>2. ASSUME NEW options \in Options, NEW held \in Spools, NEW kind \in Kinds,
             StartOnlyAnsible(kind, options, held)
      PROVE  TypeInv'
  <2>1. /\ call' \in Call /\ call'.only = TRUE /\ pc' \in {"fetch", "run"}
        /\ call'.tenant \in call'.options.add \cup {"none"}
        /\ runs' \in 0..MaxRuns
        /\ UNCHANGED <<hostVars, reported, connector_tenant_defaults, queue, cause, excused>>
    <3>1. runs < MaxRuns /\ runs' = runs + 1 /\ pc' \in {"fetch", "run"}
          /\ UNCHANGED <<hostVars, reported, connector_tenant_defaults, queue, cause, excused>>
      BY <1>2 DEF StartOnlyAnsible
    <3> QED BY <3>1, <1>0, <1>2, StartOnlyAnsibleEffect
  <2> QED BY <2>1 DEF TypeInv, TypeOK, Claimed, hostVars
<1>3. CASE Claim
  <2>1. /\ pc' \in {"fetch", "run"}
        /\ UNCHANGED <<hostVars, connector_tenant_defaults, runs, cause, excused>>
    BY <1>3 DEF Claim
  <2> QED BY <1>3, <2>1, ClaimEffect DEF TypeInv, TypeOK, Claimed, ThisJob, hostVars
<1>4. CASE FetchTopology
  <2>1. /\ pc = "fetch" /\ pc' = "run"
        /\ UNCHANGED <<hostVars, reported, connector_tenant_defaults, queue, runs, cause,
                       excused>>
    BY <1>4 DEF FetchTopology
  <2> QED BY <1>4, <2>1, FetchEffect DEF TypeInv, TypeOK, Claimed, ThisJob, hostVars
<1>5. CASE RunPlaybook
  BY <1>5, RunTypeInv
<1>6. CASE Report
  <2>1. /\ pc = "report" /\ pc' = "events"
        /\ reported' \subseteq reported \cup {ThisJob}
        /\ UNCHANGED <<hostVars, connector_tenant_defaults, call, queue, runs, cause, excused>>
    BY <1>6 DEF Report, ThisJob
  <2>2. ThisJob \in Jobs
    BY <2>1, CallTypes DEF TypeInv, Claimed, ThisJob, Jobs
  <2> QED BY <2>1, <2>2 DEF TypeInv, TypeOK, Claimed, hostVars
<1>7. CASE EndCycle
  <2>1. /\ pc' = "idle" /\ connector_tenant_defaults' = Defaults /\ call' = NoCall
        /\ UNCHANGED <<hostVars, reported, queue, runs, cause, excused>>
    BY <1>7 DEF EndCycle, Discard
  <2> QED BY <2>1, NoCallTypes, DefaultsTypes DEF TypeInv, TypeOK, Claimed, hostVars
<1>8. CASE UNCHANGED vars
  BY <1>8 DEF vars, hostVars, TypeInv, TypeOK, Claimed, ThisJob
<1> QED BY <1>1, <1>2, <1>3, <1>4, <1>5, <1>6, <1>7, <1>8 DEF Next

\* Every entry on the hosts and every default of the Ansible object has a value for every
\* key, whatever the runs of Ansible.run that came before did or left half done.
THEOREM ExtravarsTypes == Spec => []TypeOK
<1>1. TypeInv /\ [Next]_vars => TypeInv'
  BY NextTypeInv
<1>2. TypeInv => TypeOK
  BY DEF TypeInv
<1> QED BY InitTypeInv, <1>1, <1>2, PTL DEF Spec

-------------------------------------------------------------------------------
LEMMA InitCauseInv == Init => CauseInv
BY DefaultsTypes, ConstantTypes
   DEF Init, CauseInv, Fetched, LeftBehind, ForeignTopologyHasCause, OwnFeedWins, Foreign,
       Source

\* A topology value that comes with the overrides of a run, and one that was left by an
\* earlier one.
LEMMA MergedValue ==
    ASSUME TypeInv, Fetched, LeftBehind, pc = "run", NEW k \in Keys, MergedNow[k] \in Tenants
    PROVE  \/ /\ MergedNow[k] \in TokenOwners(call.tenant)
              /\ call.overrides.owner = MergedNow[k]
           \/ MergedNow[k] \in call.earlier
           \/ \E e \in call.earlier : ~Has(e, "connectors")
<1>1. MergedNow[k] = IF k \in call.overrides.keys THEN call.overrides.owner
                     ELSE connector_tenant_defaults[k]
  BY DEF MergedNow, Merged
<1>2. CASE k \in call.overrides.keys
  BY <1>1, <1>2, DefaultsTypes DEF Fetched
<1>3. CASE k \notin call.overrides.keys
  BY <1>1, <1>3 DEF LeftBehind
<1> QED BY <1>2, <1>3

LEMMA OwnersFact ==
    ASSUME NEW t, NEW o \in Tenants, o \in TokenOwners(t), o # t
    PROVE  ~(t \in Tenants /\ Has(t, "connectors"))
BY DEF TokenOwners

\* Why a tenant that a run sets up has the topology of another.
LEMMA ForeignCause ==
    ASSUME TypeInv, CauseInv, pc = "run", call.kind = "connectors",
           NEW ended, SetUpConnectors(MergedNow, ended), NEW t \in Tenants, NEW k \in Keys,
           connectors'[t].topology[k] \in Tenants \ {t}
    PROVE  /\ cause'[t] \cap {"batch", "fallback", "shared"} # {}
           /\ k \in Feed[t] => cause'[t] \cap {"fallback", "shared", "unanswered"} # {}
<1>1. MergedNow \in [Keys -> Source]
  BY MergedTypes DEF MergedNow, TypeInv
<1>2. CASE connectors'[t] = connectors[t] /\ cause'[t] = cause[t]
  BY <1>2 DEF CauseInv, ForeignTopologyHasCause, OwnFeedWins, Foreign
<1>3. CASE connectors'[t] = NoEntry
  BY <1>3, DefaultsTypes, ConstantTypes
<1>4. CASE /\ t \in Entries("connectors") /\ connectors'[t].topology = MergedNow
           /\ call.earlier \ {t} # {} => "batch" \in cause'[t]
           /\ ~Has(t, "connectors") => "fallback" \in cause'[t]
           /\ Added # {call.tenant} => "shared" \in cause'[t]
           /\ ~call.answered => "unanswered" \in cause'[t]
  <2> SUFFICES ASSUME Has(t, "connectors"), Added = {call.tenant}
               PROVE  /\ "batch" \in cause'[t]
                      /\ k \in Feed[t] => "unanswered" \in cause'[t]
    BY <1>4
  <2>1. t = call.tenant /\ MergedNow[k] \in Tenants \ {t}
    BY <1>4 DEF Entries
  <2>2. MergedNow[k] \notin TokenOwners(call.tenant)
    BY <2>1, OwnersFact
  <2>3. call.earlier \ {t} # {}
    BY <2>1, <2>2, MergedValue DEF CauseInv
  <2>4. ASSUME k \in Feed[t] PROVE ~call.answered
    <3>1. CASE call.overrides = NoOverrides /\ call.answered = FALSE
      BY <3>1
    <3>2. CASE /\ call.overrides.owner \in Tenants \cap TokenOwners(call.tenant)
               /\ call.overrides.keys = Feed[call.overrides.owner]
      <4>1. call.overrides.owner = t
        BY <2>1, <3>2, OwnersFact
      <4>2. MergedNow[k] = t
        BY <4>1, <3>2, <2>4 DEF MergedNow, Merged
      <4> QED BY <4>2, <2>1
    <3> QED BY <3>1, <3>2 DEF CauseInv, Fetched
  <2> QED BY <1>4, <2>3, <2>4
<1> QED BY <1>1, <1>2, <1>3, <1>4, SetUpConnectorsEffect

LEMMA RunCauseInv ==
    ASSUME TypeInv, CauseInv, RunPlaybook
    PROVE  CauseInv'
<1>1. pc = "run" /\ (Returns \/ GoesOn)
  BY RunEffect
<1>2. Fetched'
  BY <1>1 DEF Fetched, Returns, GoesOn
<1>3. LeftBehind'
  <2>1. CASE Returns
    BY <2>1, DefaultsTypes DEF Returns, LeftBehind
  <2>2. CASE GoesOn /\ call.kind # "connectors"
    BY <2>2 DEF GoesOn, CauseInv, LeftBehind, Has
  <2>3. CASE GoesOn /\ call.kind = "connectors"
    <3>1. /\ connector_tenant_defaults' = MergedNow /\ call'.held = call.held
          /\ call'.earlier = call.earlier \cup {call.tenant}
      BY <2>3 DEF GoesOn
    <3>2. ASSUME NEW k \in Keys, MergedNow[k] \in Tenants
          PROVE  \/ MergedNow[k] \in call'.earlier
                 \/ \E e \in call'.earlier : ~Has(e, "connectors")
      <4>1. call.tenant \in Tenants
        BY <1>1, <2>3 DEF GoesOn, TypeInv, Claimed
      <4>2. CASE MergedNow[k] \in TokenOwners(call.tenant)
        BY <3>1, <3>2, <4>1, <4>2, OwnersFact
      <4> QED BY <1>1, <3>1, <3>2, <4>2, MergedValue DEF CauseInv
    <3> QED BY <3>1, <3>2 DEF LeftBehind, Has
  <2> QED BY <1>1, <2>1, <2>2, <2>3
<1>4. ForeignTopologyHasCause' /\ OwnFeedWins'
  <2>1. CASE connectors' = connectors /\ cause' = cause
    BY <2>1 DEF CauseInv, ForeignTopologyHasCause, OwnFeedWins, Foreign
  <2>2. ASSUME NEW ended, SetUp(call.kind, MergedNow, ended)
        PROVE  ForeignTopologyHasCause' /\ OwnFeedWins'
    <3>1. CASE call.kind = "connectors" /\ SetUpConnectors(MergedNow, ended)
      BY <1>1, <3>1, ForeignCause DEF ForeignTopologyHasCause, OwnFeedWins, Foreign
    <3>2. CASE SetUpPoem(ended)
      BY <1>1, <3>2, <2>1, SetUpPoemEffect
    <3>3. CASE SetUpArchiver(ended)
      BY <1>1, <3>3, <2>1, SetUpArchiverEffect
    <3> QED BY <2>2, <3>1, <3>2, <3>3 DEF SetUp
  <2> QED BY <2>1, <2>2, RunEffect DEF hostVars
<1> QED BY <1>2, <1>3, <1>4 DEF CauseInv

LEMMA NextCauseInv ==
    ASSUME TypeInv, CauseInv, [Next]_vars
    PROVE  CauseInv'
<1> USE DEF CauseInv
<1>1. UNCHANGED <<connectors, cause>> => (ForeignTopologyHasCause /\ OwnFeedWins)'
  BY DEF ForeignTopologyHasCause, OwnFeedWins, Foreign
<1>2. /\ UNCHANGED connector_tenant_defaults
      /\ call'.earlier = call.earlier /\ call'.held = call.held
      => LeftBehind'
  BY DEF LeftBehind, Has
<1>3. connector_tenant_defaults' = Defaults => LeftBehind'
  BY DefaultsTypes DEF LeftBehind
<1>4. pc = "idle" => connector_tenant_defaults = Defaults
  BY DEF TypeInv, Claimed
<1>5. ASSUME NEW options \in Options, NEW held \in Spools, NEW batch \in Batches,
             StartCycle(batch, options, held)
      PROVE  CauseInv'
  BY <1>1, <1>3, <1>4, <1>5 DEF StartCycle, hostVars, Fetched
<1>6. ASSUME NEW options \in Options, NEW held \in Spools, NEW kind \in Kinds,
             StartOnlyAnsible(kind, options, held)
      PROVE  CauseInv'
  <2>1. Fetched'
    BY <1>6, StartOnlyAnsibleEffect DEF Fetched
  <2> QED BY <2>1, <1>1, <1>3, <1>4, <1>6 DEF StartOnlyAnsible, hostVars
<1>7. CASE Claim
  <2>1. Fetched'
    BY <1>7, ClaimEffect DEF Fetched
  <2> QED BY <2>1, <1>1, <1>2, <1>7, ClaimEffect DEF Claim, hostVars
<1>8. CASE FetchTopology
  <2>1. Fetched'
    BY <1>8, FetchEffect DEF Fetched, TokenOwners, Has
  <2> QED BY <2>1, <1>1, <1>2, <1>8, FetchEffect DEF FetchTopology, hostVars
<1>9. CASE RunPlaybook
  BY <1>9, RunCauseInv
<1>10. CASE Report
  BY <1>1, <1>2, <1>10 DEF Report, hostVars, Fetched
<1>11. CASE EndCycle
  BY <1>1, <1>3, <1>11 DEF EndCycle, Discard, hostVars, Fetched
<1>12. CASE UNCHANGED vars
  BY <1>1, <1>2, <1>12 DEF vars, hostVars, Fetched, TokenOwners, Has
<1> QED BY <1>5, <1>6, <1>7, <1>8, <1>9, <1>10, <1>11, <1>12 DEF Next

\* A tenant has the topology of another one for a reason: FetchTopology falls back to any
\* token, Ansible.run keeps the overrides of earlier events, and the operator may have
\* several tenants configured with the overrides of one.
THEOREM ForeignTopologyExplained == Spec => []ForeignTopologyHasCause
<1>1. TypeInv /\ CauseInv /\ [Next]_vars => TypeInv' /\ CauseInv'
  BY NextTypeInv, NextCauseInv
<1>2. CauseInv => ForeignTopologyHasCause
  BY DEF CauseInv
<1> QED BY InitTypeInv, InitCauseInv, <1>1, <1>2, PTL DEF Spec

\* A key of the tenant's own feed has the tenant's value, whatever earlier events left in
\* the Ansible object, if its topology was asked for with its token and answered.
THEOREM OwnTopologyWins == Spec => []OwnFeedWins
<1>1. TypeInv /\ CauseInv /\ [Next]_vars => TypeInv' /\ CauseInv'
  BY NextTypeInv, NextCauseInv
<1>2. CauseInv => OwnFeedWins
  BY DEF CauseInv
<1> QED BY InitTypeInv, InitCauseInv, <1>1, <1>2, PTL DEF Spec

-------------------------------------------------------------------------------
LEMMA InitServiceInv == Init => ServiceInv
BY DEF Init, ServiceInv, Fulfilled, ReportedIsServed

Asked == ~call.only /\ call.options = NoOption

\* A job that a run does not meddle with is its own, or that of a tenant it does not name.
LEMMA NotMeddled ==
    ASSUME TypeInv, pc = "run", NEW t \in Tenants, <<t, call.kind>> \notin Meddled
    PROVE  /\ t \in Added \cup Removed => Asked
           /\ t \in Added /\ call.kind = "archiver" => Has(t, "archiver")
           /\ ~call.only /\ t = call.tenant => Asked
           /\ call.kind = "poem" =>
                  \A u \in (Added \cup Removed) \ {t} : Schema[u] # Schema[t]
BY DEF Meddled, Asked

\* The hosts of a tenant that a run does not name stay as they are.
LEMMA OthersServed ==
    ASSUME TypeInv, pc = "run", NEW ended, SetUp(call.kind, MergedNow, ended),
           NEW t \in Tenants, NEW kind \in Kinds, Served(t, kind),
           kind = call.kind => /\ t \notin Added \cup Removed
                               /\ <<t, kind>> \notin Meddled
    PROVE  Served(t, kind)'
<1>1. MergedNow \in [Keys -> Source]
  BY MergedTypes DEF MergedNow, TypeInv
<1>2. CASE call.kind = "connectors" /\ SetUpConnectors(MergedNow, ended)
  <2>1. kind = "connectors" => connectors'[t] = connectors[t]
    BY <1>1, <1>2, SetUpConnectorsEffect DEF Entries
  <2>2. poem' = poem /\ archiver' = archiver
    BY <1>1, <1>2, SetUpConnectorsEffect
  <2> QED BY <2>1, <2>2 DEF Served, Kinds
<1>3. CASE call.kind = "poem" /\ SetUpPoem(ended)
  <2>1. kind = "poem" => poem'[Schema[t]] = poem[Schema[t]]
    BY <1>3, SetUpPoemEffect, NotMeddled
  <2>2. connectors' = connectors /\ archiver' = archiver
    BY <1>3, SetUpPoemEffect
  <2> QED BY <2>1, <2>2 DEF Served, Kinds
<1>4. CASE call.kind = "archiver" /\ SetUpArchiver(ended)
  <2>1. kind = "archiver" => (t \in archiver' <=> t \in archiver)
    BY <1>4, SetUpArchiverEffect
  <2>2. connectors' = connectors /\ poem' = poem
    BY <1>4, SetUpArchiverEffect
  <2> QED BY <2>1, <2>2 DEF Served, Kinds
<1> QED BY <1>2, <1>3, <1>4 DEF SetUp

\* A run that ends has done the work of its event, unless it meddled with that.
LEMMA OwnServed ==
    ASSUME TypeInv, pc = "run", call.only = FALSE, ~Refused(call.kind),
           NEW ended, ended, SetUp(call.kind, MergedNow, ended), ThisJob \notin Meddled,
           NEW t, t = call.tenant, NEW kind, kind = call.kind
    PROVE  Served(t, kind)'
<1>1. t \in Tenants /\ kind \in Kinds
  BY CallTypes DEF TypeInv, Claimed
<1>2. call.options = NoOption
  BY <1>1, NotMeddled DEF ThisJob, Asked
<1>3. Added = {t} /\ Removed = {}
  BY <1>2 DEF Added, Removed, NoOption
<1>4. MergedNow \in [Keys -> Source]
  BY MergedTypes DEF MergedNow, TypeInv
<1>5. t \in Entries(kind)
  <2>1. CASE kind \in {"connectors", "poem"}
    BY <1>3, <2>1 DEF Refused, Entries
  <2>2. CASE kind = "archiver"
    BY <1>1, <1>3, <2>2, NotMeddled DEF Entries, HasTokens, ThisJob
  <2> QED BY <1>1, <2>1, <2>2 DEF Kinds
<1>6. CASE kind = "connectors" /\ SetUpConnectors(MergedNow, ended)
  <2>1. connectors'[t].token = WebapiToken(t)
    <3>1. t \in Entries("connectors") \ Removed
      BY <1>3, <1>5, <1>6
    <3> QED BY <3>1, <1>6, SetUpConnectorsEnded
  <2>2. WebapiToken(t) \in {t, "manual"}
    BY <1>5, <1>6 DEF Entries, HasTokens, WebapiToken
  <2> QED BY <2>1, <2>2, <1>6 DEF Served
<1>7. CASE kind = "poem" /\ SetUpPoem(ended)
  <2>1. poem'[Schema[t]] = t
    BY <1>3, <1>5, <1>7, SetUpPoemEffect
  <2> QED BY <2>1, <1>7 DEF Served
<1>8. CASE kind = "archiver" /\ SetUpArchiver(ended)
  <2>1. t \in archiver'
    BY <1>3, <1>5, <1>8, SetUpArchiverEffect
  <2> QED BY <2>1, <1>8 DEF Served
<1> QED BY <1>6, <1>7, <1>8 DEF SetUp

LEMMA RunServiceInv ==
    ASSUME TypeInv, ServiceInv, RunPlaybook
    PROVE  ServiceInv'
<1>1. pc = "run" /\ reported' = reported /\ (Returns \/ GoesOn)
  BY RunEffect
<1>2. CASE UNCHANGED <<hostVars, cause, excused>> /\ call'.ok = FALSE
  BY <1>1, <1>2 DEF ServiceInv, Fulfilled, ReportedIsServed, Served, hostVars
<1>3. CASE ~(UNCHANGED <<hostVars, cause, excused>> /\ call'.ok = FALSE)
  <2>1. /\ ~Refused(call.kind)
        /\ excused' = (excused \ {ThisJob}) \cup Meddled
    BY <1>3, RunEffect
  <2>2. PICK ended \in BOOLEAN : /\ SetUp(call.kind, MergedNow, ended)
                                 /\ call'.ok = TRUE => ended
    BY <1>3, RunEffect
  <2>3. Fulfilled'
    <3>1. CASE Returns
      BY <3>1 DEF Returns, Fulfilled
    <3>2. CASE GoesOn
      <4> SUFFICES ASSUME call'.ok = TRUE, ThisJob \notin excused'
                   PROVE  \A t, kind : t = call.tenant /\ kind = call.kind
                                            => Served(t, kind)'
        BY <3>2 DEF GoesOn, Fulfilled, ThisJob, Served
      <4>1. ThisJob \notin Meddled /\ call.only = FALSE
        BY <3>2, <2>1 DEF GoesOn
      <4> QED BY <4>1, <1>1, <2>1, <2>2, OwnServed
    <3> QED BY <1>1, <3>1, <3>2
  <2>4. ASSUME NEW j \in reported' \ excused' PROVE Served(j[1], j[2])'
    <3>1. j \in reported /\ j \notin Meddled
      BY <1>1, <2>1
    <3>2. j[1] \in Tenants /\ j[2] \in Kinds /\ j = <<j[1], j[2]>>
      BY <3>1 DEF TypeInv, TypeOK, Jobs
    <3>3. j # ThisJob
      <4>1. CASE call.only = FALSE
        BY <1>1, <3>1, <4>1 DEF TypeInv, Claimed
      <4>2. CASE call.only # FALSE
        <5>1. call.only = TRUE /\ Added = call.options.add
          BY <4>2, CallTypes DEF TypeInv, Call, Added
        <5>2. ASSUME j = ThisJob PROVE j[1] \in Added
          BY <5>1, <5>2, <3>2, ConstantTypes DEF ThisJob, TypeInv, Claimed
        <5> QED BY <5>1, <5>2, <1>1, <3>1, <3>2, NotMeddled DEF Asked, ThisJob
      <4> QED BY <4>1, <4>2
    <3>4. Served(j[1], j[2])
      BY <1>1, <2>1, <3>3 DEF ServiceInv, ReportedIsServed
    <3>5. j[2] = call.kind => j[1] \notin Added \cup Removed
      <4> SUFFICES ASSUME j[2] = call.kind, j[1] \in Added \cup Removed
                   PROVE  FALSE
        OBVIOUS
      <4>1. call.only # TRUE /\ call.options = NoOption
        BY <1>1, <3>1, <3>2, NotMeddled DEF Asked
      <4>2. Added = {call.tenant} /\ Removed = {}
        BY <4>1, CallTypes DEF TypeInv, Call, Added, Removed, NoOption
      <4> QED BY <4>2, <3>2, <3>3 DEF ThisJob
    <3>6. j[2] = call.kind => <<j[1], j[2]>> \notin Meddled
      BY <3>1, <3>2
    <3> QED BY <1>1, <2>2, <3>2, <3>4, <3>5, <3>6, OthersServed
  <2> QED BY <2>3, <2>4 DEF ServiceInv, ReportedIsServed
<1> QED BY <1>2, <1>3
LEMMA NextServiceInv ==
    ASSUME TypeInv, ServiceInv, [Next]_vars
    PROVE  ServiceInv'
<1>1. UNCHANGED <<hostVars, excused>> /\ reported' \subseteq reported
          => ReportedIsServed'
  BY DEF ServiceInv, ReportedIsServed, Served, hostVars
<1>2. pc' # "report" => Fulfilled'
  BY DEF Fulfilled
<1>3. ASSUME NEW options \in Options, NEW held \in Spools, NEW batch \in Batches,
             StartCycle(batch, options, held)
      PROVE  ServiceInv'
  BY <1>1, <1>2, <1>3 DEF StartCycle, ServiceInv
<1>4. ASSUME NEW options \in Options, NEW held \in Spools, NEW kind \in Kinds,
             StartOnlyAnsible(kind, options, held)
      PROVE  ServiceInv'
  BY <1>1, <1>2, <1>4 DEF StartOnlyAnsible, ServiceInv
<1>5. CASE Claim
  <2>1. pc' # "report" /\ UNCHANGED <<hostVars, excused>>
    BY <1>5 DEF Claim
  <2> QED BY <1>1, <1>2, <1>5, <2>1, ClaimEffect DEF ServiceInv
<1>6. CASE FetchTopology
  BY <1>1, <1>2, <1>6 DEF FetchTopology, ServiceInv
<1>7. CASE RunPlaybook
  BY <1>7, RunServiceInv
<1>8. CASE Report
  <2>1. /\ pc = "report" /\ pc' = "events" /\ UNCHANGED <<hostVars, excused>>
        /\ reported' = IF call.ok THEN reported \cup {ThisJob} ELSE reported
    BY <1>8 DEF Report, ThisJob
  <2>2. call.ok \in BOOLEAN /\ call.tenant \in Tenants
    BY <2>1 DEF TypeInv, TypeOK, Call, Claimed
  <2>3. CASE call.ok = TRUE
    <3>1. ThisJob[1] = call.tenant /\ ThisJob[2] = call.kind
      BY DEF ThisJob
    <3>2. ASSUME NEW j \in reported' \ excused' PROVE Served(j[1], j[2])
      BY <2>1, <2>3, <3>1 DEF ServiceInv, Fulfilled, ReportedIsServed
    <3> QED BY <1>2, <2>1, <3>2 DEF ServiceInv, ReportedIsServed, Served, hostVars
  <2>4. CASE call.ok = FALSE
    BY <1>1, <1>2, <2>1, <2>4 DEF ServiceInv
  <2> QED BY <2>2, <2>3, <2>4
<1>9. CASE EndCycle
  BY <1>1, <1>2, <1>9 DEF EndCycle, ServiceInv
<1>10. CASE UNCHANGED vars
  <2>1. Fulfilled'
    BY <1>10 DEF vars, hostVars, ServiceInv, Fulfilled, ThisJob, Served
  <2> QED BY <2>1, <1>1, <1>10 DEF vars, ServiceInv
<1> QED BY <1>3, <1>4, <1>5, <1>6, <1>7, <1>8, <1>9, <1>10 DEF Next

\* COMPLETED means that the hosts serve the tenant with its own tokens, for every job
\* that no run has meddled with: what the statuses reported by Application.run are worth.
THEOREM CompletedIsServed == Spec => []ReportedIsServed
<1>1. TypeInv /\ ServiceInv /\ [Next]_vars => TypeInv' /\ ServiceInv'
  BY NextTypeInv, NextServiceInv
<1>2. ServiceInv => ReportedIsServed
  BY DEF ServiceInv
<1> QED BY InitTypeInv, InitServiceInv, <1>1, <1>2, PTL DEF Spec
===============================================================================

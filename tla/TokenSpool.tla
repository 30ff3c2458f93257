------------------------------- MODULE TokenSpool -------------------------------
(***************************************************************************)
(* The token spool files under several processes: ComponentTokens (the     *)
(* files of the Web API and of AMS, whose services issue the tokens) and   *)
(* RestAPITokens (whose tokens are generated here).  A session on a file   *)
(* is: load it, obtain the tokens that it lacks, overwrite it, and deploy  *)
(* tokens to the hosts, which keep them until the next deployment.         *)
(***************************************************************************)
EXTENDS Integers, FiniteSets

CONSTANTS
    Procs, Tenants,
    Spools,             \* the spool files: "webapi", "ams", "restapi"
    Components,         \* by spool, the components that have a token in it
    MonboxComponents,   \* those whose tokens go to the monitoring boxes
    Sessions,           \* what processes may be started to do
    MaxSessions,        \* bound on the sessions
    Faults,             \* kinds of fault that may happen
    MaxFaults           \* bound on their number

Keys == UNION {Tenants \X Components[s] : s \in Spools}
KeysOf(tenants, s) == tenants \X Components[s]

\* The newest token of a key is the one that counts how many were issued for it.
Absent == -1
Empty  == 0             \* an answer without "api_key" is stored as ""
MaxTokens == 2 * MaxSessions
Token  == Absent..MaxTokens
Modes  == {"pipeline", "refresh_only", "only_ansible"}

ASSUME TokenSpoolAssumption ==
    /\ Spools # {} /\ Components \in [Spools -> SUBSET STRING]
    /\ \A s, z \in Spools : s # z => Components[s] \cap Components[z] = {}
    /\ Sessions \subseteq [spool : Spools, mode : Modes, tenants : SUBSET Tenants]
    /\ \A z \in Sessions : z.spool = "restapi" => z.mode # "refresh_only"
    /\ MaxSessions \in Nat /\ MaxFaults \in Nat

VARIABLES
    file,       \* what a load of the spool file gives
    server,     \* the newest token issued, the only one the service accepts
    host,       \* the token deployed by the playbooks
    monbox,     \* the token pushed to the monitoring boxes
    pc, run, sessions, faults,
    disturbed,  \* history: files whose sessions overlapped or were cut in a save
    condemned   \* history: keys whose saved token was not accepted at rest

vars == <<file, server, host, monbox, pc, run, sessions, faults, disturbed, condemned>>
hostVars == <<host, monbox>>
historyVars == <<disturbed, condemned>>

Session == [spool : Spools, mode : Modes, tenants : SUBSET Tenants,
            todo : SUBSET Keys, tokens : [Keys -> Token], snapshot : [Keys -> Token],
            any_refresh : BOOLEAN]
None == [k \in Keys |-> Absent]
NoSession == [spool |-> CHOOSE s \in Spools : TRUE, mode |-> "pipeline",
              tenants |-> {}, todo |-> {}, tokens |-> None, snapshot |-> None,
              any_refresh |-> FALSE]
Busy(p, s) == pc[p] \in {"refresh", "write"} /\ run[p].spool = s
Stale(k) == file[k] > Empty /\ file[k] # server[k]

Goto(p, l, r) == /\ pc'  = [pc  EXCEPT ![p] = l]
                 /\ run' = [run EXCEPT ![p] = r]
NoFault == faults' = faults
Fault(kind) == kind \in Faults /\ faults < MaxFaults /\ faults' = faults + 1

Disturb(s) == disturbed' = disturbed \cup {s}
              /\ condemned' = {k \in condemned : k[2] \notin Components[s]}
Calm == UNCHANGED historyVars

Init ==
    /\ file = None /\ server = [k \in Keys |-> 0]
    /\ host = None /\ monbox = None
    /\ pc = [p \in Procs |-> "idle"]
    /\ run = [p \in Procs |-> NoSession]
    /\ sessions = 0 /\ faults = 0 /\ disturbed = {} /\ condemned = {}

-------------------------------------------------------------------------------
\* A token that is there is never asked for again.  (Mutants: every token is; the
\* tenants are listed, not the tokens.)
LackingAll(tokens, keys) == keys
LackingTenants(tokens, keys) == {k[1] : k \in {j \in keys : tokens[j] <= Empty}}
Lacking(tokens, keys) == {k \in keys : tokens[k] <= Empty}

\* A cycle, argo-cpas --only-webapi or --only-ams ("refresh_only"), or argo-cpas
\* --only-ansible, which takes the component tokens as they are.
Refreshes(r) == r.mode # "only_ansible" \/ r.spool = "restapi"

\* A cycle reads the REST-API tokens for the monitoring boxes when it begins.
Begin(p, z) ==
    /\ pc[p] = "idle" /\ sessions < MaxSessions
    /\ sessions' = sessions + 1
    /\ Goto(p, "load", [NoSession EXCEPT
            !.spool = z.spool, !.mode = z.mode, !.tenants = z.tenants,
            !.snapshot = IF z.spool = "restapi" THEN file ELSE None])
    /\ NoFault
    /\ UNCHANGED <<file, server, hostVars, historyVars>>

\* load_tokens; a file that cannot be read or parsed is no file.
Load(p) ==
    LET s == run[p].spool
    IN  /\ pc[p] = "load"
        /\ \E loaded \in {file, None} :
            /\ \/ loaded = file /\ NoFault
                  /\ IF \E q \in Procs : Busy(q, s) THEN Disturb(s) ELSE Calm
               \/ loaded # file /\ Fault("unreadable") /\ Disturb(s)
            /\ Goto(p, "refresh", [run[p] EXCEPT
                    !.tokens = loaded,
                    !.todo = IF Refreshes(run[p])
                             THEN Lacking(loaded, KeysOf(run[p].tenants, s)) ELSE {}])
        /\ UNCHANGED <<file, server, hostVars, sessions>>

\* One request issued n tokens for k, of which the last but "late" is answered.
Obtain(p, k, n, late) ==
    /\ server' = [server EXCEPT ![k] = @ + n]
    /\ Goto(p, "refresh", [run[p] EXCEPT !.todo = @ \ {k}, !.any_refresh = TRUE,
                                         !.tokens[k] = server[k] + n - late])

Generate(p, k) ==
    /\ run[p].spool = "restapi" /\ NoFault /\ Obtain(p, k, 1, 0) /\ Calm

\* The request is answered, at once or after an attempt that got lost; or that
\* attempt is served only after the answer.
Refresh(p, k) ==
    /\ run[p].spool # "restapi"
    /\ \/ NoFault /\ Obtain(p, k, 1, 0) /\ Calm
       \/ Fault("retried") /\ Obtain(p, k, 2, 0) /\ Calm
       \/ Fault("late") /\ Obtain(p, k, 2, 1) /\ Disturb(run[p].spool)

\* The answer has no "api_key", or the request ends in a ClientError.
RefreshGivesNothing(p, k) ==
    /\ run[p].spool # "restapi"
    /\ \E issued \in {0, 1} : server' = [server EXCEPT ![k] = @ + issued]
    /\ \/ /\ Fault("empty")
          /\ Goto(p, "refresh", [run[p] EXCEPT !.todo = @ \ {k}, !.any_refresh = TRUE,
                                               !.tokens[k] = Empty])
       \/ /\ Fault("client")
          /\ Goto(p, "refresh", [run[p] EXCEPT !.todo = @ \ {k}])
    /\ Calm

ObtainOne(p) ==
    /\ pc[p] = "refresh"
    /\ \E k \in run[p].todo : Generate(p, k) \/ Refresh(p, k) \/ RefreshGivesNothing(p, k)
    /\ UNCHANGED <<file, hostVars, sessions>>

\* The session is over.  The keys whose saved token is not accepted, with nobody
\* at work on the file, are those that no later session will see to.
Leave(p) ==
    /\ Goto(p, "idle", NoSession)
    /\ condemned' = IF \E q \in Procs \ {p} : pc[q] # "idle" THEN condemned
                    ELSE condemned \cup {k \in Keys : Stale(k)}

\* TimeoutError, or any other exception, leaves without saving.
RefreshRaises(p) ==
    /\ pc[p] = "refresh" /\ run[p].spool # "restapi"
    /\ Fault("exception")
    /\ \E k \in run[p].todo, issued \in {0, 1} :
        server' = [server EXCEPT ![k] = @ + issued]
    /\ Leave(p)
    /\ UNCHANGED <<file, hostVars, sessions, disturbed>>

-------------------------------------------------------------------------------
\* save_tokens: open(path, "w") empties the file ...
Truncate(p) ==
    /\ pc[p] = "refresh" /\ run[p].todo = {}
    /\ IF run[p].any_refresh
       THEN /\ file' = [k \in Keys |-> IF k[2] \in Components[run[p].spool]
                                       THEN Absent ELSE file[k]]
            /\ Goto(p, "write", run[p])
       ELSE /\ file' = file
            /\ Goto(p, "deploy", run[p])
    /\ NoFault
    /\ UNCHANGED <<server, hostVars, sessions, historyVars>>

\* ... and json.dump fills it with what was loaded and obtained.  (Mutant: with the
\* tenants of this session alone.)
WrittenOfSession(r) == [k \in Keys |-> IF k[1] \in r.tenants THEN r.tokens[k] ELSE Absent]
Written(r) == r.tokens

Write(p) ==
    /\ pc[p] = "write"
    /\ file' = [k \in Keys |-> IF k[2] \in Components[run[p].spool]
                               THEN Written(run[p])[k] ELSE file[k]]
    /\ Goto(p, "deploy", run[p])
    /\ NoFault
    /\ UNCHANGED <<server, hostVars, sessions, historyVars>>

\* The playbooks deploy what is in memory and truthy.
Deploy(p) ==
    /\ pc[p] = "deploy"
    /\ host' = [k \in Keys |->
                   IF /\ run[p].mode # "refresh_only"
                      /\ k \in KeysOf(run[p].tenants, run[p].spool)
                      /\ k[2] \notin MonboxComponents \/ run[p].spool = "restapi"
                      /\ run[p].tokens[k] > Empty
                   THEN run[p].tokens[k] ELSE host[k]]
    /\ Goto(p, "monbox", run[p])
    /\ NoFault
    /\ UNCHANGED <<file, server, monbox, sessions, historyVars>>

\* add_new_tenant reads the component tokens from the file again, and takes a
\* REST-API token from what the cycle loaded first; it asks whether there is one,
\* not whether it is empty.
MonboxSource(p) == IF run[p].spool = "restapi" THEN run[p].snapshot ELSE file
DeployMonbox(p) ==
    /\ pc[p] = "monbox"
    /\ monbox' = [k \in Keys |->
                     IF /\ run[p].mode = "pipeline"
                        /\ k \in KeysOf(run[p].tenants, run[p].spool)
                        /\ k[2] \in MonboxComponents
                        /\ MonboxSource(p)[k] # Absent
                     THEN MonboxSource(p)[k] ELSE monbox[k]]
    /\ Leave(p)
    /\ NoFault
    /\ UNCHANGED <<file, server, host, sessions, disturbed>>

\* A process that is killed between truncation and write leaves an empty file.
Crash(p) ==
    /\ pc[p] # "idle"
    /\ Fault("crash")
    /\ Goto(p, "idle", NoSession)
    /\ IF pc[p] = "write" THEN Disturb(run[p].spool) ELSE Calm
    /\ UNCHANGED <<file, server, hostVars, sessions>>

Next ==
    \E p \in Procs :
        \/ \E z \in Sessions : Begin(p, z)
        \/ Load(p) \/ ObtainOne(p) \/ RefreshRaises(p)
        \/ Truncate(p) \/ Write(p) \/ Deploy(p) \/ DeployMonbox(p) \/ Crash(p)

Spec == Init /\ [][Next]_vars

-------------------------------------------------------------------------------
\* Types: what is obtained are tokens of the file's components for the session's tenants.
TypeOK ==
    /\ file \in [Keys -> Token] /\ server \in [Keys -> 0..MaxTokens]
    /\ host \in [Keys -> Token] /\ monbox \in [Keys -> Token]
    /\ pc \in [Procs -> {"idle", "load", "refresh", "write", "deploy", "monbox"}]
    /\ run \in [Procs -> Session]
    /\ sessions \in 0..MaxSessions /\ faults \in 0..MaxFaults
    /\ disturbed \subseteq Spools /\ condemned \subseteq Keys

\* As long as no two sessions on a file overlap, no save of it is cut short, it can
\* be read and the requests are served in order, every token in it is the one the
\* service accepts, whatever requests fail, repeat or are given up.
Undisturbed(k) == \A s \in disturbed : k[2] \notin Components[s]
SavedIsAccepted ==
    \A k \in Keys : Undisturbed(k) /\ file[k] > Empty => file[k] = server[k]

\* ... and no refresh ever invalidates a token that a host or a monitoring box has
\* been given: what is deployed is accepted.
DeployedIsAccepted ==
    \A k \in Keys : Undisturbed(k) =>
        /\ host[k] # Absent => host[k] = server[k]
        /\ monbox[k] > Empty => monbox[k] = server[k]

\* A saved token that the service does not accept, once everybody is at rest, is
\* not replaced: sessions take any token for a good one, until the file is lost.
StaleIsKept == \A k \in condemned : file[k] # server[k]
===============================================================================

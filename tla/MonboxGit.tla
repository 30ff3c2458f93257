------------------------------- MODULE MonboxGit -------------------------------
(***************************************************************************)
(* The two configuration branches of the monitoring boxes under            *)
(* commit_new_tenants (a pipeline cycle, or argo-cpas --only-monbox-git)   *)
(* and remove_tenant (--only-monbox-git --delete-tenant), run by several   *)
(* processes.  Each branch is cloned to read the file, changed in memory,  *)
(* and pushed on top of a second, later fetch.                             *)
(***************************************************************************)
EXTENDS Integers, FiniteSets

CONSTANTS
    Procs,          \* processes that work on the branches
    Tenants,
    Requests,       \* what they may be asked: [op, tenants]
    Configured,     \* tenants in both branches at the start
    MaxOperations,  \* bound on the requests
    Faults,         \* "clone", "push", "crash"
    MaxFaults       \* bound on their number

Repos == {"backend", "agent"}
Request == [op : {"add", "delete"}, tenants : SUBSET Tenants]
NoRequest == [op |-> "none", tenants |-> {}]

ASSUME MonboxGitAssumption ==
    /\ Requests \subseteq Request
    /\ \A r \in Requests : r.op = "delete" => Cardinality(r.tenants) = 1
    /\ Configured \subseteq Tenants
    /\ MaxOperations \in Nat /\ MaxFaults \in Nat

VARIABLES
    git,        \* by branch, its tip: a revision and the tenants in the file
    pc, run,    \* where each process is, and its locals
    operations, \* how many requests were made
    faults,     \* how many faults happened
    overlapped, \* history: two requests were ever in progress at once
    clobbers,   \* history: pushes that overwrote what they had not read
    stranded    \* history: tenants left half removed when everybody was idle

vars == <<git, pc, run, operations, faults, overlapped, clobbers, stranded>>
historyVars == <<overlapped, clobbers, stranded>>

Operation == [request : Requests \cup {NoRequest}, repo : Repos,
              seen : SUBSET Tenants,          \* the file that was cloned
              base : 0..(2 * MaxOperations),  \* the revision that was fetched
              backend_commit_status : BOOLEAN]

NoOperation == [request |-> NoRequest, repo |-> "backend", seen |-> {}, base |-> 0,
                backend_commit_status |-> FALSE]

Idle == \A p \in Procs : pc[p] = "idle"
HalfRemoved(t) == t \in git["agent"].tenants \ git["backend"].tenants

Goto(p, l, r) == /\ pc'  = [pc  EXCEPT ![p] = l]
                 /\ run' = [run EXCEPT ![p] = r]

NoFault == faults' = faults
Fault(kind) == kind \in Faults /\ faults < MaxFaults /\ faults' = faults + 1

Init ==
    /\ git = [r \in Repos |-> [rev |-> 0, tenants |-> Configured]]
    /\ pc = [p \in Procs |-> "idle"]
    /\ run = [p \in Procs |-> NoOperation]
    /\ operations = 0 /\ faults = 0
    /\ overlapped = FALSE /\ clobbers = 0 /\ stranded = {}

-------------------------------------------------------------------------------
Start(p, r) ==
    /\ pc[p] = "idle" /\ operations < MaxOperations
    /\ Goto(p, "download", [NoOperation EXCEPT !.request = r])
    /\ operations' = operations + 1
    /\ overlapped' = (overlapped \/ ~Idle)
    /\ stranded' = IF r.op = "add" THEN stranded \ r.tenants ELSE stranded
    /\ NoFault
    /\ UNCHANGED <<git, clobbers>>

\* A deletion gives up on a branch that does not have the tenant.  (Mutant: it
\* goes on, as the pop with a default would let it.)
DeletableAlways(request, content) == TRUE
Deletable(request, content) == request.op = "delete" => request.tenants \subseteq content

\* _get_sensu_backend_config_yaml, _get_sensu_agent_config_yaml: a shallow clone.
Download(p) ==
    LET content == git[run[p].repo].tenants
    IN  /\ pc[p] = "download"
        /\ IF Deletable(run[p].request, content)
           THEN Goto(p, "fetch", [run[p] EXCEPT !.seen = content])
           ELSE Goto(p, "failure", run[p])
        /\ NoFault
        /\ UNCHANGED <<git, operations, historyVars>>

\* CalledProcessError leaves the operation, whatever is pushed already.
DownloadFails(p) ==
    /\ pc[p] = "download"
    /\ Fault("clone")
    /\ Goto(p, "failure", run[p])
    /\ UNCHANGED <<git, operations, historyVars>>

\* _commit_file_to_git_repo fetches the branch again.
Fetch(p) ==
    /\ pc[p] = "fetch"
    /\ Goto(p, "push", [run[p] EXCEPT !.base = git[run[p].repo].rev])
    /\ NoFault
    /\ UNCHANGED <<git, operations, historyVars>>

\* The file that was read, with the tenants added or removed.  (Mutant: the agent
\* file is written with the new tenants alone.)
NewContentReplaced(repo, request, seen) ==
    IF request.op = "delete" THEN seen \ request.tenants
    ELSE IF repo = "agent" THEN request.tenants ELSE seen \cup request.tenants
NewContent(repo, request, seen) ==
    IF request.op = "delete" THEN seen \ request.tenants ELSE seen \cup request.tenants

\* (Mutant: the agent's status is not asked.)
CommitSuccessBackend(backend, agent) == backend
CommitSuccess(backend, agent) == backend /\ agent

\* How an operation ends.  (Mutant: a word no caller knows.)
OutcomeDone(success) == IF success THEN "done" ELSE "failure"
Outcome(success) == IF success THEN "success" ELSE "failure"

\* An addition goes on with the agent branch whatever became of the backend
\* branch; a deletion raises.
AfterCommit(p, committed) ==
    IF run[p].repo = "backend"
    THEN IF run[p].request.op = "add" \/ committed
         THEN Goto(p, "download", [run[p] EXCEPT !.repo = "agent",
                                                 !.backend_commit_status = committed])
         ELSE Goto(p, "failure", run[p])
    ELSE Goto(p, Outcome(CommitSuccess(run[p].backend_commit_status, committed)), run[p])

\* The remote takes a push only on top of the revision it was made from; the
\* commit is made, and counts, also when the file has not changed.
Accepted(p) == run[p].base = git[run[p].repo].rev
Apply(p) ==
    LET repo == run[p].repo
    IN  /\ Accepted(p)
        /\ git' = [git EXCEPT ![repo] =
                    [rev |-> @.rev + 1,
                     tenants |-> NewContent(repo, run[p].request, run[p].seen)]]
        /\ clobbers' = IF run[p].seen = git[repo].tenants THEN clobbers ELSE clobbers + 1
Reject == UNCHANGED <<git, clobbers>>

Push(p) ==
    /\ pc[p] = "push"
    /\ IF Accepted(p) THEN Apply(p) ELSE Reject
    /\ AfterCommit(p, Accepted(p))
    /\ NoFault
    /\ UNCHANGED <<operations, overlapped, stranded>>

\* Any exception is an unsuccessful commit, also one after the push went through.
PushFails(p) ==
    /\ pc[p] \in {"fetch", "push"}
    /\ Fault("push")
    /\ Reject \/ (pc[p] = "push" /\ Apply(p))
    /\ AfterCommit(p, FALSE)
    /\ UNCHANGED <<operations, overlapped, stranded>>

-------------------------------------------------------------------------------
Leave(p) ==
    /\ Goto(p, "idle", NoOperation)
    /\ stranded' = IF \A q \in Procs \ {p} : pc[q] = "idle"
                   THEN stranded \cup {t \in Tenants : HalfRemoved(t)} ELSE stranded
    /\ UNCHANGED <<git, operations, overlapped, clobbers>>

\* The operation returned, or its RuntimeError reached the caller.
Return(p) == pc[p] \in {"success", "failure"} /\ NoFault /\ Leave(p)

Crash(p) == pc[p] # "idle" /\ Fault("crash") /\ Leave(p)

Next ==
    \E p \in Procs :
        \/ \E r \in Requests : Start(p, r)
        \/ Download(p) \/ DownloadFails(p) \/ Fetch(p) \/ Push(p) \/ PushFails(p)
        \/ Return(p) \/ Crash(p)

Spec == Init /\ [][Next]_vars

-------------------------------------------------------------------------------
\* Types: an operation ends in a success or a failure, and each request pushes a
\* branch at most once.
TypeOK ==
    /\ git \in [Repos -> [rev : 0..(2 * MaxOperations), tenants : SUBSET Tenants]]
    /\ pc \in [Procs -> {"idle", "download", "fetch", "push", "success", "failure"}]
    /\ run \in [Procs -> Operation]
    /\ operations \in 0..MaxOperations /\ faults \in 0..MaxFaults
    /\ overlapped \in BOOLEAN /\ clobbers \in 0..(2 * MaxOperations)
    /\ stranded \subseteq Tenants

\* An operation that reports success has done its work in both branches: an added
\* tenant is in both, a deleted one in neither, unless another request overlapped.
SuccessIsReal ==
    \A p \in Procs :
        pc[p] = "success" /\ ~overlapped =>
            \A repo \in Repos, t \in run[p].request.tenants :
                t \in git[repo].tenants <=> run[p].request.op = "add"

\* The branches name the same tenants whenever nobody is at work, unless
\* something failed or two requests overlapped.
BranchesAgree ==
    Idle /\ faults = 0 /\ ~overlapped => git["backend"].tenants = git["agent"].tenants

\* A tenant left in the agent branch alone stays there, however often and by how
\* many processes its deletion is retried: remove_tenant gives up on the backend
\* branch, which has the tenant no more.  Only adding it again helps.
HalfRemovedStays == \A t \in stranded : HalfRemoved(t)

Registry == INSTANCE TenantRegistry WITH
    members <- git["backend"].tenants \cap git["agent"].tenants,
    request <- [p \in Procs |-> run[p].request]

\* The tenants in both branches change only as requested, and each push that
\* overwrites what it had not read is accounted for.
ImplementsRegistry == Registry!RegistrySpec
===============================================================================

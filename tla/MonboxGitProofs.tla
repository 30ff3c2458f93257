----------------------------- MODULE MonboxGitProofs -----------------------------
(***************************************************************************)
(* The two configuration branches, for any number of processes, tenants,   *)
(* requests and faults.                                                    *)
(***************************************************************************)
EXTENDS MonboxGit, FiniteSetTheorems, TLAPS

Working(p) == pc[p] \in {"download", "fetch", "push"}
Changing(p) == pc[p] \in {"fetch", "push"}
Adds(p) == run[p].request.op = "add"
Deletes(p) == run[p].request.op = "delete"
Of(p) == run[p].request.tenants
Backend == git["backend"].tenants
Agent == git["agent"].tenants

\* Who is idle was asked nothing.
Asked == \A p \in Procs : IF pc[p] = "idle" THEN run[p] = NoOperation
                                            ELSE run[p].request \in Requests

\* Who may still push a branch; it does so once at most, which bounds revisions.
MayPush(repo) == {p \in Procs : Working(p) /\ (repo = "agent" \/ run[p].repo = repo)}
Revisions ==
    /\ \A repo \in Repos : /\ IsFiniteSet(MayPush(repo))
                           /\ git[repo].rev + Cardinality(MayPush(repo)) <= operations
    /\ clobbers <= git["backend"].rev + git["agent"].rev

TypeInv == TypeOK /\ Asked /\ Revisions

\* Unless requests overlap there is one at most, what it has read is what the branch
\* holds, and what it has pushed is there.
Alone ==
    ~overlapped =>
        /\ \A p, q \in Procs : pc[p] # "idle" /\ pc[q] # "idle" => p = q
        /\ \A p \in Procs :
            /\ Changing(p) => run[p].seen = git[run[p].repo].tenants
            /\ pc[p] = "push" => run[p].base = git[run[p].repo].rev
            /\ Working(p) /\ run[p].repo = "agent" /\ run[p].backend_commit_status =>
                   \A t \in Of(p) : t \in Backend <=> Adds(p)
            /\ pc[p] = "success" =>
                   \A t \in Of(p) : (t \in Backend <=> Adds(p)) /\ (t \in Agent <=> Adds(p))

\* As long as nothing has failed either, the branches differ by what it has pushed to
\* the backend branch and not yet to the agent branch.
Level ==
    ~overlapped /\ faults = 0 =>
        /\ Idle => Backend = Agent
        /\ \A p \in Procs :
            /\ Working(p) /\ run[p].repo = "agent" =>
                   /\ Backend = NewContent("agent", run[p].request, Agent)
                   /\ Deletable(run[p].request, Agent)
            /\ pc[p] # "idle" /\ ~(Working(p) /\ run[p].repo = "agent") => Backend = Agent
            /\ Changing(p) => Deletable(run[p].request, run[p].seen)

\* A stranded tenant is half removed, nobody is adding it, nobody who deletes it gets
\* past the backend branch, and what everybody has read agrees with that.
Stranding ==
    \A t \in stranded :
        /\ HalfRemoved(t)
        /\ \A p \in Procs : pc[p] # "idle" =>
            /\ Adds(p) => t \notin Of(p)
            /\ Changing(p) => (t \in run[p].seen <=> run[p].repo = "agent")
            /\ Changing(p) \/ (pc[p] = "download" /\ run[p].repo = "agent") =>
                   ~(Deletes(p) /\ t \in Of(p))

\* Tenants that nobody asks for are where they were at the start.
Unasked == Tenants \ UNION {r.tenants : r \in Requests}
Kept ==
    \A t \in Unasked :
        /\ \A repo \in Repos : t \in git[repo].tenants <=> t \in Configured
        /\ \A p \in Procs : Changing(p) => (t \in run[p].seen <=> t \in Configured)

BranchInv == TypeInv /\ Alone /\ Level /\ Stranding /\ Kept

-------------------------------------------------------------------------------
LEMMA GotoEffect ==
    ASSUME TypeOK, NEW p \in Procs, NEW l, NEW r, Goto(p, l, r)
    PROVE  /\ pc'[p] = l /\ run'[p] = r
           /\ \A q \in Procs : q # p => pc'[q] = pc[q] /\ run'[q] = run[q]
BY DEF TypeOK, Goto

LEMMA RequestTypes ==
    ASSUME NEW r \in Requests
    PROVE  /\ r \in Request /\ r # NoRequest
           /\ r.op \in {"add", "delete"} /\ r.tenants \subseteq Tenants
           /\ r = [op |-> r.op, tenants |-> r.tenants]
BY MonboxGitAssumption DEF Request, NoRequest

LEMMA NoOperationType == NoOperation \in Operation
BY MonboxGitAssumption DEF NoOperation, Operation, NoRequest, Repos

\* The steps of an operation that is in progress, by what they do to the branches.
Reads(p) == Download(p) \/ DownloadFails(p) \/ Fetch(p)
Pushes(p) == Push(p) \/ PushFails(p)
Leaves(p) == Return(p) \/ Crash(p)

\* Where an operation goes from a push: the agent branch, or its end.
LEMMA AfterCommitGoes ==
    ASSUME TypeInv, NEW p \in Procs, pc[p] # "idle", NEW c \in BOOLEAN, AfterCommit(p, c)
    PROVE  \E l \in {"download", "success", "failure"}, r \in Operation :
               /\ Goto(p, l, r)
               /\ r.request = run[p].request
               /\ run[p].repo = "backend" /\ c => l = "download"
               /\ l = "download" => /\ run[p].repo = "backend" /\ r.repo = "agent"
                                    /\ r.backend_commit_status = c
                                    /\ Adds(p) \/ c
               /\ l = "success" => /\ run[p].repo = "agent"
                                   /\ run[p].backend_commit_status /\ c
               /\ l = "failure" => ~c \/ ~run[p].backend_commit_status
<1> DEFINE next == [run[p] EXCEPT !.repo = "agent", !.backend_commit_status = c]
<1>1. /\ run[p] \in Operation /\ run[p].repo \in Repos
      /\ run[p].backend_commit_status \in BOOLEAN
  BY DEF TypeInv, TypeOK, Operation
<1>2. /\ next \in Operation /\ next.request = run[p].request
      /\ next.repo = "agent" /\ next.backend_commit_status = c
  BY <1>1 DEF Operation, Repos
<1> HIDE DEF next
<1>3. CASE run[p].repo = "backend" /\ (Adds(p) \/ c)
  <2>1. Goto(p, "download", next)
    BY <1>3 DEF AfterCommit, Adds, next
  <2> QED BY <1>2, <1>3, <2>1
<1>4. CASE run[p].repo = "backend" /\ ~(Adds(p) \/ c)
  BY <1>1, <1>4 DEF AfterCommit, Adds
<1>5. CASE run[p].repo # "backend"
  <2>1. /\ run[p].repo = "agent"
        /\ Goto(p, Outcome(CommitSuccess(run[p].backend_commit_status, c)), run[p])
    BY <1>1, <1>5 DEF AfterCommit, Repos
  <2>2. CASE run[p].backend_commit_status /\ c
    BY <1>1, <2>1, <2>2 DEF Outcome, CommitSuccess
  <2>3. CASE ~(run[p].backend_commit_status /\ c)
    BY <1>1, <2>1, <2>3 DEF Outcome, CommitSuccess
  <2> QED BY <2>2, <2>3
<1> QED BY <1>3, <1>4, <1>5

-------------------------------------------------------------------------------
\* Every step of an operation keeps what was asked for or drops it at the end, and
\* brings nobody back to a branch that it has left.
Onward(p, l, r) ==
    /\ l \in {"idle", "download", "fetch", "push", "success", "failure"}
    /\ IF l = "idle" THEN r = NoOperation ELSE r.request = run[p].request
    /\ l \in {"download", "fetch", "push"} => /\ Working(p)
                                              /\ r.repo \in {run[p].repo, "agent"}

LEMMA StepGoesOnward ==
    ASSUME TypeInv, NEW p \in Procs, Reads(p) \/ Pushes(p) \/ Leaves(p)
    PROVE  \E l : \E r \in Operation : Goto(p, l, r) /\ Onward(p, l, r)
<1>1. /\ run[p] \in Operation
      /\ run[p].repo \in Repos /\ git \in [Repos -> [rev : 0..(2 * MaxOperations), tenants : SUBSET Tenants]]
  BY DEF TypeInv, TypeOK, Operation
<1>2. CASE Download(p)
  <2> DEFINE next == [run[p] EXCEPT !.seen = git[run[p].repo].tenants]
  <2>1. /\ next \in Operation /\ next.request = run[p].request
        /\ next.repo = run[p].repo
    BY <1>1 DEF Operation
  <2>2. Goto(p, "fetch", next) \/ Goto(p, "failure", run[p])
    BY <1>2 DEF Download
  <2> HIDE DEF next
  <2> QED BY <1>1, <1>2, <2>1, <2>2 DEF Onward, Working, Download
<1>3. CASE DownloadFails(p)
  BY <1>1, <1>3 DEF DownloadFails, Onward
<1>4. CASE Fetch(p)
  <2> DEFINE next == [run[p] EXCEPT !.base = git[run[p].repo].rev]
  <2>1. /\ next \in Operation /\ next.request = run[p].request
        /\ next.repo = run[p].repo
    BY <1>1 DEF Operation
  <2>2. Goto(p, "push", next)
    BY <1>4 DEF Fetch
  <2> HIDE DEF next
  <2> QED BY <1>4, <2>1, <2>2 DEF Onward, Working, Fetch
<1>5. CASE Pushes(p)
  <2>1. /\ Changing(p)
        /\ \E c \in BOOLEAN : AfterCommit(p, c)
    BY <1>5 DEF Pushes, Push, PushFails, Changing, Accepted
  <2> QED BY <2>1, AfterCommitGoes DEF Onward, Working, Changing
<1>6. CASE Leaves(p)
  BY <1>6, NoOperationType DEF Leaves, Return, Crash, Leave, Onward
<1> QED BY <1>2, <1>3, <1>4, <1>5, <1>6 DEF Reads

LEMMA OnwardAsked ==
    ASSUME TypeInv, NEW p \in Procs, NEW l, NEW r \in Operation, Goto(p, l, r),
           Onward(p, l, r), pc[p] # "idle"
    PROVE  /\ pc' \in [Procs -> {"idle", "download", "fetch", "push", "success", "failure"}]
           /\ run' \in [Procs -> Operation]
           /\ Asked'
           /\ \A repo : MayPush(repo)' \subseteq MayPush(repo)
<1>1. pc' \in [Procs -> {"idle", "download", "fetch", "push", "success", "failure"}]
  BY DEF TypeInv, TypeOK, Goto, Onward
<1>2. run' \in [Procs -> Operation]
  BY DEF TypeInv, TypeOK, Goto
<1>3. Asked'
  BY GotoEffect DEF TypeInv, Asked, Onward
<1>4. ASSUME NEW repo PROVE MayPush(repo)' \subseteq MayPush(repo)
  BY GotoEffect DEF TypeInv, MayPush, Working, Onward
<1> QED BY <1>1, <1>2, <1>3, <1>4

\* A set that loses the one who pushes pays for the revision.
LEMMA RevisionPaid ==
    ASSUME NEW S, IsFiniteSet(S), NEW T \in SUBSET S, NEW x \in S, x \notin T
    PROVE  IsFiniteSet(T) /\ Cardinality(T) + 1 <= Cardinality(S)
<1>1. /\ IsFiniteSet(S \ {x}) /\ Cardinality(S \ {x}) = Cardinality(S) - 1
  BY FS_RemoveElement
<1>2. T \in SUBSET (S \ {x})
  OBVIOUS
<1>3. IsFiniteSet(T) /\ Cardinality(T) <= Cardinality(S \ {x})
  BY <1>1, <1>2, FS_Subset
<1> QED BY <1>1, <1>3, FS_CardinalityType

LEMMA PushIsFinal ==
    ASSUME TypeInv, NEW p \in Procs, Pushes(p)
    PROVE  /\ Changing(p)
           /\ p \in MayPush(run[p].repo)
           /\ \A repo : repo = run[p].repo => p \notin MayPush(repo)'
           /\ (git' = git /\ clobbers' = clobbers) \/ Apply(p)
<1>1. /\ Changing(p)
      /\ \E c \in BOOLEAN : AfterCommit(p, c)
      /\ (git' = git /\ clobbers' = clobbers) \/ Apply(p)
  BY DEF Pushes, Push, PushFails, Changing, Accepted, Reject
<1>2. p \in MayPush(run[p].repo)
  BY <1>1 DEF MayPush, Changing, Working
<1>3. ASSUME NEW repo, repo = run[p].repo PROVE p \notin MayPush(repo)'
  <2>1. PICK c \in BOOLEAN : AfterCommit(p, c)
    BY <1>1
  <2>2. pc[p] # "idle"
    BY <1>1 DEF Changing
  <2> QED BY <1>3, <2>1, <2>2, AfterCommitGoes, GotoEffect DEF TypeInv, MayPush, Working
<1> QED BY <1>1, <1>2, <1>3

LEMMA ContentType ==
    ASSUME NEW repo, NEW request \in Requests, NEW seen \in SUBSET Tenants
    PROVE  NewContent(repo, request, seen) \in SUBSET Tenants
BY RequestTypes DEF NewContent

LEMMA ApplyEffect ==
    ASSUME TypeInv, NEW p \in Procs, Changing(p), Apply(p)
    PROVE  /\ run[p].repo \in Repos
           /\ git'[run[p].repo].rev = git[run[p].repo].rev + 1
           /\ git'[run[p].repo].tenants =
                  NewContent(run[p].repo, run[p].request, run[p].seen)
           /\ git'[run[p].repo].tenants \subseteq Tenants
           /\ \A repo \in Repos : repo # run[p].repo => git'[repo] = git[repo]
           /\ DOMAIN git' = Repos
           /\ \A repo \in Repos : git'[repo] = [rev |-> git'[repo].rev,
                                                tenants |-> git'[repo].tenants]
           /\ clobbers' \in {clobbers, clobbers + 1}
<1>1. /\ run[p].repo \in Repos /\ run[p].seen \in SUBSET Tenants
      /\ run[p].request \in Requests
      /\ git \in [Repos -> [rev : 0..(2 * MaxOperations), tenants : SUBSET Tenants]]
  BY DEF TypeInv, TypeOK, Operation, Asked, Changing
<1> DEFINE content == NewContent(run[p].repo, run[p].request, run[p].seen)
<1>2. content \in SUBSET Tenants
  BY <1>1, ContentType
<1>3. /\ git' = [git EXCEPT ![run[p].repo] = [rev |-> @.rev + 1, tenants |-> content]]
      /\ clobbers' \in {clobbers, clobbers + 1}
  BY DEF Apply
<1> HIDE DEF content
<1>4. \A repo \in Repos : git[repo] = [rev |-> git[repo].rev, tenants |-> git[repo].tenants]
  BY <1>1
<1> QED BY <1>1, <1>2, <1>3, <1>4 DEF content

LEMMA StepTypeInv ==
    ASSUME TypeInv, NEW p \in Procs, Reads(p) \/ Pushes(p) \/ Leaves(p)
    PROVE  TypeInv'
<1>1. /\ pc[p] # "idle"
      /\ operations' = operations
      /\ faults' \in 0..MaxFaults
      /\ overlapped' = overlapped
      /\ stranded' \subseteq Tenants
  <2>1. CASE Reads(p)
    BY <2>1, MonboxGitAssumption DEF TypeInv, TypeOK, Reads, Download, DownloadFails,
       Fetch, historyVars, NoFault, Fault
  <2>2. CASE Pushes(p)
    <3>1. /\ pc[p] # "idle"
          /\ UNCHANGED <<operations, overlapped, stranded>>
          /\ NoFault \/ Fault("push")
      BY <2>2 DEF Pushes, Push, PushFails
    <3> QED BY <3>1, MonboxGitAssumption DEF TypeInv, TypeOK, NoFault, Fault
  <2>3. CASE Leaves(p)
    BY <2>3, MonboxGitAssumption DEF TypeInv, TypeOK, Leaves, Leave, Return, Crash,
       NoFault, Fault
  <2> QED BY <2>1, <2>2, <2>3
<1>2. PICK l : \E r \in Operation : Goto(p, l, r) /\ Onward(p, l, r)
  BY StepGoesOnward
<1>3. /\ pc' \in [Procs -> {"idle", "download", "fetch", "push", "success", "failure"}]
      /\ run' \in [Procs -> Operation]
      /\ Asked'
      /\ \A repo : MayPush(repo)' \subseteq MayPush(repo)
  BY <1>1, <1>2, OnwardAsked
<1>4. \A repo \in Repos : /\ IsFiniteSet(MayPush(repo)')
                          /\ Cardinality(MayPush(repo)') <= Cardinality(MayPush(repo))
                          /\ Cardinality(MayPush(repo)') \in Nat
                          /\ Cardinality(MayPush(repo)) \in Nat
  BY <1>3, FS_Subset, FS_CardinalityType DEF TypeInv, Revisions
<1>5. /\ git \in [Repos -> [rev : 0..(2 * MaxOperations), tenants : SUBSET Tenants]]
      /\ git["backend"].rev \in Nat /\ git["agent"].rev \in Nat
      /\ operations \in 0..MaxOperations /\ clobbers \in Nat
  BY DEF TypeInv, TypeOK, Repos
<1>6. CASE git' = git /\ clobbers' = clobbers
  BY <1>1, <1>3, <1>4, <1>5, <1>6 DEF TypeInv, TypeOK, Revisions, Repos
<1>7. CASE Pushes(p) /\ Apply(p)
  <2>0. PICK repo \in Repos : repo = run[p].repo
    BY <1>7, ApplyEffect, PushIsFinal
  <2>1. /\ git'[repo].rev = git[repo].rev + 1
        /\ git'[repo].tenants \subseteq Tenants
        /\ \A other \in Repos : other # repo => git'[other] = git[other]
        /\ DOMAIN git' = Repos
        /\ \A x \in Repos : git'[x] = [rev |-> git'[x].rev, tenants |-> git'[x].tenants]
        /\ clobbers' \in {clobbers, clobbers + 1}
    BY <1>7, <2>0, ApplyEffect, PushIsFinal
  <2>2. /\ IsFiniteSet(MayPush(repo)')
        /\ Cardinality(MayPush(repo)') + 1 <= Cardinality(MayPush(repo))
    BY <1>3, <1>7, <2>0, PushIsFinal, RevisionPaid DEF TypeInv, Revisions
  <2>3. \A x \in Repos : /\ git'[x].rev \in Nat
                         /\ git'[x].rev + Cardinality(MayPush(x)') <= operations
    BY <1>4, <1>5, <2>1, <2>2 DEF TypeInv, Revisions, Repos
  <2>4. clobbers' <= git'["backend"].rev + git'["agent"].rev
    BY <1>5, <2>1 DEF TypeInv, Revisions, Repos
  <2>5. Revisions'
    BY <1>1, <1>4, <2>3, <2>4 DEF Revisions
  <2>6. \A x \in Repos : git'[x].rev \in 0..(2 * MaxOperations)
    BY <1>4, <1>5, <2>3, MonboxGitAssumption
  <2>7. git' \in [Repos -> [rev : 0..(2 * MaxOperations), tenants : SUBSET Tenants]]
        /\ git' = [x \in Repos |-> git'[x]]
    <3>1. git' = [x \in Repos |-> git'[x]]
      BY <1>7 DEF Apply, TypeInv, TypeOK
    <3>2. \A x \in Repos : git'[x] \in [rev : 0..(2 * MaxOperations), tenants : SUBSET Tenants]
      BY <1>5, <2>1, <2>6
    <3> QED BY <3>1, <3>2
  <2>8. clobbers' \in 0..(2 * MaxOperations)
    BY <1>4, <1>5, <2>1, <2>3, <2>4, MonboxGitAssumption DEF Repos
  <2> QED BY <1>1, <1>3, <1>5, <2>5, <2>7, <2>8 DEF TypeInv, TypeOK
<1>8. (git' = git /\ clobbers' = clobbers) \/ (Pushes(p) /\ Apply(p))
  BY PushIsFinal DEF Reads, Download, DownloadFails, Fetch, Leaves, Leave, Return, Crash,
     historyVars
<1> QED BY <1>6, <1>7, <1>8

-------------------------------------------------------------------------------
LEMMA StartEffect ==
    ASSUME TypeInv, NEW p \in Procs, NEW r \in Requests, Start(p, r)
    PROVE  /\ pc[p] = "idle" /\ pc'[p] = "download"
           /\ run'[p] \in Operation
           /\ run'[p].request = r /\ run'[p].repo = "backend"
           /\ ~run'[p].backend_commit_status
           /\ \A q \in Procs : q # p => pc'[q] = pc[q] /\ run'[q] = run[q]
<1> DEFINE next == [NoOperation EXCEPT !.request = r]
<1>1. /\ next \in Operation /\ next.request = r /\ next.repo = "backend"
      /\ ~next.backend_commit_status
  BY NoOperationType DEF NoOperation, Operation
<1>2. Goto(p, "download", next) /\ pc[p] = "idle"
  BY DEF Start
<1> HIDE DEF next
<1> QED BY <1>1, <1>2, GotoEffect DEF TypeInv

LEMMA StartTypeInv ==
    ASSUME TypeInv, NEW p \in Procs, NEW r \in Requests, Start(p, r)
    PROVE  TypeInv'
<1>1. /\ git' = git /\ clobbers' = clobbers /\ faults' = faults
      /\ operations < MaxOperations /\ operations' = operations + 1
      /\ overlapped' \in BOOLEAN
  BY DEF Start, NoFault, TypeInv, TypeOK
<1>2. /\ pc' = [pc EXCEPT ![p] = "download"]
      /\ run' = [run EXCEPT ![p] = run'[p]]
  BY DEF Start, Goto, TypeInv, TypeOK
<1>3. /\ pc' \in [Procs -> {"idle", "download", "fetch", "push", "success", "failure"}]
      /\ run' \in [Procs -> Operation]
  BY <1>2, StartEffect DEF TypeInv, TypeOK
<1>4. stranded' \subseteq Tenants
  BY DEF Start, TypeInv, TypeOK
<1>5. Asked'
  BY StartEffect DEF TypeInv, Asked
<1>6. ASSUME NEW repo \in Repos
      PROVE  /\ IsFiniteSet(MayPush(repo)')
             /\ git'[repo].rev + Cardinality(MayPush(repo)') <= operations'
  <2>1. MayPush(repo)' \in SUBSET (MayPush(repo) \cup {p})
    BY StartEffect DEF MayPush, Working
  <2>2. IsFiniteSet(MayPush(repo)) /\ git[repo].rev + Cardinality(MayPush(repo)) <= operations
    BY DEF TypeInv, Revisions
  <2>3. /\ IsFiniteSet(MayPush(repo) \cup {p})
        /\ Cardinality(MayPush(repo) \cup {p}) <= Cardinality(MayPush(repo)) + 1
        /\ Cardinality(MayPush(repo)) \in Nat
    <3>1. Cardinality(MayPush(repo)) \in Nat
      BY <2>2, FS_CardinalityType
    <3>2. /\ IsFiniteSet(MayPush(repo) \cup {p})
          /\ Cardinality(MayPush(repo) \cup {p}) =
                IF p \in MayPush(repo) THEN Cardinality(MayPush(repo))
                                      ELSE Cardinality(MayPush(repo)) + 1
      BY <2>2, FS_AddElement
    <3> QED BY <3>1, <3>2
  <2>4. /\ IsFiniteSet(MayPush(repo)')
        /\ Cardinality(MayPush(repo)') <= Cardinality(MayPush(repo) \cup {p})
    BY <2>1, <2>3, FS_Subset
  <2>5. /\ git[repo].rev \in Nat /\ operations \in Nat
        /\ Cardinality(MayPush(repo)') \in Nat
        /\ Cardinality(MayPush(repo) \cup {p}) \in Nat
    BY <2>3, <2>4, FS_CardinalityType DEF TypeInv, TypeOK
  <2> QED BY <1>1, <2>2, <2>3, <2>4, <2>5
<1>7. Revisions'
  BY <1>1, <1>6 DEF Revisions, TypeInv
<1>8. operations' \in 0..MaxOperations
  BY <1>1, MonboxGitAssumption DEF TypeInv, TypeOK
<1> QED BY <1>1, <1>3, <1>4, <1>5, <1>7, <1>8 DEF TypeInv, TypeOK

LEMMA NextTypeInv == TypeInv /\ [Next]_vars => TypeInv'
<1> SUFFICES ASSUME TypeInv, [Next]_vars PROVE TypeInv'
  OBVIOUS
<1>1. CASE UNCHANGED vars
  BY <1>1 DEF vars, historyVars, TypeInv, TypeOK, Asked, Revisions, MayPush, Working
<1>2. CASE Next
  BY <1>2, StartTypeInv, StepTypeInv DEF Next, Reads, Pushes, Leaves
<1> QED BY <1>1, <1>2

LEMMA InitTypeInv == Init => TypeInv
<1> SUFFICES ASSUME Init PROVE TypeInv
  OBVIOUS
<1>1. Asked
  BY DEF Init, Asked
<1>2. \A repo \in Repos : MayPush(repo) = {}
  BY DEF Init, MayPush, Working
<1>3. Revisions
  BY <1>2, FS_EmptySet DEF Init, Revisions, Repos
<1>4. TypeOK
  <2>1. /\ 0 \in 0..MaxOperations /\ 0 \in 0..MaxFaults /\ 0 \in 0..(2 * MaxOperations)
        /\ Configured \in SUBSET Tenants
    BY MonboxGitAssumption
  <2>2. git \in [Repos -> [rev : 0..(2 * MaxOperations), tenants : SUBSET Tenants]]
    BY <2>1 DEF Init
  <2> QED BY <2>1, <2>2, NoOperationType DEF Init, TypeOK
<1> QED BY <1>1, <1>3, <1>4 DEF TypeInv

\* The branches, the operations and the histories keep their types: no more requests
\* push, and none overwrites, than were made, whoever fails and however they overlap.
THEOREM BranchTypes == Spec => []TypeOK
<1>1. TypeInv => TypeOK
  BY DEF TypeInv
<1> QED BY <1>1, InitTypeInv, NextTypeInv, PTL DEF Spec

-------------------------------------------------------------------------------
\* What the steps of an operation do to its locals and the branches.
LEMMA DownloadEffect ==
    ASSUME TypeInv, NEW p \in Procs, Download(p)
    PROVE  /\ pc[p] = "download" /\ UNCHANGED <<git, overlapped, stranded>>
           /\ run'[p].request = run[p].request /\ run'[p].repo = run[p].repo
           /\ run'[p].backend_commit_status = run[p].backend_commit_status
           /\ IF Deletable(run[p].request, git[run[p].repo].tenants)
              THEN pc'[p] = "fetch" /\ run'[p].seen = git[run[p].repo].tenants
              ELSE pc'[p] = "failure"
<1> DEFINE content == git[run[p].repo].tenants
           next == [run[p] EXCEPT !.seen = content]
<1>1. /\ next.request = run[p].request /\ next.repo = run[p].repo /\ next.seen = content
      /\ next.backend_commit_status = run[p].backend_commit_status
  BY DEF TypeInv, TypeOK, Operation
<1>2. IF Deletable(run[p].request, content) THEN Goto(p, "fetch", next)
                                            ELSE Goto(p, "failure", run[p])
  BY DEF Download
<1> HIDE DEF next
<1> QED BY <1>1, <1>2, GotoEffect DEF TypeInv, Download, historyVars

LEMMA FetchEffect ==
    ASSUME TypeInv, NEW p \in Procs, Fetch(p)
    PROVE  /\ pc[p] = "fetch" /\ UNCHANGED <<git, overlapped, stranded>>
           /\ pc'[p] = "push" /\ run'[p].base = git[run[p].repo].rev
           /\ run'[p].seen = run[p].seen
           /\ run'[p].request = run[p].request /\ run'[p].repo = run[p].repo
           /\ run'[p].backend_commit_status = run[p].backend_commit_status
<1> DEFINE next == [run[p] EXCEPT !.base = git[run[p].repo].rev]
<1>1. /\ next.request = run[p].request /\ next.repo = run[p].repo
      /\ next.seen = run[p].seen /\ next.base = git[run[p].repo].rev
      /\ next.backend_commit_status = run[p].backend_commit_status
  BY DEF TypeInv, TypeOK, Operation
<1>2. Goto(p, "push", next)
  BY DEF Fetch
<1> HIDE DEF next
<1> QED BY <1>1, <1>2, GotoEffect DEF TypeInv, Fetch, historyVars

LEMMA DownloadFailsEffect ==
    ASSUME TypeInv, NEW p \in Procs, DownloadFails(p)
    PROVE  /\ pc[p] = "download" /\ UNCHANGED <<git, overlapped, stranded>>
           /\ pc'[p] = "failure" /\ run'[p] = run[p]
           /\ faults' # 0
BY GotoEffect DEF TypeInv, TypeOK, DownloadFails, Fault, historyVars

LEMMA PushEffect ==
    ASSUME TypeInv, NEW p \in Procs, Pushes(p)
    PROVE  \E committed \in BOOLEAN :
               /\ Changing(p) /\ UNCHANGED <<overlapped, stranded>>
               /\ git' = git \/ Apply(p)
               /\ committed => Push(p) /\ Apply(p)
               /\ ~committed => faults' # 0 \/ ~Accepted(p)
               /\ run'[p].request = run[p].request
               /\ pc'[p] \in {"download", "success", "failure"}
               /\ run[p].repo = "backend" /\ committed => pc'[p] = "download"
               /\ pc'[p] = "download" => /\ run[p].repo = "backend" /\ run'[p].repo = "agent"
                                         /\ run'[p].backend_commit_status = committed
               /\ pc'[p] = "success" => /\ run[p].repo = "agent"
                                        /\ run[p].backend_commit_status /\ committed
<1>1. PICK committed \in BOOLEAN :
          /\ AfterCommit(p, committed)
          /\ committed => Push(p) /\ Apply(p)
          /\ ~committed => faults' # 0 \/ ~Accepted(p)
  <2>1. CASE Push(p)
    <3>1. Accepted(p) \in BOOLEAN
      BY DEF Accepted
    <3> QED BY <2>1, <3>1 DEF Push
  <2>2. CASE PushFails(p)
    <3>1. Fault("push") /\ AfterCommit(p, FALSE)
      BY <2>2 DEF PushFails
    <3>2. faults' # 0
      BY <3>1 DEF Fault, TypeInv, TypeOK
    <3> QED BY <3>1, <3>2
  <2> QED BY <2>1, <2>2 DEF Pushes
<1>2. /\ Changing(p) /\ pc[p] # "idle" /\ UNCHANGED <<overlapped, stranded>>
      /\ git' = git \/ Apply(p)
  BY PushIsFinal DEF Pushes, Push, PushFails, Changing
<1>3. PICK l \in {"download", "success", "failure"}, r \in Operation :
          /\ Goto(p, l, r)
          /\ r.request = run[p].request
          /\ run[p].repo = "backend" /\ committed => l = "download"
          /\ l = "download" => /\ run[p].repo = "backend" /\ r.repo = "agent"
                               /\ r.backend_commit_status = committed
          /\ l = "success" => /\ run[p].repo = "agent"
                              /\ run[p].backend_commit_status /\ committed
  BY <1>1, <1>2, AfterCommitGoes
<1>4. pc'[p] = l /\ run'[p] = r
  BY <1>3, GotoEffect DEF TypeInv
<1> QED BY <1>1, <1>2, <1>3, <1>4

LEMMA OthersRest ==
    ASSUME TypeInv, NEW p \in Procs,
           Reads(p) \/ Pushes(p) \/ Leaves(p) \/ \E r \in Requests : Start(p, r)
    PROVE  \A q \in Procs : q # p => pc'[q] = pc[q] /\ run'[q] = run[q]
BY StepGoesOnward, StartEffect, GotoEffect DEF TypeInv

LEMMA LeaveEffect ==
    ASSUME TypeInv, NEW p \in Procs, Leaves(p)
    PROVE  /\ pc[p] # "idle" /\ pc'[p] = "idle" /\ run'[p] = NoOperation
           /\ UNCHANGED <<git, overlapped>>
           /\ faults' = 0 => pc[p] \in {"success", "failure"}
BY GotoEffect DEF TypeInv, TypeOK, Leaves, Return, Crash, Leave, Fault

LEMMA AddedOrDeleted ==
    ASSUME NEW repo, NEW request \in Requests, NEW seen \in SUBSET Tenants, NEW t
    PROVE  /\ t \in request.tenants =>
                 (t \in NewContent(repo, request, seen) <=> request.op = "add")
           /\ t \notin request.tenants =>
                 (t \in NewContent(repo, request, seen) <=> t \in seen)
BY RequestTypes DEF NewContent

-------------------------------------------------------------------------------
LEMMA ReadSets ==
    ASSUME TypeInv, NEW p \in Procs, pc[p] # "idle"
    PROVE  /\ run[p].request \in Requests /\ run[p].repo \in Repos
           /\ run[p].seen \in SUBSET Tenants
           /\ Backend \in SUBSET Tenants /\ Agent \in SUBSET Tenants
BY DEF TypeInv, TypeOK, Asked, Operation, Repos, Backend, Agent

LEMMA StepMoves ==
    ASSUME TypeInv, NEW p \in Procs, Reads(p) \/ Pushes(p) \/ Leaves(p)
    PROVE  /\ overlapped' = overlapped /\ pc[p] # "idle"
           /\ faults' = 0 => faults = 0
           /\ faults' = 0 /\ Pushes(p) => Push(p)
<1>1. overlapped' = overlapped /\ pc[p] # "idle"
  BY DownloadEffect, DownloadFailsEffect, FetchEffect, PushEffect, LeaveEffect
     DEF Reads, Changing
<1>2. \/ NoFault /\ (Pushes(p) => Push(p))
      \/ \E kind : Fault(kind)
  BY DEF Reads, Pushes, Leaves, Download, DownloadFails, Fetch, Push, PushFails, Return,
         Crash
<1>3. /\ NoFault => faults' = faults
      /\ (\E kind : Fault(kind)) => faults' # 0
  BY DEF NoFault, Fault, TypeInv, TypeOK
<1> QED BY <1>1, <1>2, <1>3

LEMMA StepAlone ==
    ASSUME TypeInv, Alone, NEW p \in Procs, Reads(p) \/ Pushes(p) \/ Leaves(p)
    PROVE  Alone'
<1> SUFFICES ASSUME ~overlapped'
             PROVE  /\ \A q \in Procs : pc'[q] # "idle" => q = p
                    /\ Changing(p)' => run'[p].seen = git'[run'[p].repo].tenants
                    /\ pc'[p] = "push" => run'[p].base = git'[run'[p].repo].rev
                    /\ Working(p)' /\ run'[p].repo = "agent" /\ run'[p].backend_commit_status =>
                           \A t \in Of(p)' : t \in Backend' <=> Adds(p)'
                    /\ pc'[p] = "success" =>
                           \A t \in Of(p)' : (t \in Backend' <=> Adds(p)')
                                             /\ (t \in Agent' <=> Adds(p)')
  BY DEF Alone, Changing, Working
<1>1. ~overlapped /\ pc[p] # "idle"
  BY StepMoves
<1>2. \A q \in Procs : pc'[q] # "idle" => q = p
  BY <1>1, OthersRest DEF Alone
<1>3. CASE Download(p)
  BY <1>1, <1>2, <1>3, DownloadEffect
     DEF Alone, Changing, Working, Of, Adds, Backend, Agent
<1>4. CASE DownloadFails(p)
  BY <1>1, <1>2, <1>4, DownloadFailsEffect DEF Alone, Changing, Working
<1>5. CASE Fetch(p)
  BY <1>1, <1>2, <1>5, FetchEffect DEF Alone, Changing, Working, Of, Adds, Backend, Agent
<1>6. CASE Leaves(p)
  BY <1>1, <1>2, <1>6, LeaveEffect DEF Alone, Changing, Working
<1>7. CASE Pushes(p)
  <2>1. PICK committed \in BOOLEAN :
               /\ Changing(p)
               /\ committed => Push(p) /\ Apply(p)
               /\ run'[p].request = run[p].request
               /\ pc'[p] \in {"download", "success", "failure"}
               /\ pc'[p] = "download" => /\ run[p].repo = "backend" /\ run'[p].repo = "agent"
                                         /\ run'[p].backend_commit_status = committed
               /\ pc'[p] = "success" => /\ run[p].repo = "agent"
                                        /\ run[p].backend_commit_status /\ committed
    BY <1>7, PushEffect
  <2>2. committed => /\ git'[run[p].repo].tenants =
                            NewContent(run[p].repo, run[p].request, run[p].seen)
                     /\ \A repo \in Repos : repo # run[p].repo => git'[repo] = git[repo]
    BY <2>1, ApplyEffect
  <2>3. committed => \A t \in Of(p) : t \in git'[run[p].repo].tenants <=> Adds(p)
    BY <1>1, <2>2, ReadSets, AddedOrDeleted DEF Of, Adds
  <2>4. CASE pc'[p] = "download"
    BY <1>2, <2>1, <2>3, <2>4 DEF Changing, Working, Of, Adds, Backend
  <2>5. CASE pc'[p] = "success"
    <3>1. \A t \in Of(p) : (t \in Backend' <=> Adds(p)) /\ (t \in Agent' <=> Adds(p))
      BY <1>1, <2>1, <2>2, <2>3, <2>5 DEF Alone, Changing, Working, Backend, Agent, Repos
    <3> QED BY <1>2, <2>1, <2>5, <3>1 DEF Changing, Working, Of, Adds
  <2>6. CASE pc'[p] = "failure"
    BY <1>2, <2>6 DEF Changing, Working
  <2> QED BY <2>1, <2>4, <2>5, <2>6
<1> QED BY <1>3, <1>4, <1>5, <1>6, <1>7 DEF Reads

LEMMA StepLevel ==
    ASSUME TypeInv, Alone, Level, NEW p \in Procs, Reads(p) \/ Pushes(p) \/ Leaves(p)
    PROVE  Level'
<1>0. ~overlapped' => /\ ~overlapped /\ pc[p] # "idle"
                      /\ \A q \in Procs : pc'[q] # "idle" => q = p
  BY StepMoves, OthersRest DEF Alone
<1> SUFFICES ASSUME ~overlapped', faults' = 0
             PROVE  /\ pc'[p] = "idle" => Backend' = Agent'
                    /\ Working(p)' /\ run'[p].repo = "agent" =>
                           /\ Backend' = NewContent("agent", run'[p].request, Agent')
                           /\ Deletable(run'[p].request, Agent')
                    /\ pc'[p] # "idle" /\ ~(Working(p)' /\ run'[p].repo = "agent") =>
                           Backend' = Agent'
                    /\ Changing(p)' => Deletable(run'[p].request, run'[p].seen)
  BY <1>0 DEF Level, Changing, Working, Idle
<1>1. ~overlapped /\ pc[p] # "idle"
  BY <1>0
<1>2. faults = 0
  BY StepMoves
<1>3. CASE Download(p)
  BY <1>1, <1>2, <1>3, DownloadEffect, ReadSets
     DEF Level, Changing, Working, Backend, Agent, Repos
<1>4. CASE DownloadFails(p)
  BY <1>4, DownloadFailsEffect
<1>5. CASE Fetch(p)
  BY <1>1, <1>2, <1>5, FetchEffect, ReadSets
     DEF Level, Changing, Working, Backend, Agent, Repos
<1>6. CASE Leaves(p)
  BY <1>1, <1>2, <1>6, LeaveEffect DEF Level, Changing, Working, Backend, Agent
<1>7. CASE Pushes(p)
  <2>1. PICK committed \in BOOLEAN :
               /\ Changing(p)
               /\ committed => Push(p) /\ Apply(p)
               /\ ~committed => faults' # 0 \/ ~Accepted(p)
               /\ run'[p].request = run[p].request
               /\ pc'[p] \in {"download", "success", "failure"}
               /\ run[p].repo = "backend" /\ committed => pc'[p] = "download"
               /\ pc'[p] = "download" => run[p].repo = "backend" /\ run'[p].repo = "agent"
    BY <1>7, PushEffect
  <2>2. pc[p] = "push" => Accepted(p)
    BY <1>1 DEF Alone, Accepted
  <2>3. pc[p] = "push"
    BY <1>7, StepMoves DEF Push
  <2>4. Apply(p) /\ committed
    BY <2>1, <2>2, <2>3
  <2>5. /\ git'[run[p].repo].tenants =
               NewContent(run[p].repo, run[p].request, run[p].seen)
        /\ \A repo \in Repos : repo # run[p].repo => git'[repo] = git[repo]
        /\ run[p].seen = git[run[p].repo].tenants
        /\ Deletable(run[p].request, run[p].seen)
    BY <1>1, <1>2, <2>1, <2>4, ApplyEffect DEF Alone, Level
  <2>6. CASE run[p].repo = "backend"
    BY <1>1, <1>2, <2>1, <2>4, <2>5, <2>6
       DEF Level, Changing, Working, Backend, Agent, Repos, NewContent
  <2>7. CASE run[p].repo = "agent"
    BY <1>1, <1>2, <2>1, <2>4, <2>5, <2>7
       DEF Level, Changing, Working, Backend, Agent, Repos
  <2> QED BY <1>1, <2>6, <2>7, ReadSets DEF Repos
<1> QED BY <1>3, <1>4, <1>5, <1>6, <1>7 DEF Reads

LEMMA StepStranding ==
    ASSUME TypeInv, Stranding, NEW p \in Procs, Reads(p) \/ Pushes(p) \/ Leaves(p)
    PROVE  Stranding'
<1>0. \A q \in Procs : q # p => pc'[q] = pc[q] /\ run'[q] = run[q]
  BY OthersRest
<1> SUFFICES ASSUME NEW t \in stranded'
             PROVE  /\ HalfRemoved(t)'
                    /\ pc'[p] # "idle" =>
                        /\ Adds(p)' => t \notin Of(p)'
                        /\ Changing(p)' => (t \in run'[p].seen <=> run'[p].repo = "agent")
                        /\ Changing(p)' \/ (pc'[p] = "download" /\ run'[p].repo = "agent") =>
                               ~(Deletes(p)' /\ t \in Of(p)')
                    /\ t \in stranded \/ Idle'
  BY <1>0 DEF Stranding, HalfRemoved, Adds, Deletes, Of, Changing, Idle
<1>1. CASE Reads(p)
  <2>1. /\ stranded' = stranded /\ git' = git /\ t \in stranded /\ pc[p] # "idle"
        /\ run'[p].request = run[p].request
    BY <1>1, DownloadEffect, DownloadFailsEffect, FetchEffect DEF Reads
  <2>2. HalfRemoved(t) /\ HalfRemoved(t)' /\ run[p].repo \in Repos
    BY <2>1, ReadSets DEF Stranding, HalfRemoved
  <2>3. CASE Download(p)
    BY <2>1, <2>2, <2>3, DownloadEffect
       DEF Stranding, HalfRemoved, Adds, Deletes, Of, Changing, Deletable, Repos
  <2>4. CASE DownloadFails(p)
    BY <2>1, <2>2, <2>4, DownloadFailsEffect DEF Stranding, Adds, Of, Changing
  <2>5. CASE Fetch(p)
    BY <2>1, <2>2, <2>5, FetchEffect DEF Stranding, Adds, Deletes, Of, Changing
  <2> QED BY <1>1, <2>3, <2>4, <2>5 DEF Reads
<1>2. CASE Leaves(p)
  <2>1. git' = git /\ pc'[p] = "idle"
    BY <1>2, LeaveEffect
  <2>2. t \in stranded \/ (HalfRemoved(t) /\ \A q \in Procs \ {p} : pc[q] = "idle")
    BY <1>2 DEF Leaves, Return, Crash, Leave
  <2>3. t \in stranded \/ Idle'
    BY <1>0, <2>1, <2>2 DEF Idle
  <2>4. HalfRemoved(t)'
    BY <2>1, <2>2 DEF Stranding, HalfRemoved
  <2> QED BY <2>1, <2>3, <2>4
<1>3. CASE Pushes(p)
  <2>1. /\ Changing(p) /\ pc[p] # "idle"
        /\ stranded' = stranded
        /\ git' = git \/ Apply(p)
        /\ run'[p].request = run[p].request
        /\ pc'[p] \in {"download", "success", "failure"}
    BY <1>3, PushEffect DEF Changing
  <2>2. /\ HalfRemoved(t) /\ t \in stranded
        /\ Adds(p) => t \notin Of(p)
        /\ t \in run[p].seen <=> run[p].repo = "agent"
        /\ ~(Deletes(p) /\ t \in Of(p))
    BY <2>1 DEF Stranding
  <2>3. /\ run[p].request \in Requests /\ run[p].repo \in Repos
        /\ run[p].seen \in SUBSET Tenants
        /\ Adds(p) \/ Deletes(p)
    BY <2>1, ReadSets, RequestTypes DEF Adds, Deletes
  <2>4. t \in NewContent(run[p].repo, run[p].request, run[p].seen) <=> run[p].repo = "agent"
    BY <2>2, <2>3, AddedOrDeleted DEF Of
  <2>5. HalfRemoved(t)'
    BY <2>1, <2>2, <2>3, <2>4, ApplyEffect DEF HalfRemoved, Repos
  <2> QED BY <2>1, <2>2, <2>5 DEF Adds, Deletes, Of, Changing
<1> QED BY <1>1, <1>2, <1>3

LEMMA StepKept ==
    ASSUME TypeInv, Kept, NEW p \in Procs, Reads(p) \/ Pushes(p) \/ Leaves(p)
    PROVE  Kept'
<1>0. \A q \in Procs : q # p => pc'[q] = pc[q] /\ run'[q] = run[q]
  BY OthersRest
<1> SUFFICES ASSUME NEW t \in Unasked
             PROVE  /\ \A repo \in Repos : t \in git'[repo].tenants <=> t \in Configured
                    /\ Changing(p)' => (t \in run'[p].seen <=> t \in Configured)
  BY <1>0 DEF Kept, Changing, Unasked
<1>1. CASE Download(p)
  BY <1>1, DownloadEffect, ReadSets DEF Kept, Changing
<1>2. CASE DownloadFails(p)
  BY <1>2, DownloadFailsEffect DEF Kept, Changing
<1>3. CASE Fetch(p)
  BY <1>3, FetchEffect DEF Kept, Changing
<1>4. CASE Leaves(p)
  BY <1>4, LeaveEffect DEF Kept, Changing
<1>5. CASE Pushes(p)
  <2>1. /\ Changing(p) /\ pc[p] # "idle" /\ ~Changing(p)'
        /\ git' = git \/ Apply(p)
    BY <1>5, PushEffect DEF Changing
  <2>2. /\ run[p].request \in Requests /\ run[p].repo \in Repos
        /\ run[p].seen \in SUBSET Tenants
        /\ t \notin run[p].request.tenants
    BY <2>1, ReadSets DEF Unasked
  <2>3. t \in NewContent(run[p].repo, run[p].request, run[p].seen) <=> t \in Configured
    BY <2>1, <2>2, AddedOrDeleted DEF Kept
  <2> QED BY <2>1, <2>2, <2>3, ApplyEffect DEF Kept
<1> QED BY <1>1, <1>2, <1>3, <1>4, <1>5 DEF Reads

LEMMA StartKeeps ==
    ASSUME BranchInv, NEW p \in Procs, NEW r \in Requests, Start(p, r)
    PROVE  Alone' /\ Level' /\ Stranding' /\ Kept'
<1>1. /\ git' = git /\ faults' = faults
      /\ overlapped' = (overlapped \/ ~Idle)
      /\ stranded' = IF r.op = "add" THEN stranded \ r.tenants ELSE stranded
  BY DEF Start, NoFault
<1>2. /\ pc[p] = "idle" /\ pc'[p] = "download"
      /\ run'[p].request = r /\ run'[p].repo = "backend"
      /\ \A q \in Procs : q # p => pc'[q] = pc[q] /\ run'[q] = run[q]
  BY StartEffect DEF BranchInv
<1>3. ~overlapped' => \A q \in Procs : q # p => pc[q] = "idle" /\ pc'[q] = "idle"
  BY <1>1, <1>2 DEF Idle, BranchInv, TypeInv, TypeOK
<1>4. Alone'
  BY <1>2, <1>3 DEF Alone, Changing, Working
<1>5. Level'
  <2>1. ~overlapped' /\ faults' = 0 => Backend = Agent
    BY <1>1 DEF BranchInv, Level, TypeInv, TypeOK
  <2> QED BY <1>1, <1>2, <1>3, <2>1 DEF Level, Changing, Working, Idle, Backend, Agent
<1>6. Stranding'
  BY <1>1, <1>2 DEF BranchInv, Stranding, HalfRemoved, Adds, Deletes, Of, Changing
<1>7. Kept'
  BY <1>1, <1>2 DEF BranchInv, Kept, Changing
<1> QED BY <1>4, <1>5, <1>6, <1>7

LEMMA NextBranchInv == BranchInv /\ [Next]_vars => BranchInv'
<1> SUFFICES ASSUME BranchInv, [Next]_vars PROVE BranchInv'
  OBVIOUS
<1>1. TypeInv'
  BY NextTypeInv DEF BranchInv
<1>2. CASE UNCHANGED vars
  BY <1>1, <1>2 DEF vars, historyVars, BranchInv, Alone, Level, Stranding, Kept, Working,
     Changing, Adds, Deletes, Of, Backend, Agent, Idle, HalfRemoved
<1>3. ASSUME NEW p \in Procs, Reads(p) \/ Pushes(p) \/ Leaves(p) PROVE BranchInv'
  BY <1>1, <1>3, StepAlone, StepLevel, StepStranding, StepKept DEF BranchInv
<1>4. ASSUME NEW p \in Procs, NEW r \in Requests, Start(p, r) PROVE BranchInv'
  BY <1>1, <1>4, StartKeeps DEF BranchInv
<1> QED BY <1>2, <1>3, <1>4 DEF Next, Reads, Pushes, Leaves

LEMMA InitBranchInv == Init => BranchInv
<1> SUFFICES ASSUME Init PROVE BranchInv
  OBVIOUS
<1>1. Alone /\ Level /\ Stranding /\ Kept
  BY DEF Init, Alone, Level, Stranding, Kept, Working, Changing, Backend, Agent, Repos
<1> QED BY <1>1, InitTypeInv DEF BranchInv

LEMMA BranchInvHolds == Spec => []BranchInv
BY InitBranchInv, NextBranchInv, PTL DEF Spec

-------------------------------------------------------------------------------
\* commit_new_tenants and remove_tenant report a success only when both branches have
\* changed as asked, unless another request overlapped.
THEOREM SuccessInBoth == Spec => []SuccessIsReal
<1>1. BranchInv => SuccessIsReal
  BY DEF BranchInv, Alone, SuccessIsReal, Of, Adds, Backend, Agent, Repos
<1> QED BY <1>1, BranchInvHolds, PTL

\* Without failures and overlaps the branches name the same tenants between requests:
\* an addition pushes both, a deletion that finds the tenant in one finds it in both.
THEOREM BranchesLevel == Spec => []BranchesAgree
<1>1. BranchInv => BranchesAgree
  BY DEF BranchInv, Level, BranchesAgree, Backend, Agent
<1> QED BY <1>1, BranchInvHolds, PTL

\* A tenant that remove_tenant left in the agent branch alone is there until it is
\* added again: every later deletion of it fails at the backend branch.
THEOREM HalfRemovedForGood == Spec => []HalfRemovedStays
<1>1. BranchInv => HalfRemovedStays
  BY DEF BranchInv, Stranding, HalfRemovedStays
<1> QED BY <1>1, BranchInvHolds, PTL

-------------------------------------------------------------------------------
Members == Backend \cap Agent
Asks == [p \in Procs |-> run[p].request]

\* A push on top of what it has read adds or removes what was asked for, as far as the
\* other branch has it too.
LEMMA PushAddsOrDeletes ==
    ASSUME BranchInv, NEW p \in Procs, Changing(p), Apply(p), Asks' = Asks,
           run[p].seen = git[run[p].repo].tenants
    PROVE  Registry!Add(p) \/ Registry!Delete(p)
<1>1. /\ run[p].request \in Requests /\ run[p].repo \in Repos
      /\ Adds(p) \/ Deletes(p)
      /\ clobbers' = clobbers
  BY ReadSets, RequestTypes DEF BranchInv, Changing, Adds, Deletes, Apply
<1>2. /\ git'[run[p].repo].tenants = NewContent(run[p].repo, run[p].request, git[run[p].repo].tenants)
      /\ \A repo \in Repos : repo # run[p].repo => git'[repo] = git[repo]
  BY ApplyEffect DEF BranchInv
<1>3. Asks[p] = run[p].request
  BY DEF Asks
<1>4. CASE Adds(p)
  <2>1. Members' = Members \cup (Members' \ Members) /\ Members' \ Members \subseteq Of(p)
    BY <1>1, <1>2, <1>4 DEF Members, Backend, Agent, NewContent, Repos, Adds, Of
  <2> QED BY <1>1, <1>3, <1>4, <2>1 DEF Registry!Add, Members, Backend, Agent, Asks, Adds, Of
<1>5. CASE Deletes(p)
  <2>1. Members' = Members \ Of(p)
    BY <1>1, <1>2, <1>5 DEF Members, Backend, Agent, NewContent, Repos, Deletes, Of
  <2> QED BY <1>1, <1>3, <1>5, <2>1 DEF Registry!Delete, Members, Backend, Agent, Asks, Deletes, Of
<1> QED BY <1>1, <1>4, <1>5

\* Any other push counts as an overwrite; whatever it writes, who was never asked for
\* is there exactly if configured at the start.
LEMMA PushOverwrites ==
    ASSUME BranchInv, BranchInv', NEW p \in Procs, Changing(p), Apply(p), Asks' = Asks,
           run[p].seen # git[run[p].repo].tenants
    PROVE  Registry!Overwrite
<1>1. clobbers' = clobbers + 1
  BY DEF Apply
<1>2. Members' \subseteq Tenants
  BY DEF BranchInv, TypeInv, TypeOK, Members, Backend, Agent, Repos
<1>3. \A t \in Unasked : t \in Members' => t \in Members
  BY DEF BranchInv, Kept, Members, Backend, Agent, Repos, Unasked
<1>4. Members' \subseteq Members \cup UNION {r.tenants : r \in Requests}
  BY <1>2, <1>3 DEF Unasked
<1> QED BY <1>1, <1>4 DEF Registry!Overwrite, Registry!AllTenants, Members, Backend, Agent, Asks

LEMMA StepRegisters ==
    ASSUME BranchInv, BranchInv', [Next]_vars
    PROVE  [Registry!RegistryNext]_(Registry!registryVars)
<1>1. CASE UNCHANGED vars
  BY <1>1 DEF vars, historyVars, Registry!registryVars
<1>2. ASSUME NEW p \in Procs, NEW r \in Requests, Start(p, r)
      PROVE  Registry!Open(p)
  <2>1. /\ pc[p] = "idle" /\ run'[p].request = r
        /\ \A q \in Procs : q # p => run'[q] = run[q]
    BY <1>2, StartEffect DEF BranchInv
  <2>2. Asks' = [Asks EXCEPT ![p] = r] /\ Asks[p] = NoRequest
    <3>1. run[p].request = NoRequest
      BY <2>1 DEF BranchInv, TypeInv, Asked, NoOperation
    <3> QED BY <2>1, <3>1 DEF Asks
  <2>3. git' = git /\ clobbers' = clobbers
    BY <1>2 DEF Start
  <2> QED BY <2>2, <2>3 DEF Registry!Open, Asks
<1>3. ASSUME NEW p \in Procs, Leaves(p) PROVE Registry!Close(p)
  <2>1. /\ pc[p] # "idle" /\ run'[p] = NoOperation
        /\ \A q \in Procs : q # p => run'[q] = run[q]
    BY <1>3, LeaveEffect, OthersRest DEF BranchInv
  <2>2. Asks' = [Asks EXCEPT ![p] = NoRequest] /\ Asks[p] # NoRequest
    <3>1. run[p].request # NoRequest /\ run'[p].request = NoRequest
      BY <2>1, RequestTypes DEF BranchInv, TypeInv, Asked, NoOperation
    <3> QED BY <2>1, <3>1 DEF Asks
  <2>3. git' = git /\ clobbers' = clobbers
    BY <1>3 DEF Leaves, Return, Crash, Leave
  <2> QED BY <2>2, <2>3 DEF Registry!Close, Asks
<1>4. ASSUME NEW p \in Procs, Reads(p) \/ Pushes(p) PROVE Asks' = Asks
  <2>1. run'[p].request = run[p].request
    BY <1>4, DownloadEffect, DownloadFailsEffect, FetchEffect, PushEffect DEF BranchInv, Reads
  <2> QED BY <1>4, <2>1, OthersRest DEF Asks, BranchInv
<1>5. ASSUME NEW p \in Procs, Reads(p) PROVE UNCHANGED Registry!registryVars
  <2>1. git' = git /\ clobbers' = clobbers
    BY <1>5 DEF Reads, Download, DownloadFails, Fetch, historyVars
  <2> QED BY <1>4, <1>5, <2>1 DEF Registry!registryVars, Asks
<1>6. ASSUME NEW p \in Procs, Pushes(p)
      PROVE  Registry!Add(p) \/ Registry!Delete(p) \/ Registry!Overwrite
             \/ UNCHANGED Registry!registryVars
  <2>1. Changing(p) /\ ((git' = git /\ clobbers' = clobbers) \/ Apply(p)) /\ Asks' = Asks
    BY <1>4, <1>6, PushIsFinal DEF BranchInv
  <2>2. CASE git' = git /\ clobbers' = clobbers
    BY <2>1, <2>2 DEF Registry!registryVars, Asks
  <2> QED BY <2>1, <2>2, PushAddsOrDeletes, PushOverwrites
<1> QED BY <1>1, <1>2, <1>3, <1>5, <1>6
        DEF Next, Reads, Pushes, Leaves, Registry!RegistryNext

\* The branches implement the registry: the tenants in both change only through a
\* process that is asked for it, or by an overwrite, which is counted; whoever fails
\* or crashes and however requests overlap.
THEOREM BranchesImplementRegistry == Spec => ImplementsRegistry
<1>1. Init => Asks = [p \in Procs |-> NoRequest] /\ clobbers = 0
  BY DEF Init, Asks, NoOperation
<1>2. BranchInv /\ BranchInv' /\ [Next]_vars =>
          [Registry!RegistryNext]_(Registry!registryVars)
  BY StepRegisters
<1> QED BY <1>1, <1>2, BranchInvHolds, PTL
        DEF Spec, ImplementsRegistry, Registry!RegistrySpec, Asks
===============================================================================

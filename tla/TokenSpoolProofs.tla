---------------------------- MODULE TokenSpoolProofs ----------------------------
(***************************************************************************)
(* The token spool files, for any number of processes, tenants, files,     *)
(* sessions and faults.                                                    *)
(***************************************************************************)
EXTENDS TokenSpool, FiniteSetTheorems, TLAPS

Places == {"idle", "load", "refresh", "write", "deploy", "monbox"}
In(k, s) == k[2] \in Components[s]
Own(p, k) == In(k, run[p].spool)

\* What is still to be obtained is a lacking token of the session's own file.
Tidy ==
    \A p \in Procs :
        /\ run[p].todo \subseteq KeysOf(run[p].tenants, run[p].spool)
        /\ pc[p] # "refresh" => run[p].todo = {}
        /\ \A k \in run[p].todo : run[p].tokens[k] <= Empty

\* Who may still have a token of k issued: twice at most, which bounds the tokens.
MayObtain(k) == {p \in Procs : pc[p] = "load" \/ k \in run[p].todo}
Issued ==
    \A k \in Keys : /\ IsFiniteSet(MayObtain(k))
                    /\ server[k] + 2 * Cardinality(MayObtain(k)) <= 2 * sessions

\* Nobody has a token that was not issued.
Known == \A k \in Keys : /\ file[k] <= server[k]
                         /\ \A p \in Procs : run[p].tokens[k] <= server[k]

TypeInv == TypeOK /\ Tidy /\ Issued /\ Known

-------------------------------------------------------------------------------
WorksOn(p, k) == pc[p] \in {"refresh", "write"} /\ Own(p, k)

\* The token is in the file, or about to be written to it.
Saved(k) == \/ file[k] > Empty
            \/ \E p \in Procs : pc[p] = "write" /\ Own(p, k) /\ run[p].tokens[k] > Empty

\* A copy of the token outside of its file and of the session at work on it.
Good(copy, k) == copy > Empty => copy = server[k] /\ Saved(k)

\* One session at a time works on the file, from what it has loaded; and a token that
\* has left the session is saved, hence never obtained again.
Fresh(k) ==
    /\ \A p \in Procs : \A q \in Procs : WorksOn(p, k) /\ WorksOn(q, k) => p = q
    /\ file[k] > Empty => file[k] = server[k]
    /\ \A p \in Procs : WorksOn(p, k) =>
        /\ run[p].tokens[k] > Empty => run[p].tokens[k] = server[k]
        /\ pc[p] = "refresh" /\ (file[k] > Empty \/ ~run[p].any_refresh) =>
               run[p].tokens[k] = file[k]
        /\ pc[p] = "write" => file[k] = Absent
    /\ \A p \in Procs :
        /\ Good(run[p].snapshot[k], k)
        /\ pc[p] \in {"deploy", "monbox"} /\ Own(p, k) => Good(run[p].tokens[k], k)
    /\ Good(host[k], k) /\ Good(monbox[k], k)
    /\ host[k] # Absent => host[k] > Empty

Freshness == \A k \in Keys : Undisturbed(k) => Fresh(k)

\* A condemned token is not the newest, wherever it is; nobody is to obtain another, and
\* the file has it unless it is just being written again.
Doomed(k) ==
    /\ file[k] # server[k]
    /\ file[k] > Empty \/ \E p \in Procs : pc[p] = "write" /\ Own(p, k)
    /\ \A p \in Procs : WorksOn(p, k) =>
           /\ k \notin run[p].todo
           /\ run[p].tokens[k] > Empty /\ run[p].tokens[k] # server[k]

Condemnation == \A k \in condemned : Doomed(k)

SpoolInv == TypeInv /\ Freshness /\ Condemnation

-------------------------------------------------------------------------------
LEMMA GotoEffect ==
    ASSUME TypeOK, NEW p \in Procs, NEW l, NEW r, Goto(p, l, r)
    PROVE  /\ pc'[p] = l /\ run'[p] = r
           /\ \A q \in Procs : q # p => pc'[q] = pc[q] /\ run'[q] = run[q]
BY DEF TypeOK, Goto

LEMMA KeyFacts ==
    ASSUME NEW k \in Keys
    PROVE  /\ \E s \in Spools : In(k, s)
           /\ \A s, z \in Spools : In(k, s) /\ In(k, z) => s = z
<1>1. PICK s \in Spools : k \in Tenants \X Components[s]
  BY DEF Keys
<1>2. \A s1, s2 \in Spools : s1 # s2 => Components[s1] \cap Components[s2] = {}
  BY TokenSpoolAssumption, Zenon
<1> QED BY <1>1, <1>2 DEF In

LEMMA KeysOfKeys ==
    ASSUME NEW s \in Spools, NEW tenants \in SUBSET Tenants
    PROVE  /\ KeysOf(tenants, s) \subseteq Keys
           /\ \A k \in KeysOf(tenants, s) : In(k, s)
BY DEF KeysOf, Keys, In

LEMMA SpoolTypes ==
    /\ MaxSessions \in Nat /\ MaxFaults \in Nat /\ MaxTokens \in Nat
    /\ None \in [Keys -> Token]
    /\ NoSession \in Session /\ NoSession.todo = {} /\ NoSession.tokens = None
    /\ NoSession.snapshot = None /\ \A k \in Keys : None[k] = Absent
<1>1. MaxSessions \in Nat /\ MaxFaults \in Nat /\ Spools # {}
  BY TokenSpoolAssumption, Zenon
<1>2. MaxTokens \in Nat
  BY <1>1 DEF MaxTokens
<1>3. Absent \in Token
  BY <1>2 DEF Token, Absent
<1>4. None \in [Keys -> Token] /\ \A k \in Keys : None[k] = Absent
  BY <1>3 DEF None
<1>5. (CHOOSE s \in Spools : TRUE) \in Spools
  BY <1>1
<1>6. NoSession \in Session
  BY <1>4, <1>5 DEF NoSession, Session, Modes
<1> QED BY <1>1, <1>2, <1>4, <1>6 DEF NoSession

LEMMA SessionRequestTypes ==
    ASSUME NEW z \in Sessions
    PROVE  z.spool \in Spools /\ z.mode \in Modes /\ z.tenants \in SUBSET Tenants
<1>1. z \in [spool : Spools, mode : Modes, tenants : SUBSET Tenants]
  BY TokenSpoolAssumption, Zenon
<1> QED BY <1>1

LEMMA RunTypes ==
    ASSUME TypeOK, NEW p \in Procs
    PROVE  /\ run[p] \in Session /\ pc[p] \in Places
           /\ run[p].spool \in Spools /\ run[p].tenants \in SUBSET Tenants
           /\ run[p].todo \in SUBSET Keys /\ run[p].tokens \in [Keys -> Token]
           /\ run[p].snapshot \in [Keys -> Token]
BY DEF TypeOK, Session, Places

\* With one more token each, the session that obtains them has not more than its two.
LEMMA IssueBound ==
    ASSUME TypeInv, NEW k \in Keys, NEW p \in MayObtain(k)
    PROVE  server[k] + 2 <= MaxTokens /\ server[k] \in Nat
<1>1. /\ IsFiniteSet(MayObtain(k))
      /\ server[k] + 2 * Cardinality(MayObtain(k)) <= 2 * sessions
      /\ sessions \in 0..MaxSessions /\ server[k] \in Nat
  BY DEF TypeInv, TypeOK, Issued
<1>2. Cardinality(MayObtain(k)) \in Nat /\ Cardinality(MayObtain(k)) # 0
  BY <1>1, FS_CardinalityType, FS_EmptySet
<1> QED BY <1>1, <1>2, SpoolTypes DEF MaxTokens

-------------------------------------------------------------------------------
\* What the steps of a session do to it and to the tokens.
LEMMA BeginEffect ==
    ASSUME TypeInv, NEW p \in Procs, NEW z \in Sessions, Begin(p, z)
    PROVE  /\ pc[p] = "idle" /\ pc'[p] = "load"
           /\ run'[p] \in Session /\ run'[p].todo = {} /\ run'[p].tokens = None
           /\ run'[p].snapshot \in {file, None}
           /\ \A q \in Procs : q # p => pc'[q] = pc[q] /\ run'[q] = run[q]
           /\ sessions < MaxSessions /\ sessions' = sessions + 1
           /\ UNCHANGED <<file, server, host, monbox, faults, disturbed, condemned>>
<1> DEFINE snapshot == IF z.spool = "restapi" THEN file ELSE None
           next == [NoSession EXCEPT !.spool = z.spool, !.mode = z.mode,
                                     !.tenants = z.tenants, !.snapshot = snapshot]
<1>1. snapshot \in {file, None} /\ snapshot \in [Keys -> Token]
  BY SpoolTypes DEF TypeInv, TypeOK
<1> HIDE DEF snapshot
<1>2. /\ next \in Session /\ next.todo = {} /\ next.tokens = None
      /\ next.snapshot = snapshot
  BY <1>1, SpoolTypes, SessionRequestTypes DEF Session, NoSession
<1>3. Goto(p, "load", next)
  BY DEF Begin, snapshot
<1> HIDE DEF next
<1> QED BY <1>1, <1>2, <1>3, GotoEffect
        DEF TypeInv, Begin, NoFault, hostVars, historyVars

LEMMA LoadEffect ==
    ASSUME TypeInv, NEW p \in Procs, Load(p)
    PROVE  \E loaded \in {file, None} :
               /\ pc[p] = "load" /\ pc'[p] = "refresh"
               /\ run'[p] \in Session
               /\ run'[p].spool = run[p].spool /\ run'[p].snapshot = run[p].snapshot
               /\ run'[p].tokens = loaded
               /\ run'[p].todo \subseteq KeysOf(run'[p].tenants, run'[p].spool)
               /\ \A k \in run'[p].todo : loaded[k] <= Empty
               /\ \A q \in Procs : q # p => pc'[q] = pc[q] /\ run'[q] = run[q]
               /\ \/ /\ loaded = file /\ UNCHANGED <<disturbed, condemned>>
                     /\ ~\E q \in Procs : Busy(q, run[p].spool)
                  \/ Disturb(run[p].spool)
               /\ faults' \in 0..MaxFaults
               /\ UNCHANGED <<file, server, host, monbox, sessions>>
<1>1. /\ pc[p] = "load"
      /\ UNCHANGED <<file, server, host, monbox, sessions>>
  BY DEF Load, hostVars
<1>2. PICK loaded \in {file, None} :
          /\ \/ loaded = file /\ NoFault
                /\ IF \E q \in Procs : Busy(q, run[p].spool)
                   THEN Disturb(run[p].spool) ELSE Calm
             \/ loaded # file /\ Fault("unreadable") /\ Disturb(run[p].spool)
          /\ Goto(p, "refresh", [run[p] EXCEPT
                !.tokens = loaded,
                !.todo = IF Refreshes(run[p])
                         THEN Lacking(loaded, KeysOf(run[p].tenants, run[p].spool)) ELSE {}])
  BY DEF Load
<1> DEFINE todo == IF Refreshes(run[p])
                   THEN Lacking(loaded, KeysOf(run[p].tenants, run[p].spool)) ELSE {}
           next == [run[p] EXCEPT !.tokens = loaded, !.todo = todo]
<1>3. /\ todo \subseteq KeysOf(run[p].tenants, run[p].spool)
      /\ \A k \in todo : loaded[k] <= Empty
  BY DEF Lacking
<1>4. todo \in SUBSET Keys /\ loaded \in [Keys -> Token]
  BY <1>3, RunTypes, KeysOfKeys, SpoolTypes DEF TypeInv, TypeOK
<1> HIDE DEF todo
<1>5. /\ next \in Session /\ next.todo = todo /\ next.tokens = loaded
      /\ next.tenants = run[p].tenants /\ next.spool = run[p].spool
      /\ next.snapshot = run[p].snapshot
  BY <1>4, RunTypes DEF Session, TypeInv
<1>6. Goto(p, "refresh", next)
  BY <1>2 DEF todo
<1> HIDE DEF next
<1>7. /\ pc'[p] = "refresh" /\ run'[p] = next
      /\ \A q \in Procs : q # p => pc'[q] = pc[q] /\ run'[q] = run[q]
  BY <1>6, GotoEffect DEF TypeInv
<1>8. faults' \in 0..MaxFaults
  BY <1>2, SpoolTypes DEF NoFault, Fault, TypeInv, TypeOK
<1>9. \/ /\ loaded = file /\ UNCHANGED <<disturbed, condemned>>
         /\ ~\E q \in Procs : Busy(q, run[p].spool)
      \/ Disturb(run[p].spool)
  BY <1>2 DEF Calm, historyVars
<1> QED BY <1>1, <1>3, <1>5, <1>7, <1>8, <1>9

\* The session r once it has t for k, after one request that had n tokens issued.
Answered(p, k, n, t, r) ==
    /\ server' = [server EXCEPT ![k] = server[k] + n]
    /\ Goto(p, "refresh", r)
    /\ r \in Session
    /\ r.spool = run[p].spool /\ r.tenants = run[p].tenants
    /\ r.snapshot = run[p].snapshot
    /\ r.todo = run[p].todo \ {k}
    /\ r.tokens = [run[p].tokens EXCEPT ![k] = t]
    /\ \/ t = Empty
       \/ t = run[p].tokens[k]
       \/ t = server[k] + n
       \/ n = 2 /\ t = server[k] + 1 /\ Disturb(run[p].spool)
    /\ r.any_refresh = TRUE \/ (r.any_refresh = run[p].any_refresh /\ t = run[p].tokens[k])
    /\ Disturb(run[p].spool) \/ UNCHANGED <<disturbed, condemned>>
    /\ faults' \in 0..MaxFaults

\* One request for a token: n are issued, and t is what the session has then.
LEMMA ObtainEffect ==
    ASSUME TypeInv, NEW p \in Procs, ObtainOne(p)
    PROVE  /\ pc[p] = "refresh" /\ pc'[p] = "refresh"
           /\ \E k \in run[p].todo : \E n \in 0..2 : \E t \in Token :
                  Answered(p, k, n, t, run'[p])
           /\ \A q \in Procs : q # p => pc'[q] = pc[q] /\ run'[q] = run[q]
           /\ UNCHANGED <<file, host, monbox, sessions>>
<1>1. /\ pc[p] = "refresh" /\ UNCHANGED <<file, host, monbox, sessions>>
  BY DEF ObtainOne, hostVars
<1>2. PICK k \in run[p].todo : Generate(p, k) \/ Refresh(p, k) \/ RefreshGivesNothing(p, k)
  BY DEF ObtainOne
<1>3. /\ run[p] \in Session /\ run[p].tokens \in [Keys -> Token] /\ k \in Keys
      /\ run[p].todo \in SUBSET Keys
      /\ server[k] \in Nat /\ server[k] + 2 <= MaxTokens /\ MaxTokens \in Nat
  <2>1. k \in Keys
    BY RunTypes DEF TypeInv
  <2>2. p \in MayObtain(k)
    BY DEF MayObtain
  <2> QED BY <2>1, <2>2, RunTypes, IssueBound, SpoolTypes DEF TypeInv
<1> DEFINE with(t) == [run[p].tokens EXCEPT ![k] = t]
           next(t) == [run[p] EXCEPT !.todo = @ \ {k}, !.any_refresh = TRUE, !.tokens = with(t)]
<1>4. ASSUME NEW t \in Token
      PROVE  /\ next(t) \in Session
             /\ next(t).spool = run[p].spool /\ next(t).tenants = run[p].tenants
             /\ next(t).snapshot = run[p].snapshot
             /\ next(t).todo = run[p].todo \ {k}
             /\ next(t).tokens = with(t)
             /\ next(t).any_refresh = TRUE
  <2>1. with(t) \in [Keys -> Token] /\ run[p].todo \ {k} \in SUBSET Keys
    BY <1>3
  <2> HIDE DEF with
  <2> QED BY <1>3, <2>1 DEF Session
<1>5. /\ Fault("retried") \/ Fault("late") \/ Fault("empty") \/ Fault("client") \/ NoFault =>
               faults' \in 0..MaxFaults
      /\ Calm => UNCHANGED <<disturbed, condemned>>
  BY SpoolTypes DEF Fault, NoFault, TypeInv, TypeOK, Calm, historyVars
<1>6. ASSUME NEW n \in {1, 2}, NEW late \in {0, 1}, Obtain(p, k, n, late),
             late = 0 \/ (n = 2 /\ Disturb(run[p].spool)),
             Disturb(run[p].spool) \/ UNCHANGED <<disturbed, condemned>>,
             faults' \in 0..MaxFaults
      PROVE  \E t \in Token : Answered(p, k, n, t, next(t))
  <2> DEFINE t == server[k] + n - late
  <2>1. t \in Token
    BY <1>3 DEF Token, Absent
  <2>2. server' = [server EXCEPT ![k] = server[k] + n] /\ Goto(p, "refresh", next(t))
    BY <1>3, <1>6 DEF Obtain, Session, next
  <2>3. t = server[k] + n \/ (n = 2 /\ t = server[k] + 1 /\ Disturb(run[p].spool))
    BY <1>3, <1>6
  <2> HIDE DEF t
  <2>4. Answered(p, k, n, t, next(t))
    <3>1. /\ next(t) \in Session
          /\ next(t).spool = run[p].spool /\ next(t).tenants = run[p].tenants
          /\ next(t).snapshot = run[p].snapshot
          /\ next(t).todo = run[p].todo \ {k}
          /\ next(t).tokens = with(t)
          /\ next(t).any_refresh = TRUE
      BY <1>4, <2>1
    <3> QED BY <1>6, <2>2, <2>3, <3>1 DEF Answered
  <2> QED BY <2>1, <2>4
<1> HIDE DEF next
<1>7. ASSUME NEW n \in 0..2, NEW t \in Token, NEW r, Answered(p, k, n, t, r)
       PROVE  /\ pc'[p] = "refresh" /\ Answered(p, k, n, t, run'[p])
              /\ \A q \in Procs : q # p => pc'[q] = pc[q] /\ run'[q] = run[q]
  <2>1. Goto(p, "refresh", r)
    BY <1>7 DEF Answered
  <2>2. /\ pc'[p] = "refresh" /\ run'[p] = r
        /\ \A q \in Procs : q # p => pc'[q] = pc[q] /\ run'[q] = run[q]
    BY <2>1, GotoEffect DEF TypeInv
  <2> QED BY <1>7, <2>2
<1>8. CASE Generate(p, k)
  <2>1. \E t \in Token : Answered(p, k, 1, t, next(t))
    BY <1>5, <1>6, <1>8 DEF Generate
  <2> QED BY <1>1, <1>7, <2>1
<1>9. CASE Refresh(p, k)
  <2>1. \E n \in {1, 2} : \E t \in Token : Answered(p, k, n, t, next(t))
    BY <1>5, <1>6, <1>9 DEF Refresh
  <2> QED BY <1>1, <1>7, <2>1
<1>10. CASE RefreshGivesNothing(p, k)
  <2>1. PICK n \in {0, 1} : server' = [server EXCEPT ![k] = server[k] + n]
    BY <1>3, <1>10 DEF RefreshGivesNothing
  <2>2. CASE /\ Fault("empty")
             /\ Goto(p, "refresh", [run[p] EXCEPT !.todo = @ \ {k}, !.any_refresh = TRUE,
                                                  !.tokens[k] = Empty])
    <3>1. Goto(p, "refresh", next(Empty)) /\ Empty \in Token
      BY <1>3, <2>2 DEF Session, Token, Empty, Absent, next
    <3>2. Answered(p, k, n, Empty, next(Empty))
      <4>1. UNCHANGED <<disturbed, condemned>> /\ faults' \in 0..MaxFaults
        BY <1>5, <1>10, <2>2 DEF RefreshGivesNothing
      <4> QED BY <1>4, <2>1, <3>1, <4>1 DEF Answered
    <3> QED BY <1>1, <1>7, <3>1, <3>2
  <2>3. CASE /\ Fault("client")
             /\ Goto(p, "refresh", [run[p] EXCEPT !.todo = @ \ {k}])
    <3> DEFINE r == [run[p] EXCEPT !.todo = @ \ {k}]
               t == run[p].tokens[k]
    <3>1. /\ r \in Session /\ t \in Token
          /\ r.spool = run[p].spool /\ r.tenants = run[p].tenants
          /\ r.snapshot = run[p].snapshot
          /\ r.todo = run[p].todo \ {k}
          /\ r.tokens = run[p].tokens
          /\ r.any_refresh = run[p].any_refresh
      BY <1>3 DEF Session
    <3>2. run[p].tokens = [run[p].tokens EXCEPT ![k] = t]
      BY <1>3
    <3>3. UNCHANGED <<disturbed, condemned>> /\ faults' \in 0..MaxFaults
      BY <1>5, <1>10, <2>3 DEF RefreshGivesNothing
    <3>4. Goto(p, "refresh", r)
      BY <2>3
    <3> HIDE DEF r, t
    <3>5. Answered(p, k, n, t, r)
      <4>1. t = run[p].tokens[k]
        BY DEF t
      <4> QED BY <2>1, <3>1, <3>2, <3>3, <3>4, <4>1 DEF Answered
    <3> QED BY <1>1, <1>7, <3>1, <3>5
  <2> QED BY <1>10, <2>2, <2>3 DEF RefreshGivesNothing
<1> QED BY <1>2, <1>8, <1>9, <1>10

-------------------------------------------------------------------------------
LEMMA RaisesEffect ==
    ASSUME TypeInv, NEW p \in Procs, RefreshRaises(p)
    PROVE  \E k \in run[p].todo : \E n \in {0, 1} :
               /\ pc[p] = "refresh" /\ server' = [server EXCEPT ![k] = server[k] + n]
               /\ faults' \in 0..MaxFaults
               /\ Leave(p)
               /\ UNCHANGED <<file, host, monbox, sessions, disturbed>>
<1>1. run[p].todo \in SUBSET Keys /\ server \in [Keys -> 0..MaxTokens]
  BY RunTypes DEF TypeInv, TypeOK
<1>2. faults' \in 0..MaxFaults
  BY SpoolTypes DEF RefreshRaises, Fault, TypeInv, TypeOK
<1> QED BY <1>1, <1>2 DEF RefreshRaises, hostVars

LEMMA LeaveEffect ==
    ASSUME TypeInv, NEW p \in Procs, Leave(p)
    PROVE  /\ pc'[p] = "idle" /\ run'[p] = NoSession
           /\ \A q \in Procs : q # p => pc'[q] = pc[q] /\ run'[q] = run[q]
           /\ \/ condemned' = condemned
              \/ /\ \A q \in Procs : q # p => pc[q] = "idle"
                 /\ condemned' = condemned \cup {k \in Keys : Stale(k)}
BY GotoEffect DEF Leave, TypeInv

LEMMA TruncateEffect ==
    ASSUME TypeInv, NEW p \in Procs, Truncate(p)
    PROVE  /\ pc[p] = "refresh" /\ run'[p] = run[p] /\ run[p].todo = {}
           /\ \A q \in Procs : q # p => pc'[q] = pc[q] /\ run'[q] = run[q]
           /\ \/ /\ pc'[p] = "write"
                 /\ file' = [k \in Keys |-> IF Own(p, k) THEN Absent ELSE file[k]]
              \/ pc'[p] = "deploy" /\ file' = file /\ ~run[p].any_refresh
           /\ UNCHANGED <<server, host, monbox, sessions, faults, disturbed, condemned>>
BY GotoEffect DEF Truncate, TypeInv, NoFault, hostVars, historyVars, Own, In

LEMMA WriteEffect ==
    ASSUME TypeInv, NEW p \in Procs, Write(p)
    PROVE  /\ pc[p] = "write" /\ pc'[p] = "deploy" /\ run'[p] = run[p]
           /\ \A q \in Procs : q # p => pc'[q] = pc[q] /\ run'[q] = run[q]
           /\ file' = [k \in Keys |-> IF Own(p, k) THEN run[p].tokens[k] ELSE file[k]]
           /\ UNCHANGED <<server, host, monbox, sessions, faults, disturbed, condemned>>
BY GotoEffect DEF Write, Written, TypeInv, NoFault, hostVars, historyVars, Own, In

LEMMA DeployEffect ==
    ASSUME TypeInv, NEW p \in Procs, Deploy(p)
    PROVE  /\ pc[p] = "deploy" /\ pc'[p] = "monbox" /\ run'[p] = run[p]
           /\ \A q \in Procs : q # p => pc'[q] = pc[q] /\ run'[q] = run[q]
           /\ host' \in [Keys -> Token]
           /\ \A k \in Keys : \/ host'[k] = host[k]
                              \/ Own(p, k) /\ run[p].tokens[k] > Empty
                                 /\ host'[k] = run[p].tokens[k]
           /\ UNCHANGED <<file, server, monbox, sessions, faults, disturbed, condemned>>
<1> DEFINE given(k) == /\ run[p].mode # "refresh_only"
                       /\ k \in KeysOf(run[p].tenants, run[p].spool)
                       /\ k[2] \notin MonboxComponents \/ run[p].spool = "restapi"
                       /\ run[p].tokens[k] > Empty
<1>1. host' = [k \in Keys |-> IF given(k) THEN run[p].tokens[k] ELSE host[k]]
  BY DEF Deploy
<1>2. \A k \in Keys : given(k) => Own(p, k) /\ run[p].tokens[k] > Empty
  BY RunTypes, KeysOfKeys DEF TypeInv, Own
<1> HIDE DEF given
<1>3. host' \in [Keys -> Token]
  BY <1>1, RunTypes DEF TypeInv, TypeOK
<1> QED BY <1>1, <1>2, <1>3, GotoEffect DEF Deploy, TypeInv, NoFault, historyVars

LEMMA DeployMonboxEffect ==
    ASSUME TypeInv, NEW p \in Procs, DeployMonbox(p)
    PROVE  /\ pc[p] = "monbox" /\ Leave(p)
           /\ monbox' \in [Keys -> Token]
           /\ \A k \in Keys : monbox'[k] \in {monbox[k], file[k], run[p].snapshot[k]}
           /\ UNCHANGED <<file, server, host, sessions, faults, disturbed>>
<1> DEFINE given(k) == /\ run[p].mode = "pipeline"
                       /\ k \in KeysOf(run[p].tenants, run[p].spool)
                       /\ k[2] \in MonboxComponents
                       /\ MonboxSource(p)[k] # Absent
<1>1. monbox' = [k \in Keys |-> IF given(k) THEN MonboxSource(p)[k] ELSE monbox[k]]
  BY DEF DeployMonbox
<1>2. MonboxSource(p) \in {file, run[p].snapshot}
  BY DEF MonboxSource
<1> HIDE DEF given
<1>3. monbox' \in [Keys -> Token]
  BY <1>1, <1>2, RunTypes DEF TypeInv, TypeOK
<1> QED BY <1>1, <1>2, <1>3 DEF DeployMonbox, NoFault

LEMMA CrashEffect ==
    ASSUME TypeInv, NEW p \in Procs, Crash(p)
    PROVE  /\ pc[p] # "idle" /\ pc'[p] = "idle" /\ run'[p] = NoSession
           /\ \A q \in Procs : q # p => pc'[q] = pc[q] /\ run'[q] = run[q]
           /\ \/ pc[p] # "write" /\ UNCHANGED <<disturbed, condemned>>
              \/ Disturb(run[p].spool)
           /\ faults' \in 0..MaxFaults
           /\ UNCHANGED <<file, server, host, monbox, sessions>>
<1>1. faults' \in 0..MaxFaults
  BY SpoolTypes DEF Crash, Fault, TypeInv, TypeOK
<1> QED BY <1>1, GotoEffect DEF Crash, TypeInv, Calm, hostVars, historyVars

-------------------------------------------------------------------------------
SessionStep(p) == \/ Load(p) \/ ObtainOne(p) \/ RefreshRaises(p)
                  \/ Truncate(p) \/ Write(p) \/ Deploy(p) \/ DeployMonbox(p) \/ Crash(p)

\* A step moves one process, and may drop what it still had to obtain.
LEMMA StepMoves ==
    ASSUME TypeInv, NEW p \in Procs,
           SessionStep(p) \/ \E z \in Sessions : Begin(p, z)
    PROVE  /\ pc' \in [Procs -> Places] /\ run' \in [Procs -> Session]
           /\ \A q \in Procs : q # p => pc'[q] = pc[q] /\ run'[q] = run[q]
<1>1. \E l : \E r : Goto(p, l, r)
  BY ObtainEffect DEF SessionStep, Begin, Load, RefreshRaises, Leave, Truncate, Write, Deploy,
     DeployMonbox, Crash, Answered
<1>2. pc'[p] \in Places /\ run'[p] \in Session
  <2>1. CASE Load(p) \/ Crash(p) \/ \E z \in Sessions : Begin(p, z)
    BY <2>1, BeginEffect, LoadEffect, CrashEffect, SpoolTypes DEF Places
  <2>2. CASE ObtainOne(p)
    BY <2>2, ObtainEffect DEF Places, Answered
  <2>3. CASE RefreshRaises(p) \/ DeployMonbox(p)
    BY <2>3, RaisesEffect, DeployMonboxEffect, LeaveEffect, SpoolTypes DEF Places
  <2>4. CASE Truncate(p) \/ Write(p) \/ Deploy(p)
    BY <2>4, TruncateEffect, WriteEffect, DeployEffect, RunTypes DEF Places, TypeInv
  <2> QED BY <2>1, <2>2, <2>3, <2>4 DEF SessionStep
<1> QED BY <1>1, <1>2, GotoEffect DEF Goto, TypeInv, TypeOK, Places

LEMMA DisturbTypes ==
    ASSUME TypeInv, NEW s \in Spools, Disturb(s) \/ UNCHANGED <<disturbed, condemned>>
    PROVE  /\ disturbed' \subseteq Spools /\ condemned' \subseteq condemned
           /\ disturbed \subseteq disturbed'
           /\ Disturb(s) => s \in disturbed' /\ \A k \in condemned' : ~In(k, s)
BY DEF Disturb, TypeInv, TypeOK, In

LEMMA DisturbingSteps ==
    ASSUME TypeInv, NEW p \in Procs, Load(p) \/ ObtainOne(p) \/ Crash(p)
    PROVE  /\ disturbed' \subseteq Spools /\ condemned' \subseteq condemned
           /\ disturbed \subseteq disturbed'
           /\ faults' \in 0..MaxFaults /\ sessions' = sessions
<1>1. /\ Disturb(run[p].spool) \/ UNCHANGED <<disturbed, condemned>>
      /\ faults' \in 0..MaxFaults /\ sessions' = sessions
  <2>1. CASE Load(p)
    BY <2>1, LoadEffect
  <2>2. CASE ObtainOne(p)
    BY <2>2, ObtainEffect DEF Answered
  <2>3. CASE Crash(p)
    BY <2>3, CrashEffect
  <2> QED BY <2>1, <2>2, <2>3
<1>2. run[p].spool \in Spools
  BY RunTypes DEF TypeInv
<1> QED BY <1>1, <1>2, DisturbTypes

LEMMA StepTypeOK ==
    ASSUME TypeInv, NEW p \in Procs, SessionStep(p)
    PROVE  TypeOK'
<1>0. /\ run[p].spool \in Spools /\ run[p].tokens \in [Keys -> Token]
      /\ file \in [Keys -> Token] /\ Absent \in Token
      /\ server \in [Keys -> 0..MaxTokens]
      /\ disturbed \subseteq Spools /\ condemned \subseteq Keys
      /\ faults \in 0..MaxFaults
  BY RunTypes, SpoolTypes DEF TypeInv, TypeOK, Token, Absent
<1>1. pc' \in [Procs -> Places] /\ run' \in [Procs -> Session]
  BY StepMoves
<1>2. /\ disturbed' \subseteq Spools /\ condemned' \subseteq Keys
      /\ faults' \in 0..MaxFaults /\ sessions' = sessions
  <2>1. CASE Load(p) \/ ObtainOne(p) \/ Crash(p)
    BY <1>0, <2>1, DisturbingSteps
  <2>2. CASE RefreshRaises(p) \/ DeployMonbox(p)
    BY <1>0, <2>2, RaisesEffect, DeployMonboxEffect, LeaveEffect
  <2>3. CASE Truncate(p) \/ Write(p) \/ Deploy(p)
    BY <1>0, <2>3, TruncateEffect, WriteEffect, DeployEffect
  <2> QED BY <2>1, <2>2, <2>3 DEF SessionStep
<1>3. file' \in [Keys -> Token]
  <2>1. CASE Truncate(p)
    BY <1>0, <2>1, TruncateEffect
  <2>2. CASE Write(p)
    BY <1>0, <2>2, WriteEffect
  <2>3. CASE ~Truncate(p) /\ ~Write(p)
    BY <1>0, <2>3, LoadEffect, ObtainEffect, RaisesEffect, DeployEffect, DeployMonboxEffect,
       CrashEffect DEF SessionStep
  <2> QED BY <2>1, <2>2, <2>3
<1>4. server' \in [Keys -> 0..MaxTokens]
  <2>1. CASE server' = server
    BY <1>0, <2>1
  <2>2. ASSUME NEW k \in run[p].todo, NEW n \in 0..2,
               server' = [server EXCEPT ![k] = server[k] + n]
        PROVE  server' \in [Keys -> 0..MaxTokens]
    <3>1. k \in Keys /\ p \in MayObtain(k)
      BY RunTypes DEF TypeInv, MayObtain
    <3>2. server[k] + n \in 0..MaxTokens
      BY <3>1, IssueBound, SpoolTypes
    <3> QED BY <1>0, <2>2, <3>2
  <2>3. CASE ObtainOne(p)
    <3>1. \E k \in run[p].todo : \E n \in 0..2 : server' = [server EXCEPT ![k] = server[k] + n]
      <4>1. PICK k \in run[p].todo : \E n \in 0..2 : \E t \in Token :
                     Answered(p, k, n, t, run'[p])
        BY <2>3, ObtainEffect
      <4> QED BY <4>1 DEF Answered
    <3> QED BY <2>2, <3>1
  <2>4. CASE RefreshRaises(p)
    <3>1. \E k \in run[p].todo : \E n \in 0..2 : server' = [server EXCEPT ![k] = server[k] + n]
      BY <2>4, RaisesEffect
    <3> QED BY <2>2, <3>1
  <2>5. ~ObtainOne(p) /\ ~RefreshRaises(p) => server' = server
    BY LoadEffect, TruncateEffect, WriteEffect, DeployEffect, DeployMonboxEffect, CrashEffect
       DEF SessionStep
  <2> QED BY <2>1, <2>3, <2>4, <2>5
<1>5. host' \in [Keys -> Token] /\ monbox' \in [Keys -> Token]
  BY LoadEffect, ObtainEffect, RaisesEffect, TruncateEffect, WriteEffect, DeployEffect,
     DeployMonboxEffect, CrashEffect DEF SessionStep, TypeInv, TypeOK
<1> QED BY <1>1, <1>2, <1>3, <1>4, <1>5 DEF TypeInv, TypeOK, Places

LEMMA StepTidy ==
    ASSUME TypeInv, NEW p \in Procs, SessionStep(p)
    PROVE  Tidy'
<1>0. \A q \in Procs : q # p => pc'[q] = pc[q] /\ run'[q] = run[q]
  BY StepMoves
<1> SUFFICES /\ run'[p].todo \subseteq KeysOf(run'[p].tenants, run'[p].spool)
             /\ pc'[p] # "refresh" => run'[p].todo = {}
             /\ \A k \in run'[p].todo : run'[p].tokens[k] <= Empty
  BY <1>0 DEF Tidy, TypeInv
<1>1. CASE Load(p)
  BY <1>1, LoadEffect
<1>2. CASE ObtainOne(p)
  <2>1. PICK k \in run[p].todo, n \in 0..2, t \in Token : Answered(p, k, n, t, run'[p])
    BY <1>2, ObtainEffect
  <2>2. pc'[p] = "refresh"
    BY <1>2, ObtainEffect
  <2> QED BY <2>1, <2>2, RunTypes DEF Answered, Tidy, TypeInv
<1>3. CASE Truncate(p) \/ Write(p) \/ Deploy(p)
  BY <1>3, TruncateEffect, WriteEffect, DeployEffect DEF Tidy, TypeInv
<1>4. CASE RefreshRaises(p) \/ DeployMonbox(p) \/ Crash(p)
  BY <1>4, RaisesEffect, DeployMonboxEffect, LeaveEffect, CrashEffect, SpoolTypes
<1> QED BY <1>1, <1>2, <1>3, <1>4 DEF SessionStep

\* Who has obtained a token, or given up on it, is one less.
LEMMA OneLess ==
    ASSUME NEW S, IsFiniteSet(S), NEW T \in SUBSET S, NEW x \in S, x \notin T
    PROVE  IsFiniteSet(T) /\ Cardinality(T) + 1 <= Cardinality(S)
<1>1. /\ IsFiniteSet(S \ {x}) /\ Cardinality(S \ {x}) = Cardinality(S) - 1
  BY FS_RemoveElement
<1>2. IsFiniteSet(T) /\ Cardinality(T) <= Cardinality(S \ {x})
  BY <1>1, FS_Subset
<1> QED BY <1>1, <1>2, FS_CardinalityType

LEMMA StepIssued ==
    ASSUME TypeInv, NEW p \in Procs, SessionStep(p)
    PROVE  Issued'
<1> SUFFICES ASSUME NEW k \in Keys
             PROVE  /\ IsFiniteSet(MayObtain(k)')
                    /\ server'[k] + 2 * Cardinality(MayObtain(k)') <= 2 * sessions'
  BY DEF Issued
<1>0. /\ IsFiniteSet(MayObtain(k)) /\ server[k] + 2 * Cardinality(MayObtain(k)) <= 2 * sessions
      /\ server \in [Keys -> 0..MaxTokens] /\ server[k] \in Nat /\ sessions \in Nat
      /\ Cardinality(MayObtain(k)) \in Nat
  BY FS_CardinalityType DEF TypeInv, TypeOK, Issued
<1>1. \A q \in Procs : q # p => pc'[q] = pc[q] /\ run'[q] = run[q]
  BY StepMoves
<1>2. ASSUME k \in run'[p].todo => p \in MayObtain(k), pc'[p] # "load"
      PROVE  MayObtain(k)' \subseteq MayObtain(k)
  BY <1>1, <1>2 DEF MayObtain
<1>3. ASSUME MayObtain(k)' \subseteq MayObtain(k), server'[k] = server[k], sessions' = sessions
      PROVE  /\ IsFiniteSet(MayObtain(k)')
             /\ server'[k] + 2 * Cardinality(MayObtain(k)') <= 2 * sessions'
  <2>1. /\ IsFiniteSet(MayObtain(k)') /\ Cardinality(MayObtain(k)') <= Cardinality(MayObtain(k))
        /\ Cardinality(MayObtain(k)') \in Nat
    BY <1>0, <1>3, FS_Subset, FS_CardinalityType
  <2> QED BY <1>0, <1>3, <2>1
<1>4. ASSUME NEW n \in 0..2, NEW j \in run[p].todo, server' = [server EXCEPT ![j] = server[j] + n],
             j \notin run'[p].todo, run'[p].todo \subseteq run[p].todo, pc'[p] # "load",
             sessions' = sessions
      PROVE  /\ IsFiniteSet(MayObtain(k)')
             /\ server'[k] + 2 * Cardinality(MayObtain(k)') <= 2 * sessions'
  <2>1. MayObtain(k)' \subseteq MayObtain(k)
    BY <1>2, <1>4 DEF MayObtain
  <2>2. CASE j = k
    <3>1. p \in MayObtain(k) /\ p \notin MayObtain(k)'
      BY <1>4, <2>2 DEF MayObtain
    <3>2. /\ IsFiniteSet(MayObtain(k)')
          /\ Cardinality(MayObtain(k)') + 1 <= Cardinality(MayObtain(k))
      BY <1>0, <2>1, <3>1, OneLess
    <3>3. Cardinality(MayObtain(k)') \in Nat
      BY <3>2, FS_CardinalityType
    <3>4. server'[k] = server[k] + n
      BY <1>0, <1>4, <2>2
    <3> QED BY <1>0, <1>4, <3>2, <3>3, <3>4
  <2>3. CASE j # k
    <3>1. server'[k] = server[k]
      BY <1>0, <1>4, <2>3
    <3> QED BY <1>3, <1>4, <2>1, <3>1
  <2> QED BY <2>2, <2>3
<1>5. CASE Load(p)
  <2>1. /\ pc[p] = "load" /\ pc'[p] = "refresh" /\ server' = server /\ sessions' = sessions
    BY <1>5, LoadEffect
  <2> QED BY <1>2, <1>3, <2>1 DEF MayObtain
<1>6. CASE ObtainOne(p)
  <2>1. PICK j \in run[p].todo, n \in 0..2, t \in Token : Answered(p, j, n, t, run'[p])
    BY <1>6, ObtainEffect
  <2>2. /\ server' = [server EXCEPT ![j] = server[j] + n]
        /\ run'[p].todo = run[p].todo \ {j}
        /\ pc'[p] # "load" /\ sessions' = sessions
    BY <1>6, <2>1, ObtainEffect DEF Answered
  <2> QED BY <1>4, <2>2
<1>7. CASE RefreshRaises(p)
  <2>1. PICK j \in run[p].todo, n \in {0, 1} : server' = [server EXCEPT ![j] = server[j] + n]
    BY <1>7, RaisesEffect
  <2>2. /\ j \notin run'[p].todo /\ run'[p].todo \subseteq run[p].todo
        /\ pc'[p] # "load" /\ sessions' = sessions
    BY <1>7, RaisesEffect, LeaveEffect, SpoolTypes
  <2>3. n \in 0..2
    OBVIOUS
  <2> QED BY <1>4, <2>1, <2>2, <2>3
<1>8. CASE Truncate(p) \/ Write(p) \/ Deploy(p) \/ DeployMonbox(p) \/ Crash(p)
  <2>1. /\ server' = server /\ sessions' = sessions /\ pc'[p] # "load"
        /\ run'[p].todo \subseteq run[p].todo
    BY <1>8, TruncateEffect, WriteEffect, DeployEffect, DeployMonboxEffect, CrashEffect,
       LeaveEffect, SpoolTypes
  <2> QED BY <1>2, <1>3, <2>1 DEF MayObtain
<1> QED BY <1>5, <1>6, <1>7, <1>8 DEF SessionStep

LEMMA StepKnown ==
    ASSUME TypeInv, NEW p \in Procs, SessionStep(p)
    PROVE  /\ Known'
           /\ \A k \in Keys : server[k] <= server'[k]
<1>0. /\ \A q \in Procs : q # p => run'[q] = run[q]
      /\ run[p].tokens \in [Keys -> Token]
  BY StepMoves, RunTypes DEF TypeInv
<1> SUFFICES ASSUME NEW k \in Keys
             PROVE  /\ server[k] <= server'[k] /\ file'[k] <= server'[k]
                    /\ run'[p].tokens[k] <= server'[k]
  <2>1. \A k \in Keys, q \in Procs : /\ run[q].tokens[k] \in Int /\ server[k] \in Int
                                     /\ server'[k] \in Int
                                     /\ run[q].tokens[k] <= server[k]
    <3>1. \A q \in Procs : run[q].tokens \in [Keys -> Token]
      BY RunTypes DEF TypeInv
    <3>2. server \in [Keys -> 0..MaxTokens] /\ server' \in [Keys -> 0..MaxTokens]
      BY StepTypeOK DEF TypeInv, TypeOK
    <3> QED BY <3>1, <3>2, SpoolTypes DEF TypeInv, Known, Token, Absent
  <2> QED BY <1>0, <2>1 DEF Known
<1>1. /\ server[k] \in Nat /\ file[k] \in Int /\ file[k] <= server[k]
      /\ run[p].tokens[k] \in Int /\ run[p].tokens[k] <= server[k]
      /\ server \in [Keys -> 0..MaxTokens]
  BY <1>0, SpoolTypes DEF TypeInv, TypeOK, Known, Token, Absent
<1>2. CASE Load(p)
  BY <1>1, <1>2, LoadEffect, SpoolTypes DEF Absent
<1>3. CASE ObtainOne(p)
  <2>1. PICK j \in run[p].todo, n \in 0..2, t \in Token : Answered(p, j, n, t, run'[p])
    BY <1>3, ObtainEffect
  <2>2. /\ file' = file /\ run'[p].tokens = [run[p].tokens EXCEPT ![j] = t]
        /\ server' = [server EXCEPT ![j] = server[j] + n]
        /\ t = Empty \/ t = run[p].tokens[j] \/ t = server[j] + n
           \/ (n = 2 /\ t = server[j] + 1)
    BY <1>3, <2>1, ObtainEffect DEF Answered
  <2> QED BY <1>0, <1>1, <2>2 DEF Empty
<1>4. CASE RefreshRaises(p)
  <2>1. PICK j \in run[p].todo, n \in {0, 1} : server' = [server EXCEPT ![j] = server[j] + n]
    BY <1>4, RaisesEffect
  <2>2. file' = file /\ run'[p].tokens[k] = Absent
    BY <1>4, RaisesEffect, LeaveEffect, SpoolTypes
  <2>3. server'[k] = server[k] \/ server'[k] = server[k] + n
    BY <1>1, <2>1
  <2> QED BY <1>1, <2>2, <2>3 DEF Absent
<1>5. CASE Truncate(p)
  BY <1>1, <1>5, TruncateEffect DEF Absent
<1>6. CASE Write(p)
  BY <1>1, <1>6, WriteEffect
<1>7. CASE Deploy(p) \/ DeployMonbox(p) \/ Crash(p)
  BY <1>1, <1>7, DeployEffect, DeployMonboxEffect, CrashEffect, LeaveEffect, SpoolTypes
     DEF Absent
<1> QED BY <1>2, <1>3, <1>4, <1>5, <1>6, <1>7 DEF SessionStep

LEMMA BeginTypeInv ==
    ASSUME TypeInv, NEW p \in Procs, NEW z \in Sessions, Begin(p, z)
    PROVE  TypeInv'
<1>1. /\ pc' \in [Procs -> Places] /\ run' \in [Procs -> Session]
      /\ \A q \in Procs : q # p => pc'[q] = pc[q] /\ run'[q] = run[q]
  BY StepMoves
<1>2. sessions' \in 0..MaxSessions
  BY BeginEffect, SpoolTypes DEF TypeInv, TypeOK
<1>3. TypeOK'
  BY <1>1, <1>2, BeginEffect DEF TypeInv, TypeOK, Places
<1>4. Tidy'
  BY <1>1, BeginEffect DEF TypeInv, Tidy
<1>5. Known'
  BY <1>1, BeginEffect, SpoolTypes DEF TypeInv, TypeOK, Known, Absent
<1>6. ASSUME NEW k \in Keys
      PROVE  /\ IsFiniteSet(MayObtain(k)')
             /\ server'[k] + 2 * Cardinality(MayObtain(k)') <= 2 * sessions'
  <2>1. /\ IsFiniteSet(MayObtain(k)) /\ server[k] + 2 * Cardinality(MayObtain(k)) <= 2 * sessions
        /\ server[k] \in Nat /\ sessions \in Nat
        /\ Cardinality(MayObtain(k)) \in Nat
    BY FS_CardinalityType DEF TypeInv, TypeOK, Issued
  <2>2. MayObtain(k)' \in SUBSET (MayObtain(k) \cup {p})
    BY <1>1, BeginEffect DEF MayObtain
  <2>3. /\ IsFiniteSet(MayObtain(k) \cup {p})
        /\ Cardinality(MayObtain(k) \cup {p}) =
               IF p \in MayObtain(k) THEN Cardinality(MayObtain(k))
                                     ELSE Cardinality(MayObtain(k)) + 1
    BY <2>1, FS_AddElement
  <2>4. /\ IsFiniteSet(MayObtain(k)')
        /\ Cardinality(MayObtain(k)') <= Cardinality(MayObtain(k) \cup {p})
    BY <2>2, <2>3, FS_Subset
  <2>5. Cardinality(MayObtain(k)') \in Nat
    BY <2>4, FS_CardinalityType
  <2>6. server' = server /\ sessions' = sessions + 1
    BY BeginEffect
  <2> QED BY <2>1, <2>3, <2>4, <2>5, <2>6
<1>7. Issued'
  BY <1>6 DEF Issued
<1> QED BY <1>3, <1>4, <1>5, <1>7 DEF TypeInv

LEMMA NextTypeInv == TypeInv /\ [Next]_vars => TypeInv'
<1> SUFFICES ASSUME TypeInv, [Next]_vars PROVE TypeInv'
  OBVIOUS
<1>1. CASE UNCHANGED vars
  BY <1>1 DEF vars, hostVars, historyVars, TypeInv, TypeOK, Tidy, Issued, Known, MayObtain
<1>2. ASSUME NEW p \in Procs, SessionStep(p) PROVE TypeInv'
  BY <1>2, StepTypeOK, StepTidy, StepIssued, StepKnown DEF TypeInv
<1>3. ASSUME NEW p \in Procs, NEW z \in Sessions, Begin(p, z) PROVE TypeInv'
  BY <1>3, BeginTypeInv
<1> QED BY <1>1, <1>2, <1>3 DEF Next, SessionStep

LEMMA InitTypeInv == Init => TypeInv
<1> SUFFICES ASSUME Init PROVE TypeInv
  OBVIOUS
<1>1. 0 \in 0..MaxSessions /\ 0 \in 0..MaxFaults /\ 0 \in 0..MaxTokens
  BY SpoolTypes
<1>2. TypeOK
  BY <1>1, SpoolTypes DEF Init, TypeOK
<1>3. Tidy
  BY SpoolTypes DEF Init, Tidy
<1>4. \A k \in Keys : MayObtain(k) = {}
  BY SpoolTypes DEF Init, MayObtain
<1>5. Issued
  BY <1>4, FS_EmptySet DEF Init, Issued
<1>6. Known
  BY SpoolTypes DEF Init, Known, Absent
<1> QED BY <1>2, <1>3, <1>5, <1>6 DEF TypeInv

\* At most two tokens per key are issued in a session, and a session obtains only what
\* its own file lacks, however its requests fail or repeat.
THEOREM SpoolTypeCorrect == Spec => []TypeOK
<1>1. TypeInv => TypeOK
  BY DEF TypeInv
<1> QED BY <1>1, InitTypeInv, NextTypeInv, PTL DEF Spec

-------------------------------------------------------------------------------
\* Nobody obtains a token that is saved, or that anybody outside of the session has.
LEMMA ObtainedIsNew ==
    ASSUME TypeInv, NEW k \in Keys, Fresh(k), NEW p \in Procs, k \in run[p].todo
    PROVE  /\ pc[p] = "refresh" /\ Own(p, k) /\ WorksOn(p, k)
           /\ ~Saved(k) /\ file[k] <= Empty
           /\ \A q \in Procs : WorksOn(q, k) => q = p
           /\ run[p].tokens[k] <= Empty /\ run[p].tokens[k] \in Int
<1>1. /\ pc[p] = "refresh" /\ Own(p, k) /\ run[p].tokens[k] <= Empty
      /\ run[p].tokens[k] \in Int /\ file[k] \in Int
  BY RunTypes, KeysOfKeys, SpoolTypes DEF TypeInv, TypeOK, Tidy, Own, Token, Absent
<1>2. WorksOn(p, k) /\ \A q \in Procs : WorksOn(q, k) => q = p
  BY <1>1 DEF WorksOn, Fresh
<1>3. file[k] <= Empty
  BY <1>1, <1>2 DEF Fresh, Empty
<1>4. ~Saved(k)
  BY <1>1, <1>2, <1>3 DEF Saved, WorksOn, Empty
<1> QED BY <1>1, <1>2, <1>3, <1>4

LEMMA StillUndisturbed ==
    ASSUME TypeInv, NEW k \in Keys, Undisturbed(k)', disturbed \subseteq disturbed'
    PROVE  Undisturbed(k)
BY DEF Undisturbed

LEMMA NotDisturbed ==
    ASSUME TypeInv, NEW k \in Keys, NEW s \in Spools, In(k, s), Undisturbed(k)'
    PROVE  ~Disturb(s)
BY DisturbTypes DEF Undisturbed, In

LEMMA StepFresh ==
    ASSUME TypeInv, NEW k \in Keys, Fresh(k), Undisturbed(k)', NEW p \in Procs,
           SessionStep(p) \/ \E z \in Sessions : Begin(p, z)
    PROVE  Fresh(k)'
<1>0. /\ \A q \in Procs : q # p => pc'[q] = pc[q] /\ run'[q] = run[q]
      /\ run[p].spool \in Spools /\ run[p].tokens \in [Keys -> Token]
      /\ file \in [Keys -> Token] /\ server \in [Keys -> 0..MaxTokens]
      /\ file[k] \in Int /\ server[k] \in Int /\ run[p].tokens[k] \in Int
      /\ None[k] = Absent
  BY StepMoves, RunTypes, SpoolTypes DEF TypeInv, TypeOK, Token, Absent
<1>1. ASSUME NEW z \in Sessions, Begin(p, z) PROVE Fresh(k)'
  BY <1>0, <1>1, BeginEffect DEF Fresh, WorksOn, Own, Good, Saved, Empty, Absent
<1>2. CASE Load(p)
  <2>1. PICK loaded \in {file, None} :
               /\ pc[p] = "load" /\ pc'[p] = "refresh"
               /\ run'[p].spool = run[p].spool /\ run'[p].snapshot = run[p].snapshot
               /\ run'[p].tokens = loaded
               /\ \/ loaded = file /\ ~\E q \in Procs : Busy(q, run[p].spool)
                  \/ Disturb(run[p].spool)
               /\ UNCHANGED <<file, server, host, monbox>>
    BY <1>2, LoadEffect
  <2>2. Own(p, k) => /\ loaded = file
                     /\ \A q \in Procs : ~WorksOn(q, k)
    <3>1. Own(p, k) => loaded = file /\ ~\E q \in Procs : Busy(q, run[p].spool)
      BY <1>0, <2>1, NotDisturbed DEF Own
    <3>2. \A q \in Procs : WorksOn(q, k) /\ Own(p, k) => Busy(q, run[p].spool)
      BY <1>0, KeyFacts, RunTypes DEF WorksOn, Own, Busy, TypeInv
    <3> QED BY <3>1, <3>2
  <2>3. Saved(k)' <=> Saved(k)
    BY <1>0, <2>1 DEF Saved, Own
  <2> QED BY <1>0, <2>1, <2>2, <2>3 DEF Fresh, WorksOn, Own, Good
<1>3. CASE ObtainOne(p)
  <2>1. PICK j \in run[p].todo, n \in 0..2, t \in Token : Answered(p, j, n, t, run'[p])
    BY <1>3, ObtainEffect
  <2>2. /\ pc[p] = "refresh" /\ pc'[p] = "refresh"
        /\ UNCHANGED <<file, host, monbox>>
    BY <1>3, ObtainEffect
  <2>3. /\ server' = [server EXCEPT ![j] = server[j] + n]
        /\ run'[p].spool = run[p].spool /\ run'[p].snapshot = run[p].snapshot
        /\ run'[p].tokens = [run[p].tokens EXCEPT ![j] = t]
        /\ \/ t = Empty \/ t = run[p].tokens[j] \/ t = server[j] + n
           \/ Disturb(run[p].spool)
        /\ run'[p].any_refresh = TRUE
           \/ (run'[p].any_refresh = run[p].any_refresh /\ t = run[p].tokens[j])
    BY <2>1 DEF Answered
  <2>4. Saved(k)' <=> Saved(k)
    BY <1>0, <2>2, <2>3 DEF Saved, Own
  <2>5. CASE j # k
    <3>1. server'[k] = server[k] /\ run'[p].tokens[k] = run[p].tokens[k]
      BY <1>0, <2>3, <2>5
    <3> QED BY <1>0, <2>2, <2>3, <2>4, <3>1 DEF Fresh, WorksOn, Own, Good
  <2>6. CASE j = k
    <3>1. /\ Own(p, k) /\ ~Saved(k) /\ file[k] <= Empty
          /\ \A q \in Procs : WorksOn(q, k) => q = p
          /\ run[p].tokens[k] <= Empty
      BY <2>6, ObtainedIsNew
    <3>2. /\ server'[k] = server[k] + n /\ run'[p].tokens[k] = t
          /\ t > Empty => t = server'[k]
      BY <1>0, <2>3, <2>6, <3>1, NotDisturbed DEF Own, Empty
    <3>3. run'[p].any_refresh \/ run'[p].tokens[k] = file[k]
      BY <2>2, <2>3, <2>6, <3>1, <3>2 DEF Fresh, WorksOn
    <3> QED BY <1>0, <2>2, <2>3, <2>4, <3>1, <3>2, <3>3
            DEF Fresh, WorksOn, Own, Good, Empty
  <2> QED BY <2>5, <2>6
<1>4. CASE RefreshRaises(p)
  <2>1. PICK j \in run[p].todo, n \in {0, 1} : server' = [server EXCEPT ![j] = server[j] + n]
    BY <1>4, RaisesEffect
  <2>2. /\ pc[p] = "refresh" /\ pc'[p] = "idle" /\ run'[p].snapshot[k] = Absent
        /\ UNCHANGED <<file, host, monbox>>
    BY <1>0, <1>4, RaisesEffect, LeaveEffect, SpoolTypes
  <2>3. Saved(k)' <=> Saved(k)
    BY <1>0, <2>2 DEF Saved, Own
  <2>4. CASE j # k
    <3>1. server'[k] = server[k]
      BY <1>0, <2>1, <2>4
    <3> QED BY <1>0, <2>2, <2>3, <3>1 DEF Fresh, WorksOn, Own, Good, Empty, Absent
  <2>5. CASE j = k
    <3>1. /\ ~Saved(k) /\ file[k] <= Empty
          /\ \A q \in Procs : WorksOn(q, k) => q = p
      BY <2>5, ObtainedIsNew
    <3> QED BY <1>0, <2>2, <2>3, <3>1 DEF Fresh, WorksOn, Own, Good, Empty, Absent
  <2> QED BY <2>4, <2>5
<1>5. CASE Truncate(p)
  <2>1. /\ pc[p] = "refresh" /\ run'[p] = run[p]
        /\ \/ pc'[p] = "write" /\ file'[k] = IF Own(p, k) THEN Absent ELSE file[k]
           \/ pc'[p] = "deploy" /\ file'[k] = file[k] /\ ~run[p].any_refresh
        /\ UNCHANGED <<server, host, monbox>>
    BY <1>5, TruncateEffect
  <2>2. Saved(k) => Saved(k)'
    BY <1>0, <2>1 DEF Fresh, WorksOn, Saved, Own, Empty
  <2> QED BY <1>0, <2>1, <2>2 DEF Fresh, WorksOn, Own, Good, Saved, Empty, Absent
<1>6. CASE Write(p)
  <2>1. /\ pc[p] = "write" /\ pc'[p] = "deploy" /\ run'[p] = run[p]
        /\ file'[k] = IF Own(p, k) THEN run[p].tokens[k] ELSE file[k]
        /\ UNCHANGED <<server, host, monbox>>
    BY <1>6, WriteEffect
  <2>2. Saved(k) => Saved(k)'
    BY <1>0, <2>1 DEF Fresh, WorksOn, Saved, Own, Empty, Absent
  <2> QED BY <1>0, <2>1, <2>2 DEF Fresh, WorksOn, Own, Good, Saved, Empty, Absent
<1>7. CASE Deploy(p)
  <2>1. /\ pc[p] = "deploy" /\ pc'[p] = "monbox" /\ run'[p] = run[p]
        /\ host'[k] = host[k] \/ (Own(p, k) /\ run[p].tokens[k] > Empty
                                  /\ host'[k] = run[p].tokens[k])
        /\ UNCHANGED <<file, server, monbox>>
    BY <1>7, DeployEffect
  <2>2. Saved(k)' <=> Saved(k)
    BY <1>0, <2>1 DEF Saved, Own
  <2> QED BY <1>0, <2>1, <2>2 DEF Fresh, WorksOn, Own, Good
<1>8. CASE DeployMonbox(p)
  <2>1. /\ pc[p] = "monbox" /\ pc'[p] = "idle" /\ run'[p].snapshot[k] = Absent
        /\ monbox'[k] \in {monbox[k], file[k], run[p].snapshot[k]}
        /\ UNCHANGED <<file, server, host>>
    BY <1>0, <1>8, DeployMonboxEffect, LeaveEffect, SpoolTypes
  <2>2. Saved(k)' <=> Saved(k)
    BY <1>0, <2>1 DEF Saved, Own
  <2>3. Good(file[k], k)
    BY DEF Fresh, Good, Saved
  <2> QED BY <1>0, <2>1, <2>2, <2>3 DEF Fresh, WorksOn, Own, Good, Empty, Absent
<1>9. CASE Crash(p)
  <2>1. /\ pc'[p] = "idle" /\ run'[p].snapshot[k] = Absent
        /\ pc[p] # "write" \/ Disturb(run[p].spool)
        /\ UNCHANGED <<file, server, host, monbox>>
    BY <1>0, <1>9, CrashEffect, SpoolTypes
  <2>2. pc[p] # "write" \/ ~Own(p, k)
    BY <1>0, <2>1, NotDisturbed DEF Own
  <2>3. Saved(k)' <=> Saved(k)
    BY <1>0, <2>1, <2>2 DEF Saved, Own
  <2> QED BY <1>0, <2>1, <2>3 DEF Fresh, WorksOn, Own, Good, Empty, Absent
<1> QED BY <1>1, <1>2, <1>3, <1>4, <1>5, <1>6, <1>7, <1>8, <1>9 DEF SessionStep

-------------------------------------------------------------------------------
LEMMA SavesDoomed ==
    ASSUME TypeInv, NEW k \in Keys, Doomed(k), NEW p \in Procs, Load(p), k \in condemned'
    PROVE  Doomed(k)'
<1>0. /\ \A q \in Procs : q # p => pc'[q] = pc[q] /\ run'[q] = run[q]
      /\ run[p].spool \in Spools
  BY StepMoves, RunTypes DEF TypeInv, SessionStep
<1>1. PICK loaded \in {file, None} :
           /\ pc[p] = "load" /\ pc'[p] = "refresh"
           /\ run'[p].spool = run[p].spool
           /\ run'[p].tokens = loaded
           /\ \A j \in run'[p].todo : loaded[j] <= Empty
           /\ \/ loaded = file /\ ~\E q \in Procs : Busy(q, run[p].spool)
              \/ Disturb(run[p].spool)
           /\ UNCHANGED <<file, server>>
  BY LoadEffect
<1>2. Own(p, k) => /\ loaded = file
                   /\ ~\E q \in Procs : pc[q] = "write" /\ Own(q, k)
  <2>1. Own(p, k) => loaded = file /\ ~\E q \in Procs : Busy(q, run[p].spool)
    BY <1>0, <1>1, DisturbTypes DEF Own
  <2>2. \A q \in Procs : pc[q] = "write" /\ Own(q, k) /\ Own(p, k) => Busy(q, run[p].spool)
    BY <1>0, KeyFacts, RunTypes DEF Own, Busy, TypeInv
  <2> QED BY <2>1, <2>2
<1>3. Own(p, k) => /\ loaded[k] > Empty /\ loaded[k] # server[k]
                   /\ k \notin run'[p].todo
  <2>1. file[k] \in Int
    BY SpoolTypes DEF TypeInv, TypeOK, Token, Absent
  <2> QED BY <1>1, <1>2, <2>1 DEF Doomed, Empty
<1> QED BY <1>0, <1>1, <1>3 DEF Doomed, WorksOn, Own

LEMMA StepDoomed ==
    ASSUME TypeInv, NEW k \in Keys, Doomed(k), NEW p \in Procs,
           SessionStep(p) \/ \E z \in Sessions : Begin(p, z), k \in condemned'
    PROVE  Doomed(k)'
<1>0. /\ \A q \in Procs : q # p => pc'[q] = pc[q] /\ run'[q] = run[q]
      /\ run[p].spool \in Spools /\ run[p].tokens \in [Keys -> Token]
      /\ run[p].todo \in SUBSET Keys
      /\ server \in [Keys -> 0..MaxTokens]
      /\ server[k] \in Nat
  BY StepMoves, RunTypes, SpoolTypes DEF TypeInv, TypeOK
<1>1. ASSUME NEW z \in Sessions, Begin(p, z) PROVE Doomed(k)'
  BY <1>0, <1>1, BeginEffect DEF Doomed, WorksOn, Own
<1>2. k \notin run[p].todo
  <2>1. k \in run[p].todo => WorksOn(p, k)
    BY RunTypes, KeysOfKeys DEF TypeInv, Tidy, WorksOn, Own
  <2> QED BY <2>1 DEF Doomed
<1>3. CASE ObtainOne(p)
  <2>1. PICK j \in run[p].todo, n \in 0..2, t \in Token : Answered(p, j, n, t, run'[p])
    BY <1>3, ObtainEffect
  <2>2. pc[p] = "refresh" /\ pc'[p] = "refresh" /\ file' = file /\ j # k
    BY <1>2, <1>3, ObtainEffect
  <2>3. /\ server'[k] = server[k] /\ run'[p].spool = run[p].spool
        /\ run'[p].tokens[k] = run[p].tokens[k] /\ k \notin run'[p].todo
    BY <1>0, <1>2, <2>1, <2>2 DEF Answered
  <2> QED BY <1>0, <2>2, <2>3 DEF Doomed, WorksOn, Own
<1>4. CASE RefreshRaises(p)
  <2>1. PICK j \in run[p].todo, n \in {0, 1} : server' = [server EXCEPT ![j] = server[j] + n]
    BY <1>4, RaisesEffect
  <2>2. pc[p] = "refresh" /\ pc'[p] = "idle" /\ file' = file
    BY <1>4, RaisesEffect, LeaveEffect
  <2>3. server'[k] = server[k]
    BY <1>0, <1>2, <2>1
  <2> QED BY <1>0, <2>2, <2>3 DEF Doomed, WorksOn, Own
<1>5. CASE Truncate(p)
  <2>1. /\ pc[p] = "refresh" /\ run'[p] = run[p]
        /\ \/ pc'[p] = "write" /\ file'[k] = IF Own(p, k) THEN Absent ELSE file[k]
           \/ pc'[p] = "deploy" /\ file'[k] = file[k]
        /\ UNCHANGED server
    BY <1>5, TruncateEffect
  <2> QED BY <1>0, <2>1 DEF Doomed, WorksOn, Own, Absent
<1>6. CASE Write(p)
  <2>1. /\ pc[p] = "write" /\ pc'[p] = "deploy" /\ run'[p] = run[p]
        /\ file'[k] = IF Own(p, k) THEN run[p].tokens[k] ELSE file[k]
        /\ UNCHANGED server
    BY <1>6, WriteEffect
  <2> QED BY <1>0, <2>1 DEF Doomed, WorksOn, Own
<1>7. CASE Deploy(p) \/ DeployMonbox(p)
  <2>1. /\ pc[p] \in {"deploy", "monbox"} /\ pc'[p] \in {"monbox", "idle"}
        /\ UNCHANGED <<file, server>>
    BY <1>7, DeployEffect, DeployMonboxEffect, LeaveEffect
  <2> QED BY <1>0, <2>1 DEF Doomed, WorksOn, Own
<1>8. CASE Crash(p)
  <2>1. /\ pc'[p] = "idle" /\ UNCHANGED <<file, server>>
        /\ pc[p] # "write" \/ Disturb(run[p].spool)
    BY <1>8, CrashEffect
  <2>2. pc[p] # "write" \/ ~Own(p, k)
    BY <1>0, <2>1, DisturbTypes DEF Own
  <2> QED BY <1>0, <2>1, <2>2 DEF Doomed, WorksOn, Own
<1> QED BY <1>1, <1>3, <1>4, <1>5, <1>6, <1>7, <1>8, SavesDoomed DEF SessionStep

\* The last one to leave condemns what nobody is going to replace.
LEMMA NewlyDoomed ==
    ASSUME TypeInv, NEW k \in Keys, k \notin condemned, k \in condemned', NEW p \in Procs,
           SessionStep(p) \/ \E z \in Sessions : Begin(p, z)
    PROVE  Doomed(k)'
<1>1. RefreshRaises(p) \/ DeployMonbox(p)
  <2>1. Load(p) \/ ObtainOne(p) \/ Crash(p) => condemned' \subseteq condemned
    BY DisturbingSteps
  <2>2. Truncate(p) \/ Write(p) \/ Deploy(p) \/ (\E z \in Sessions : Begin(p, z)) =>
            condemned' = condemned
    BY TruncateEffect, WriteEffect, DeployEffect, BeginEffect
  <2> QED BY <2>1, <2>2 DEF SessionStep
<1>2. Leave(p) /\ file' = file
  BY <1>1, RaisesEffect, DeployMonboxEffect
<1>3. Stale(k) /\ \A q \in Procs : pc'[q] = "idle"
  BY <1>2, LeaveEffect
<1>4. server[k] <= server'[k] /\ file[k] <= server[k]
  BY <1>1, StepKnown DEF SessionStep, TypeInv, Known
<1>5. /\ file[k] \in Int /\ server[k] \in Int /\ server'[k] \in Int
  BY <1>1, StepTypeOK, SpoolTypes DEF SessionStep, TypeInv, TypeOK, Token, Absent
<1> QED BY <1>2, <1>3, <1>4, <1>5 DEF Stale, Doomed, WorksOn

LEMMA NextSpoolInv == SpoolInv /\ [Next]_vars => SpoolInv'
<1> SUFFICES ASSUME SpoolInv, [Next]_vars PROVE SpoolInv'
  OBVIOUS
<1>1. TypeInv /\ TypeInv'
  BY NextTypeInv DEF SpoolInv
<1>2. CASE UNCHANGED vars
  BY <1>1, <1>2 DEF vars, hostVars, historyVars, SpoolInv, Freshness, Undisturbed, Fresh,
     WorksOn, Own, Good, Saved, Condemnation, Doomed
<1>3. ASSUME NEW p \in Procs, SessionStep(p) \/ \E z \in Sessions : Begin(p, z)
      PROVE  Freshness' /\ Condemnation'
  <2>1. disturbed \subseteq disturbed'
    <3>1. Load(p) \/ ObtainOne(p) \/ Crash(p) => disturbed \subseteq disturbed'
      BY <1>1, DisturbingSteps
    <3>2. RefreshRaises(p) \/ Truncate(p) \/ Write(p) \/ Deploy(p) \/ DeployMonbox(p) \/
              (\E z \in Sessions : Begin(p, z)) => disturbed' = disturbed
      BY <1>1, RaisesEffect, TruncateEffect, WriteEffect, DeployEffect, DeployMonboxEffect,
         BeginEffect
    <3> QED BY <1>3, <3>1, <3>2 DEF SessionStep
  <2>2. Freshness'
    BY <1>1, <1>3, <2>1, StillUndisturbed, StepFresh DEF Freshness, SpoolInv
  <2>3. Condemnation'
    <3>1. condemned' \subseteq Keys
      BY <1>1 DEF TypeInv, TypeOK
    <3> QED BY <1>1, <1>3, <3>1, StepDoomed, NewlyDoomed DEF Condemnation, SpoolInv
  <2> QED BY <2>2, <2>3
<1> QED BY <1>1, <1>2, <1>3 DEF Next, SessionStep, SpoolInv

LEMMA InitSpoolInv == Init => SpoolInv
<1> SUFFICES ASSUME Init PROVE SpoolInv
  OBVIOUS
<1>1. Freshness
  BY SpoolTypes DEF Init, Freshness, Fresh, WorksOn, Good, Empty, Absent
<1>2. Condemnation
  BY DEF Init, Condemnation
<1> QED BY <1>1, <1>2, InitTypeInv DEF SpoolInv

LEMMA SpoolInvHolds == Spec => []SpoolInv
BY InitSpoolInv, NextSpoolInv, PTL DEF Spec

\* Every token in a file that no overlap, cut save or late request has disturbed is the
\* one that its service accepts.
THEOREM SavedAccepted == Spec => []SavedIsAccepted
<1>1. SpoolInv => SavedIsAccepted
  BY DEF SpoolInv, Freshness, Fresh, SavedIsAccepted
<1> QED BY <1>1, SpoolInvHolds, PTL

\* No refresh invalidates a token that was deployed from an undisturbed file: who has
\* got it from the file finds it there ever after.
THEOREM DeployedAccepted == Spec => []DeployedIsAccepted
<1>1. SpoolInv => DeployedIsAccepted
  BY DEF SpoolInv, Freshness, Fresh, Good, DeployedIsAccepted
<1> QED BY <1>1, SpoolInvHolds, PTL

\* A token that is not accepted, and that nobody is at work on, stays in the file, or
\* out of it, but is never replaced by the one that is.
THEOREM StaleKept == Spec => []StaleIsKept
<1>1. SpoolInv => StaleIsKept
  BY DEF SpoolInv, Condemnation, Doomed, StaleIsKept
<1> QED BY <1>1, SpoolInvHolds, PTL
===============================================================================

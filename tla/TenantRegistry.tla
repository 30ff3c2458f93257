----------------------------- MODULE TenantRegistry -----------------------------
(***************************************************************************)
(* What argo-cpas promises about the monitoring boxes' configuration: a    *)
(* registry of tenants that changes only as somebody has just asked, save  *)
(* when one writer overwrites another, and every such overwrite counts.    *)
(***************************************************************************)
EXTENDS Naturals

CONSTANTS Procs, Requests, NoRequest
VARIABLES members,  \* the tenants that are fully configured
          request,  \* what each process is asked to do
          clobbers  \* how often a writer overwrote what it had not seen

registryVars == <<members, request, clobbers>>
AllTenants == UNION {r.tenants : r \in Requests}

Open(p) == /\ request[p] = NoRequest
           /\ \E r \in Requests : request' = [request EXCEPT ![p] = r]
           /\ UNCHANGED <<members, clobbers>>

Close(p) == /\ request[p] # NoRequest
            /\ request' = [request EXCEPT ![p] = NoRequest]
            /\ UNCHANGED <<members, clobbers>>

\* Tenants come in through a process that was asked to add them ...
Add(p) == /\ request[p].op = "add"
          /\ \E some \in SUBSET request[p].tenants : members' = members \cup some
          /\ UNCHANGED <<request, clobbers>>

\* ... and leave through one that was asked to delete them.
Delete(p) == /\ request[p].op = "delete"
             /\ members' = members \ request[p].tenants
             /\ UNCHANGED <<request, clobbers>>

Overwrite == /\ \E any \in SUBSET (members \cup AllTenants) : members' = any
             /\ clobbers' = clobbers + 1
             /\ request' = request

RegistryNext == \/ \E p \in Procs : Open(p) \/ Close(p) \/ Add(p) \/ Delete(p)
                \/ Overwrite

\* Whatever is configured at the start.
RegistrySpec == /\ request = [p \in Procs |-> NoRequest] /\ clobbers = 0
                /\ [][RegistryNext]_registryVars
===============================================================================

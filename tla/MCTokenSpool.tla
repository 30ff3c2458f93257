------------------------------ MODULE MCTokenSpool ------------------------------
(***************************************************************************)
(* A small instance of TokenSpool for TLC: two processes, the spool files  *)
(* of the Web API and of the REST API.                                     *)
(***************************************************************************)
EXTENDS TokenSpool, TLC

CONSTANTS t1, t2, p1, p2

MCComponents == [webapi |-> {"connector", "monbox"}, restapi |-> {"restapi"}]

\* Cycles that share a tenant, a command that only refreshes or only deploys, and
\* the two ways to a POEM run.
MCSessions ==
    {[spool |-> "webapi", mode |-> "pipeline", tenants |-> {t1, t2}],
     [spool |-> "webapi", mode |-> "refresh_only", tenants |-> {t2}],
     [spool |-> "webapi", mode |-> "only_ansible", tenants |-> {t1}],
     [spool |-> "restapi", mode |-> "pipeline", tenants |-> {t1}],
     [spool |-> "restapi", mode |-> "only_ansible", tenants |-> {t1, t2}]}

Symmetry == Permutations({p1, p2})
===============================================================================

------------------------------ MODULE MCMonboxGit ------------------------------
(***************************************************************************)
(* A small instance of MonboxGit for TLC: one tenant is configured, a      *)
(* process may add another one or both, or delete either.                  *)
(***************************************************************************)
EXTENDS MonboxGit

CONSTANTS t1, t2, p1, p2

MCRequests == {[op |-> "add", tenants |-> {t1}], [op |-> "add", tenants |-> {t1, t2}],
               [op |-> "delete", tenants |-> {t1}], [op |-> "delete", tenants |-> {t2}]}
===============================================================================

----------------------------- MODULE MCApplication -----------------------------
(***************************************************************************)
(* Small instances of Application for TLC.                                 *)
(***************************************************************************)
EXTENDS Application

CONSTANTS d1, c1, t1, t2, h1, h2

MCPlaybooks == [e \in MappedEvents |->
    CASE e = "INIT_TOPOLOGY_CONNECTOR" -> "connectors"
      [] e = "INIT_POEM" -> "poem"
      [] e = "INIT_ARCHIVER" -> "archiver"]

MCComponents == [webapi |-> {"monbox", "connector", "poem-admin", "poem-viewer"},
                 ams |-> {"argo-monbox", "argo-archiver"}]

Event(t, n) == [tenant |-> t, name |-> n, form |-> "event"]

\* Two playbooks of one tenant and the monitoring boxes of two.
MCMessages == {Event(t1, "INIT_TOPOLOGY_CONNECTOR"), Event(t1, "INIT_POEM"),
               Event(t1, "INIT_MONITORING_BOX"), Event(t2, "INIT_MONITORING_BOX")}

\* Events that two processes race for, and a payload that is not an object.
MCRaceMessages == {Event(t1, "INIT_TOPOLOGY_CONNECTOR"), Event(t1, "INIT_POEM"),
                   Event(t1, "INIT_MONITORING_BOX"),
                   [Event(t1, "INIT_POEM") EXCEPT !.form = "nonobject"]}

\* An installation whose archiver playbook has a name of its own.
MCMisnamedPlaybooks == [MCPlaybooks EXCEPT !["INIT_ARCHIVER"] = "other"]

\* Events of a served and of a filtered tenant, and messages the filter drops.
MCLiveMessages == {Event(t1, "INIT_POEM"), Event(t1, "INIT_ARCHIVER"),
                   Event(t1, "INIT_MONITORING_BOX"), Event(t1, "OTHER"),
                   Event(t2, "INIT_POEM"),
                   [Event(t1, "INIT_POEM") EXCEPT !.form = "unusable"]}
MCArchiverMessages == {Event(t1, "INIT_ARCHIVER"), Event(t2, "INIT_ARCHIVER")}
===============================================================================

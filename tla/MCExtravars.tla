----------------------------- MODULE MCExtravars -----------------------------
(* Three tenants for TLC: t2 and t3 share a POEM schema, the feeds differ in   *)
(* the keys they give, and t3 has a manual token only.                         *)
EXTENDS Extravars

CONSTANTS t1, t2, t3

MCSchema == [t \in Tenants |-> IF t = t3 THEN t2 ELSE t]
MCFeed == [t \in Tenants |-> IF t = t1 THEN {"type", "feed"} ELSE {"type"}]

\* Full spools, one whose only connector token is t1's, and an empty one.
MCSpools == {Tenants \X Kinds, {<<t1, "connectors">>, <<t2, "poem">>, <<t3, "archiver">>},
             {}}

MCBatches == {<<>>} \cup
    {<<j>> : j \in {<<t1, "archiver">>, <<t2, "poem">>, <<t3, "poem">>}} \cup
    {<<<<t1, "connectors">>, <<t2, "connectors">>>>,
     <<<<t2, "connectors">>, <<t1, "poem">>, <<t1, "connectors">>>>,
     <<<<t3, "connectors">>, <<t3, "archiver">>>>}

MCOptions == {NoOption, [NoOption EXCEPT !.add = {t1, t2}],
              [NoOption EXCEPT !.remove = {t3}], [add |-> {t2}, remove |-> {t1}]}
===============================================================================

------------------------------- MODULE InitCheck -------------------------------
(***************************************************************************)
(* Whether the monitoring boxes are up: the loop of checks at the end of   *)
(* _process_monbox_init_events, and how _check_if_all_tenants_inited reads *)
(* what `ams-publisherd -q` prints on every backend host, while the        *)
(* publishers of the new tenants come up one by one.                       *)
(***************************************************************************)
EXTENDS Integers, Sequences, FiniteSets, SequencesExt

CONSTANTS
    Hosts,          \* that may be in the group sensu-backend
    Tenants,
    InitCheckCount, \* monboxgit.init_check_count
    Layouts         \* orders in which a publisher daemon may print its workers

ASSUME InitCheckAssumption ==
    /\ InitCheckCount \in Nat
    /\ IsFiniteSet(Hosts) /\ IsFiniteSet(Tenants) /\ "none" \notin Tenants
    /\ Layouts \subseteq {"published_first", "heading", "consumed_first", "by_worker"}

VARIABLES
    hosts,          \* the group sensu-backend
    layout,         \* the order of the installed version
    events,         \* tenants of the queued init_events
    entries,        \* those that add_new_tenant queued, new_tenant_entries
    publishing,     \* <<host, tenant>>: publishers that are up
    checks, all_tenants_inited, inited_tenants,
    answered,       \* history: hosts that answered the last check ...
    seen,           \* ... and what was publishing then
    reported        \* the status of every event once the checks are over

vars == <<hosts, layout, events, entries, publishing, checks, all_tenants_inited,
          inited_tenants, answered, seen, reported>>
fixedVars == <<hosts, layout, events, entries>>
checkVars == <<checks, all_tenants_inited, inited_tenants, answered, seen>>

-------------------------------------------------------------------------------
\* A worker has a line for what it published and one for what it consumed; order is
\* the sequence of the workers' tenants.  A daemon may print a heading first.
Line(t, word) == [tenant |-> t, word |-> word]
Heading == [tenant |-> "none", word |-> "heading"]
Workers(order, word) == [i \in 1..Len(order) |-> Line(order[i], word)]
Output(order, how) ==
    CASE how = "published_first" -> Workers(order, "published") \o Workers(order, "consumed")
      [] how = "heading" -> <<Heading>> \o Workers(order, "published")
                                        \o Workers(order, "consumed")
      [] how = "consumed_first" -> Workers(order, "consumed") \o Workers(order, "published")
      [] how = "by_worker" -> [i \in 1..(2 * Len(order)) |->
                                  Line(order[(i + 1) \div 2],
                                       IF i % 2 = 1 THEN "published" ELSE "consumed")]

\* The word that ends the reading is set on the first line.  str.find gives -1, which
\* is true, for a line without "published", so it is the same for every first line.
\* (Mutant: the word that starts the output.)
EndCommandOfFirst(lines) == lines[1].word
EndCommand(lines) == "consumed"

\* The lines up to the one that ends the reading; the first never does.
Read(lines) == {i \in 1..Len(lines) : \A j \in 2..i : lines[j].word # EndCommand(lines)}

\* The positions of the lines that count.  (Mutant: also of tenants that were there
\* before.)
CountedAll(lines, new) == {i \in Read(lines) : lines[i] # Heading}
Counted(lines, new) == {i \in Read(lines) : lines[i].tenant \in new}

\* What is compared is the number of lines with the number of entries.
AllInited(count, new) == count = Cardinality(new)

Up(h) == {t \in Tenants : <<h, t>> \in publishing}

-------------------------------------------------------------------------------
Init ==
    /\ hosts \in (SUBSET Hosts) \ {{}} /\ layout \in Layouts
    /\ events \in (SUBSET Tenants) \ {{}} /\ entries \in SUBSET events
    /\ publishing \in SUBSET (hosts \X (Tenants \ events))
    /\ checks = 0 /\ all_tenants_inited = FALSE /\ inited_tenants = {}
    /\ answered = {} /\ seen = {} /\ reported = << >>

\* Puppet has reached the host, and the publisher of a tenant comes up.
PublisherStarts(h, t) ==
    /\ h \in hosts /\ t \in entries /\ <<h, t>> \notin publishing /\ reported = << >>
    /\ publishing' = publishing \cup {<<h, t>>}
    /\ UNCHANGED <<fixedVars, checkVars, reported>>

\* (Mutant: one check more.)
ChecksLeftOneMore == checks <= InitCheckCount
ChecksLeft == checks < InitCheckCount

\* start_monbox_init_check; a host that fails or is unreachable has no runner_on_ok.
Check ==
    /\ ChecksLeft /\ ~all_tenants_inited /\ reported = << >>
    /\ \E ok \in SUBSET hosts :
       \E order \in [ok -> UNION {SetToSeqs(s) : s \in SUBSET Tenants}] :
        LET lines == [h \in ok |-> Output(order[h], layout)]
            found == UNION {{<<h, i>> : i \in Counted(lines[h], entries)} : h \in ok}
        IN  /\ \A h \in ok : order[h] \in SetToSeqs(Up(h))
            /\ all_tenants_inited' = AllInited(Cardinality(found), entries)
            /\ inited_tenants' = {lines[x[1]][x[2]].tenant : x \in found}
            /\ answered' = ok
    /\ seen' = publishing
    /\ checks' = checks + 1
    /\ UNCHANGED <<fixedVars, publishing, reported>>

Outcome(t) == IF all_tenants_inited \/ t \in inited_tenants THEN "COMPLETED" ELSE "FAILED"

Report ==
    /\ reported = << >> /\ (all_tenants_inited \/ ~ChecksLeft)
    /\ reported' = [t \in events |-> Outcome(t)]
    /\ UNCHANGED <<fixedVars, publishing, checkVars>>

Next == \/ \E h \in Hosts, t \in Tenants : PublisherStarts(h, t)
        \/ Check \/ Report

Spec == Init /\ [][Next]_vars

-------------------------------------------------------------------------------
\* Types: no more checks than init_check_count, and a status for every queued event.
TypeOK ==
    /\ hosts \subseteq Hosts /\ layout \in Layouts /\ entries \subseteq events /\ events \subseteq Tenants
    /\ publishing \subseteq hosts \X Tenants /\ seen \subseteq publishing
    /\ checks \in 0..InitCheckCount
    /\ all_tenants_inited \in BOOLEAN /\ inited_tenants \subseteq Tenants
    /\ answered \subseteq hosts
    /\ reported = << >> \/ reported \in [events -> {"COMPLETED", "FAILED"}]

\* Unless the daemon prints what it consumed first, a check finds what
\* MonboxEvents.CheckInit lets it find: it counts lines that name new tenants, each by
\* a host that answered and published for the tenant, and no line twice.
FindsAsModelled ==
    checks > 0 /\ layout # "consumed_first" =>
        \E lines \in SUBSET (seen \cap (answered \X entries)) :
            /\ inited_tenants = {line[2] : line \in lines}
            /\ all_tenants_inited <=> Cardinality(lines) = Cardinality(entries)

\* On a single host that prints what it published first, a queued tenant is
\* COMPLETED exactly when its publisher was up at the last check, if the host
\* answered it.
OneHostIsExact ==
    /\ Cardinality(hosts) = 1 /\ answered = hosts
    /\ layout \in {"published_first", "heading"} /\ reported # << >>
    => \A t \in entries : reported[t] = "COMPLETED" <=> \E h \in hosts : <<h, t>> \in seen

\* A queued tenant that no host publishes for is COMPLETED only when another one is
\* counted twice in its place: by two hosts, or on the two kinds of lines of a daemon
\* that prints what it consumed first and has one worker.
MiscountNeedsDouble ==
    reported # << >> =>
        \A t \in entries :
            reported[t] = "COMPLETED" /\ (\A h \in hosts : <<h, t>> \notin seen) =>
                \E u \in entries :
                    \/ \E h, g \in hosts : h # g /\ {<<h, u>>, <<g, u>>} \subseteq seen
                    \/ layout = "consumed_first" /\ \E h \in hosts : {x \in seen : x[1] = h} = {<<h, u>>}
===============================================================================

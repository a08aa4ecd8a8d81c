------------------------------ MODULE MCDashboard ------------------------------
(* Alert episodes, and the services of the dashboard that freeze event     *)
(* lists, keep the first contract's states and broadcast them, in one      *)
(* instance for TLC: in each behaviour one component moves and the others  *)
(* stay as they began, so that the states are the sum of theirs and not    *)
(* the product.  Episodes are seen twice: over exchanges of the device,    *)
(* and over changes of the thresholds and commits between the worker's     *)
(* reads.                                                                  *)
EXTENDS Operations, EventPages, LegacyMetrics, Broadcaster, TLC

VARIABLE part

Parts == {"exchange", "thresholds", "pages", "metrics", "casts"}

(* The worker's reads see one state of the database. *)
Undisturbed == read # [p \in Pits |-> NoRead] => UNCHANGED receiver

(* Only the device of a pit is heard. *)
OneDevice ==
    /\ UNCHANGED assigned
    /\ \A s \in Sources : s \notin {assigned[p] : p \in Pits} =>
         input'[s] = input[s] /\ device'[s] = device[s]

DashboardInit ==
    /\ part \in Parts
    /\ Init /\ PageInit /\ MetricInit /\ CastInit
    /\ part = "thresholds" => \A p \in Pits : assigned[p] # NoSource
    /\ part # "thresholds" => \A p \in Pits : policy[p].warn = 75
    /\ part \notin {"exchange", "thresholds"} => assigned = [p \in Pits |-> NoSource]
    /\ part # "metrics" => limits = CHOOSE l \in Limits : TRUE

DashboardNext ==
    /\ UNCHANGED part
    /\ \/ part = "exchange" /\ Next /\ Undisturbed
          /\ UNCHANGED <<policy, pageVars, metricVars, castVars>>
       \/ part = "thresholds" /\ Next /\ OneDevice
          /\ UNCHANGED <<pageVars, metricVars, castVars>>
       \/ part = "pages" /\ PageNext
          /\ UNCHANGED <<vars, metricVars, castVars>>
       \/ part = "metrics" /\ MetricNext
          /\ UNCHANGED <<vars, pageVars, castVars>>
       \/ part = "casts" /\ CastNext
          /\ UNCHANGED <<vars, pageVars, metricVars>>

DashboardSpec ==
    DashboardInit /\ [][DashboardNext]_<<part, vars, pageVars, metricVars, castVars>>

(* Thresholds 90 (recovery 85), and a lower warning. *)
TwoPolicies == {<<75, 90>>, <<70, 90>>}

(* Thresholds further apart than the hysteresis margin; measurements with  *)
(* and without a number, equal and contradicting ones.                     *)
SomeLimits  == {[warning |-> 2, critical |-> 5], [warning |-> 3, critical |-> 5]}
SomeMetrics == {[id |-> "i1", level |-> 5], [id |-> "i1", level |-> 3],
                [id |-> NoId, level |-> 5], [id |-> NoId, level |-> InvalidLevel]}

(* Sources and senders are named alike, and told apart by nothing else; nor *)
(* are the listed events.                                                  *)
NameSymmetry == Permutations(Sources) \union Permutations(ListedEvents)
=============================================================================

----------------------------- MODULE AlertEpisode -----------------------------
(***************************************************************************)
(* What an alert episode promises, whatever the thresholds, clocks and     *)
(* filters do: an episode is opened once, may be notified while it is open,*)
(* and ends either resolved, as evidence about its notifications, or       *)
(* dropped, which says nothing.  An episode never comes back.              *)
(* (docs/ALERT_RESOLUTION_HISTORY.md; implemented by Operations.)          *)
(***************************************************************************)
EXTENDS Naturals

CONSTANT Sources

VARIABLES
    made,      \* identifiers given out: 1 .. made
    open,      \* open[source]: its open episode, or 0
    notified,  \* episodes with a notification
    resolved   \* episodes with a resolution

vars == <<made, open, notified, resolved>>

Init ==
    /\ made = 0
    /\ open = [s \in Sources |-> 0]
    /\ notified = {} /\ resolved = {}

(* A new episode takes the place of whatever the source had open. *)
Open(s) ==
    /\ made' = made + 1
    /\ open' = [open EXCEPT ![s] = made + 1]
    /\ notified' \in {notified, notified \cup {made + 1}}
    /\ UNCHANGED resolved

Notify(s) ==
    /\ open[s] # 0
    /\ notified' = notified \cup {open[s]}
    /\ UNCHANGED <<made, open, resolved>>

Resolve(s) ==
    /\ open[s] \in notified
    /\ resolved' = resolved \cup {open[s]}
    /\ open' = [open EXCEPT ![s] = 0]
    /\ UNCHANGED <<made, notified>>

Drop(s) ==
    /\ open' = [open EXCEPT ![s] = 0]
    /\ UNCHANGED <<made, notified, resolved>>

Next == \E s \in Sources : Open(s) \/ Notify(s) \/ Resolve(s) \/ Drop(s)

Spec == Init /\ [][Next]_vars
=============================================================================

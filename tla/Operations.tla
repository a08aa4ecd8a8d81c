------------------------------ MODULE Operations ------------------------------
(***************************************************************************)
(* Operational alerts of the v2 receiver: EdgeV2OperationsWorker turns the *)
(* newest STATE of the device assigned to a pit into a hysteresis state,   *)
(* notifications with a cooldown, and alert episodes whose end is durable  *)
(* evidence (process_source, alert_lifecycle_service).                     *)
(*                                                                         *)
(* The receiver commits concurrently with the worker.  process_source      *)
(* reads the newest STATE first and everything else in later statements,   *)
(* so one evaluation is two steps here: WorkerReads and Process.  The      *)
(* commit at the end is one transaction.                                   *)
(*                                                                         *)
(* A message is known by `n', its place in the order of generated_at: only *)
(* a strictly later STATE replaces the newest one.  One unit of time is a  *)
(* second, and a device sends at most one observation in each.             *)
(***************************************************************************)
EXTENDS Integers, FiniteSets, Sequences

CONSTANTS
    Pits, Sources,
    NoSource, NoRow, NoRead,  \* null values
    Revisions,    \* configuration, rule and method revisions of an assessment
    Instances,    \* orchestrator instances of a device
    Levels,       \* fill percentages
    Policies,     \* <<warning, critical>> threshold pairs a pit may have
    TTL,          \* EDGE_V2_ASSESSMENT_TTL_SECONDS
    Window,       \* EDGE_V2_MEDIAN_WINDOW_SECONDS
    Confirm,      \* EDGE_V2_CRITICAL_CONFIRM_SECONDS
    Cooldown,     \* ALERT_COOLDOWN_SECONDS
    Compact,      \* EDGE_V2_COMPACT_STORAGE_ENABLED: is the input filtered?
    MaxPending,   \* MAX_PENDING_EVALUATION_SECONDS
    Margin,       \* recovery is this far below critical (5 points)
    DefaultCritical, \* EDGE_V2_CRITICAL_THRESHOLD, for a device without a pit
    Torn,         \* may others commit between the worker's reads?  (they may: each
                  \* SELECT sees what is committed by then; FALSE narrows an
                  \* instance to undisturbed evaluations)
    MaxTime, MaxInputs, MaxLag   \* bounds: the clock, STATEs of a device,
                                 \* age of an observation when it arrives

States == {"NORMAL", "WARNING", "CRITICAL"}

NoEpisode == 0
NoTime == -1
Times  == 0 .. MaxTime

Assessments == [n : 1 .. MaxInputs, obs : Times, fill : Levels, rev : Revisions]
OperationRows == [source : Sources, state : States, n : 1 .. MaxInputs, obs : Times,
                  rev : Revisions, alertAt : Times \cup {NoTime}]
(* The places of an episode: pit, device, revision, thresholds, instance.  *)
Scopes == Pits \X Sources \X Revisions \X Nat \X Nat \X (Instances \cup {NoRow})
TrackerRows == [pit : Pits, scope : Scopes, episode : Nat, obs : Times,
                valid : BOOLEAN, hasAlert : BOOLEAN]
Reads == [state : Assessments \cup {NoRow}, at : Times]

ASSUME OperationsAssumption ==
    /\ NoSource \notin Sources
    /\ NoRow \notin Assessments \cup OperationRows \cup TrackerRows
    /\ NoRead \notin Reads
    /\ Levels \subseteq Nat
    /\ Policies \subseteq Nat \X Nat
    /\ {TTL, MaxPending} \subseteq Nat \ {0}
    /\ Window \in Nat \ {0, 1}   \* the settings accept odd windows from 3
    /\ {Confirm, Cooldown, Margin, DefaultCritical, MaxTime, MaxInputs, MaxLag} \subseteq Nat
    /\ Compact \in BOOLEAN /\ Torn \in BOOLEAN

VARIABLES
    now,         \* the server's clock
    assigned,    \* EDGE_V2_MONITORING_SOURCES: assigned[pit]
    policy,      \* pit_configs: [warn, critical, at]
    device,      \* device[source]: [ok, instance], the device status in force
    input,       \* input[source]: the newest STATE, or NoRow
    filter,      \* edge_v2_filters: filter[source], or NoRow
    operation,   \* edge_v2_operations: operation[pit], or NoRow
    tracker,     \* edge_v2_latest of kind alert_lifecycle: tracker[source], or NoRow
    transitions, \* edge_v2_transitions with alert_logs and edge_v2_alert_links
    episodes,    \* uuid4: how many episode identifiers have been made
    read,        \* read[pit]: the STATE the worker has read and when, or NoRead
    calm         \* history: observation time of the last load below the threshold,
                 \* since the device's observation times last went back

vars == <<now, assigned, policy, device, input, filter, operation, tracker,
          transitions, episodes, read, calm>>
receiver == <<device, input, filter, calm>>
ledger == <<operation, tracker, transitions, episodes>>

Lesser(a, b) == IF a < b THEN a ELSE b

(* The source's assignment, as project_input and collection look it up. *)
PitOf(s) == {p \in Pits : assigned[p] = s}

-----------------------------------------------------------------------------
(* The receiver: what project_input keeps of a STATE.                      *)

NoFilter == NoRow

Threshold(s) == IF PitOf(s) = {} THEN DefaultCritical
                ELSE policy[CHOOSE p \in Pits : assigned[p] = s].critical

FilterScope(s, i) == <<i.rev, device[s].instance, PitOf(s), Threshold(s)>>

(* Wrong on purpose, for the sensitivity runs: the window never ends. *)
NextCountUncapped(count) == count + 1

NextCount(count) == Lesser(Window, count + 1)

FilterReady(f) == f # NoFilter /\ f.count = Window

(* Old observations, and observations of a device that is not reporting,   *)
(* are no samples.  A gap or another scope starts the window again.        *)
Filtered(s, i) ==
    LET old   == filter[s]
        known == old # NoFilter
        valid == /\ i.obs <= now /\ now - i.obs < TTL /\ device[s].ok
                 /\ ~(known /\ i.obs <= old.obs)
        same  == known /\ old.scope = FilterScope(s, i)
        count == IF ~valid THEN 0
                 ELSE IF same /\ i.obs - old.obs <= 1 THEN NextCount(old.count)
                 ELSE 1
    IN  [scope |-> FilterScope(s, i), n |-> i.n, obs |-> i.obs, count |-> count,
         threshold |-> Threshold(s),
         aboveSince |-> IF count < Window \/ i.fill < Threshold(s) THEN NoTime
                        ELSE IF same /\ FilterReady(old) /\ old.aboveSince # NoTime
                          THEN old.aboveSince
                        ELSE i.obs]

(* What the samples said last below the threshold.                         *)
CalmAfter(s, i) ==
    IF i.fill < Threshold(s) THEN i.obs
    ELSE IF input[s] # NoRow /\ i.obs < input[s].obs THEN NoTime
    ELSE calm[s]

(* The receiver does not wait for the worker.                              *)
MayCommit == Torn \/ \A p \in Pits : read[p] = NoRead

(* A device's next STATE is committed with its projection.                 *)
Receive(s) ==
    /\ MayCommit
    /\ \E obs \in Times, fill \in Levels, rev \in Revisions :
          LET n == IF input[s] = NoRow THEN 1 ELSE input[s].n + 1
              i == [n |-> n, obs |-> obs, fill |-> fill, rev |-> rev]
          IN  /\ n <= MaxInputs
              /\ obs <= now /\ now <= obs + MaxLag
              /\ input' = [input EXCEPT ![s] = i]
              /\ filter' = IF Compact THEN [filter EXCEPT ![s] = Filtered(s, i)] ELSE filter
              /\ calm' = [calm EXCEPT ![s] = CalmAfter(s, i)]
    /\ UNCHANGED <<now, assigned, policy, device, read>> /\ UNCHANGED ledger

(* A status report; another instance or an unusable state empties the filter. *)
ReceiveStatus(s) ==
    /\ MayCommit
    /\ \E ok \in BOOLEAN, instance \in Instances :
          LET empties == Compact /\ (~ok \/ instance # device[s].instance)
          IN  /\ device' = [device EXCEPT ![s] = [ok |-> ok, instance |-> instance]]
              /\ filter' = IF empties THEN [filter EXCEPT ![s] = NoFilter] ELSE filter
    /\ UNCHANGED <<now, assigned, policy, input, read, calm>> /\ UNCHANGED ledger

(* No status for thirty seconds: the device is not REPORTING. *)
StatusLost(s) ==
    /\ MayCommit
    /\ device[s].ok
    /\ device' = [device EXCEPT ![s].ok = FALSE]
    /\ UNCHANGED <<now, assigned, policy, input, filter, read, calm>> /\ UNCHANGED ledger

-----------------------------------------------------------------------------
(* build_snapshot: what is known of pit p at time t, from the STATE i.     *)

LoadKnown(s, i, t) ==
    /\ i # NoRow
    /\ i.obs <= t /\ t - i.obs < TTL
    /\ device[s].ok
    /\ Compact => FilterReady(filter[s]) /\ filter[s].n = i.n

Recovery(p) == policy[p].critical - Margin

SoundPolicy(p) == /\ policy[p].warn <= Recovery(p)
                  /\ Recovery(p) < policy[p].critical /\ policy[p].critical <= 100

RowOf(p, s) == IF operation[p] # NoRow /\ operation[p].source = s THEN operation[p] ELSE NoRow

(* A brief wait for the next evaluation keeps the last one in force. *)
RecentMatches(p, row, i, t) ==
    /\ t >= row.obs /\ t - row.obs < Lesser(MaxPending, TTL)
    /\ i.n > row.n /\ i.obs > row.obs
    /\ policy[p].at <= row.obs
    /\ i.rev = row.rev

EffectiveState(p, s, i, t) ==
    LET row == RowOf(p, s)
    IN  IF LoadKnown(s, i, t) /\ row # NoRow /\ (row.n = i.n \/ RecentMatches(p, row, i, t))
          THEN row.state ELSE "UNKNOWN"

LifecycleScope(p, s, i) ==
    <<p, s, i.rev, policy[p].warn, policy[p].critical, device[s].instance>>

-----------------------------------------------------------------------------
(* process_source.                                                         *)

(* The sweep takes the time, locks the pit's row and reads the newest STATE. *)
WorkerReads(p) ==
    /\ \A q \in Pits : read[q] = NoRead
    /\ assigned[p] # NoSource
    /\ read' = [read EXCEPT ![p] = [state |-> input[assigned[p]], at |-> now]]
    /\ UNCHANGED <<now, assigned, policy>> /\ UNCHANGED receiver /\ UNCHANGED ledger

(* invalidate_episode: a data gap is not a recovery. *)
Invalidate(p, s) ==
    tracker' = IF tracker[s] # NoRow /\ tracker[s].pit = p
                 THEN [tracker EXCEPT ![s].episode = NoEpisode, ![s].valid = FALSE]
                 ELSE tracker

(* Wrong on purpose: one load at the threshold is enough. *)
UnconfirmedAbove(p, s, i) == i.fill >= policy[p].critical

(* How long the load has been above the threshold, as far as the receiver  *)
(* saw it: a sample above starts its own period.                           *)
ConfirmedAbove(p, s, i) ==
    LET f == filter[s]
        since == IF f.n = i.n /\ f.threshold = policy[p].critical /\ f.aboveSince # NoTime
                   THEN f.aboveSince ELSE i.obs
    IN  i.fill >= policy[p].critical /\ i.obs - since >= Confirm

(* Wrong on purpose: hysteresis is forgotten. *)
StillAbove(p, i) == i.fill >= policy[p].critical

StillCritical(p, i) == i.fill > Recovery(p)

Judgement(p, s, i) ==
    LET row == RowOf(p, s)
        critical == IF row # NoRow /\ row.state = "CRITICAL" THEN StillCritical(p, i)
                    ELSE IF Compact THEN ConfirmedAbove(p, s, i)
                    ELSE i.fill >= policy[p].critical
    IN  IF critical THEN "CRITICAL"
        ELSE IF i.fill >= policy[p].warn THEN "WARNING" ELSE "NORMAL"

(* Wrong on purpose: an episode goes on although the thresholds changed.   *)
SameEpisodeAnyScope(p, s, i) ==
    /\ tracker[s] # NoRow /\ tracker[s].pit = p /\ tracker[s].valid
    /\ tracker[s].obs < i.obs /\ i.obs - tracker[s].obs < TTL
    /\ tracker[s].episode # NoEpisode

(* advance_episode: an episode goes on only under one scope, on valid and  *)
(* increasing observations less than a TTL apart.                          *)
SameEpisode(p, s, i) ==
    /\ tracker[s] # NoRow
    /\ tracker[s].pit = p /\ tracker[s].scope = LifecycleScope(p, s, i) /\ tracker[s].valid
    /\ tracker[s].obs < i.obs /\ i.obs - tracker[s].obs < TTL
    /\ tracker[s].episode # NoEpisode

(* Wrong on purpose: the end of an episode leaves its pointer behind. *)
EpisodeLeft(p, s, i, current) ==
    IF SameEpisode(p, s, i) THEN tracker[s].episode
    ELSE IF current = "CRITICAL" THEN episodes + 1 ELSE NoEpisode

Episode(p, s, i, current) ==
    IF current # "CRITICAL" THEN NoEpisode
    ELSE IF SameEpisode(p, s, i) THEN tracker[s].episode ELSE episodes + 1

(* Wrong on purpose: a notification of an earlier episode counts. *)
AlertedEver(p, s, i) == tracker[s] # NoRow /\ tracker[s].hasAlert

(* The episode that goes on has been notified. *)
Alerted(p, s, i) == SameEpisode(p, s, i) /\ tracker[s].hasAlert

(* Wrong on purpose: the cooldown belongs to the device, not to the pit. *)
AlertDueForDevice(p, t) ==
    operation[p] = NoRow \/ operation[p].alertAt = NoTime \/ operation[p].source # assigned[p]
       \/ t - operation[p].alertAt >= Cooldown

AlertDue(p, t) ==
    operation[p] = NoRow \/ operation[p].alertAt = NoTime
       \/ t - operation[p].alertAt >= Cooldown

Transition(kind, p, s, episode, scope, obs, at) ==
    [kind |-> kind, pit |-> p, source |-> s, episode |-> episode, scope |-> scope,
     obs |-> obs, at |-> at]

Evaluate(p, s, i, t) ==
    LET row      == RowOf(p, s)
        previous == IF row = NoRow THEN "NORMAL" ELSE row.state
        current  == Judgement(p, s, i)
        alerted  == Alerted(p, s, i)
        episode  == Episode(p, s, i, current)
        scope    == LifecycleScope(p, s, i)
        alert    == current = "CRITICAL" /\ AlertDue(p, t)
        resolves == current # "CRITICAL" /\ alerted /\ previous = "CRITICAL"
    IN  /\ operation' = [operation EXCEPT ![p] =
              [source |-> s, state |-> current, n |-> i.n, obs |-> i.obs, rev |-> i.rev,
               alertAt |-> IF alert THEN t
                           ELSE IF operation[p] = NoRow THEN NoTime ELSE operation[p].alertAt]]
        /\ episodes' = IF episode = episodes + 1 THEN episode ELSE episodes
        /\ tracker' = IF tracker[s] = NoRow /\ episode = NoEpisode THEN tracker
              ELSE [tracker EXCEPT ![s] =
                     [pit |-> p, scope |-> scope, episode |-> episode, obs |-> i.obs,
                      valid |-> TRUE, hasAlert |-> current = "CRITICAL" /\ (alerted \/ alert)]]
        /\ transitions' = transitions
              \o (IF Compact /\ previous # current
                    THEN <<Transition("FILL_STATE_CHANGED", p, s, NoEpisode,
                                      <<previous, current>>, i.obs, i.obs)>>
                    ELSE <<>>)
              \o (IF resolves
                    THEN <<Transition("ALERT_RESOLVED", p, s, tracker[s].episode, scope, i.obs, t)>>
                    ELSE <<>>)
              \o (IF alert
                    THEN <<Transition("ALERT_CREATED", p, s, episode, scope, i.obs, t)>>
                    ELSE <<>>)

(* The rest of the evaluation, up to its commit. *)
Process(p) ==
    LET s == assigned[p]
        i == read[p].state
        t == read[p].at
        row == RowOf(p, s)
    IN  /\ read[p] # NoRead
        /\ read' = [read EXCEPT ![p] = NoRead]
        /\ IF ~LoadKnown(s, i, t)
             THEN Invalidate(p, s) /\ UNCHANGED <<operation, transitions, episodes>>
           ELSE IF row # NoRow /\ (i.n <= row.n \/ i.obs <= row.obs)
             THEN UNCHANGED ledger
           ELSE IF ~SoundPolicy(p)
             THEN Invalidate(p, s) /\ UNCHANGED <<operation, transitions, episodes>>
           ELSE Evaluate(p, s, i, t)
        /\ UNCHANGED <<now, assigned, policy>> /\ UNCHANGED receiver

-----------------------------------------------------------------------------
(* Administrators change a pit's thresholds; the deployment changes which  *)
(* device watches which pit, and the worker is restarted.                  *)

SetPolicy(p) ==
    /\ MayCommit
    /\ \E t \in Policies :
          /\ t # <<policy[p].warn, policy[p].critical>>
          /\ policy' = [policy EXCEPT ![p] = [warn |-> t[1], critical |-> t[2], at |-> now]]
    /\ UNCHANGED <<now, assigned, read>> /\ UNCHANGED receiver /\ UNCHANGED ledger

Assignments ==
    {a \in [Pits -> Sources \cup {NoSource}] :
        \A p, q \in Pits : p # q /\ a[p] = a[q] => a[p] = NoSource}

(* The process is down for a second at least. *)
Redeploy ==
    /\ now < MaxTime /\ now' = now + 1
    /\ \E a \in Assignments : assigned' = a
    /\ read' = [p \in Pits |-> NoRead]
    /\ UNCHANGED policy /\ UNCHANGED receiver /\ UNCHANGED ledger

Tick ==
    /\ now < MaxTime
    /\ now' = now + 1
    /\ UNCHANGED <<assigned, policy, read>> /\ UNCHANGED receiver /\ UNCHANGED ledger

-----------------------------------------------------------------------------
Init ==
    /\ now = 0
    /\ assigned \in Assignments
    /\ policy \in [Pits -> {[warn |-> t[1], critical |-> t[2], at |-> 0] : t \in Policies}]
    /\ device = [s \in Sources |-> [ok |-> FALSE, instance |-> NoRow]]
    /\ input = [s \in Sources |-> NoRow]
    /\ filter = [s \in Sources |-> NoFilter]
    /\ operation = [p \in Pits |-> NoRow]
    /\ tracker = [s \in Sources |-> NoRow]
    /\ transitions = <<>> /\ episodes = 0
    /\ read = [p \in Pits |-> NoRead]
    /\ calm = [s \in Sources |-> NoTime]

Next ==
    \/ \E s \in Sources : Receive(s) \/ ReceiveStatus(s) \/ StatusLost(s)
    \/ \E p \in Pits : WorkerReads(p) \/ Process(p) \/ SetPolicy(p)
    \/ Redeploy \/ Tick

Spec == Init /\ [][Next]_vars

-----------------------------------------------------------------------------
(* alert_lifecycles: what a reader at time `now' is told of notification k *)
(* (the k-th transition, an ALERT_CREATED).                                *)

Created(k)  == k \in DOMAIN transitions /\ transitions[k].kind = "ALERT_CREATED"
Resolved(k) == k \in DOMAIN transitions /\ transitions[k].kind = "ALERT_RESOLVED"

(* Wrong on purpose: only what the pit's present device said counts. *)
EndsHere(k, j) ==
    /\ Resolved(j) /\ transitions[j].source = assigned[transitions[k].pit]
    /\ transitions[j].episode = transitions[k].episode

Ends(k, j) ==
    /\ Resolved(j)
    /\ \A field \in {"pit", "source", "episode", "scope"} :
          transitions[j][field] = transitions[k][field]

CurrentEpisode(p) ==
    LET s == assigned[p]
        i == input[s]
    IN  IF /\ s # NoSource
           /\ EffectiveState(p, s, i, now) = "CRITICAL"
           /\ tracker[s] # NoRow /\ tracker[s].pit = p /\ tracker[s].valid
           /\ tracker[s].episode # NoEpisode
           /\ tracker[s].obs <= now /\ now - tracker[s].obs < TTL
           /\ tracker[s].scope = LifecycleScope(p, s, i)
          THEN tracker[s].episode ELSE NoEpisode

Lifecycle(k) ==
    LET row == transitions[k]
    IN  IF \E j \in DOMAIN transitions : Ends(k, j)
          THEN IF \E j \in DOMAIN transitions :
                     /\ Ends(k, j)
                     /\ row.obs < transitions[j].obs /\ transitions[j].obs <= transitions[j].at
                     /\ row.at <= transitions[j].at
                 THEN "RESOLVED" ELSE "UNKNOWN"
        ELSE IF row.episode = CurrentEpisode(row.pit) THEN "ACTIVE" ELSE "UNKNOWN"

-----------------------------------------------------------------------------
(* Properties.                                                             *)

(* Every row has the shape of its table. *)
TypeOK ==
    /\ now \in Times
    /\ assigned \in Assignments
    /\ policy \in [Pits -> [warn : Nat, critical : Nat, at : Times]]
    /\ device \in [Sources -> [ok : BOOLEAN, instance : Instances \cup {NoRow}]]
    /\ input \in [Sources -> Assessments \cup {NoRow}]
    /\ \A s \in Sources : filter[s] # NoFilter =>
          /\ filter[s].n \in 1 .. MaxInputs /\ filter[s].obs \in Times
          /\ filter[s].count \in 0 .. Window
          /\ filter[s].aboveSince \in Times \cup {NoTime}
    /\ operation \in [Pits -> OperationRows \cup {NoRow}]
    /\ tracker \in [Sources -> TrackerRows \cup {NoRow}]
    /\ episodes \in Nat
    /\ \A s \in Sources : tracker[s] # NoRow => tracker[s].episode <= episodes
    /\ read \in [Pits -> Reads \cup {NoRead}]
    /\ \A p \in Pits : read[p] # NoRead => read[p].at <= now

(* An episode is open only while the pit is judged CRITICAL by the same    *)
(* device: two tables that one transaction writes, and the paths that      *)
(* invalidate one of them, never drift apart.                              *)
OpenEpisodeIsCritical ==
    \A p \in Pits, s \in Sources :
       /\ operation[p] # NoRow /\ operation[p].source = s
       /\ tracker[s] # NoRow /\ tracker[s].pit = p /\ tracker[s].episode # NoEpisode
       => operation[p].state = "CRITICAL"

(* "Restarts and retransmissions do not reset the cooldown": two           *)
(* notifications of one pit are a cooldown apart, whichever device, episode *)
(* or process recorded them.                                               *)
CooldownKept ==
    \A k, j \in DOMAIN transitions :
       Created(k) /\ Created(j) /\ k < j /\ transitions[k].pit = transitions[j].pit
          => transitions[j].at - transitions[k].at >= Cooldown

(* Only an episode that was notified is resolved, once, on a later         *)
(* observation under the same scope, and it is not notified afterwards.    *)
ResolutionIsEvidence ==
    \A j \in DOMAIN transitions : Resolved(j) =>
       /\ \E k \in 1 .. j - 1 : /\ Created(k) /\ Ends(k, j)
                                /\ transitions[k].obs < transitions[j].obs
       /\ \A k \in DOMAIN transitions \ {j} :
             transitions[k].episode = transitions[j].episode => k < j /\ Created(k)

(* A load counts as critical only after it stayed at the threshold for the *)
(* whole confirmation time in every sample the receiver saw, also those    *)
(* the worker never evaluated - as far back as the device's observation    *)
(* times did not go back, which moves the filter back with them.  (With a  *)
(* confirmation time of zero the first load of a full window counts.)      *)
ConfirmedBeforeCritical ==
    [][\A p \in Pits :
          /\ Compact /\ Confirm > 0
          /\ operation'[p] # operation[p] /\ operation'[p].state = "CRITICAL"
          /\ RowOf(p, operation'[p].source) = NoRow
                \/ RowOf(p, operation'[p].source).state # "CRITICAL"
          => LET o == operation'[p] IN calm[o.source] < o.obs - Confirm]_vars

(* Once critical, a pit stays critical until its load is at or below the   *)
(* recovery level - also when another device takes over the pit            *)
(* ("the pit's existing danger state is kept", docs/V2_OPERATIONS.md).     *)
DangerKept ==
    [][\A p \in Pits :
          /\ operation[p] # NoRow /\ operation[p].state = "CRITICAL"
          /\ operation'[p] # operation[p] /\ operation'[p].state # "CRITICAL"
          => read[p].state.fill <= Recovery(p)]_vars

(* With one device per pit the danger state is kept. *)
DangerKeptByDevice ==
    [][\A p \in Pits :
          /\ operation[p] # NoRow /\ operation[p].state = "CRITICAL"
          /\ operation'[p] # operation[p] /\ operation'[p].state # "CRITICAL"
          => operation'[p].source # operation[p].source \/ read[p].state.fill <= Recovery(p)]_vars

-----------------------------------------------------------------------------
(* The episodes implement the life cycle an alert promises.                *)
Episodes == INSTANCE AlertEpisode WITH
    made     <- episodes,
    open     <- [s \in Sources |-> IF tracker[s] = NoRow THEN NoEpisode ELSE tracker[s].episode],
    notified <- {transitions[k].episode : k \in {j \in DOMAIN transitions : Created(j)}},
    resolved <- {transitions[k].episode : k \in {j \in DOMAIN transitions : Resolved(j)}}

EpisodesImplemented == Episodes!Spec
=============================================================================

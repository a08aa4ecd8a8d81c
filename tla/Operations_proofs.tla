-------------------------- MODULE Operations_proofs --------------------------
(***************************************************************************)
(* Theorems about Operations: any number of pits and devices, any          *)
(* thresholds, windows, delays and bounds, filter on or off, torn reads or *)
(* not.                                                                    *)
(***************************************************************************)
EXTENDS Operations, TLAPS

(* What the assumptions say, a part at a time.                             *)
LEMMA Nulls ==
    /\ NoSource \notin Sources
    /\ NoRow \notin Assessments /\ NoRow \notin OperationRows /\ NoRow \notin TrackerRows
    /\ NoRead \notin Reads
BY OperationsAssumption DEF OperationsAssumption

LEMMA Numbers ==
    /\ TTL \in Nat \ {0} /\ Window \in Nat \ {0, 1}
    /\ Confirm \in Nat /\ Cooldown \in Nat /\ MaxTime \in Nat /\ MaxInputs \in Nat /\ Margin \in Nat
    /\ DefaultCritical \in Nat /\ Levels \subseteq Nat /\ Policies \subseteq Nat \X Nat
    /\ Times \subseteq Nat
BY OperationsAssumption DEF OperationsAssumption, Times

-----------------------------------------------------------------------------
(* Types, and what the worker has read: a STATE of the device that watches *)
(* the pit, which is the newest one unless the receiver was faster.        *)

ReadsOK ==
    \A p \in Pits : read[p] # NoRead =>
       LET s == assigned[p]
           i == read[p].state
       IN  /\ s \in Sources
           /\ i # NoRow => /\ input[s] # NoRow /\ i.n <= input[s].n
                           /\ i.n = input[s].n => i = input[s]

(* The history and the filter have a place for every device, and every row *)
(* of edge_v2_transitions has the shape of its table.                      *)
TransitionRows ==
    [kind : {"FILL_STATE_CHANGED", "ALERT_RESOLVED", "ALERT_CREATED"}, pit : Pits,
     source : Sources, episode : Nat, scope : Scopes \cup States \X States,
     obs : Times, at : Times]

ShapesOK ==
    /\ filter = [s \in Sources |-> filter[s]]
    /\ calm \in [Sources -> Times \cup {NoTime}]
    /\ transitions \in Seq(TransitionRows)

TInv == TypeOK /\ ShapesOK /\ ReadsOK

FilterOK(f) ==
    f # NoFilter =>
       /\ f.n \in 1 .. MaxInputs /\ f.obs \in Times
       /\ f.count \in 0 .. Window
       /\ f.aboveSince \in Times \cup {NoTime}

LEMMA TypesBegin == Init => TInv
<1> SUFFICES ASSUME Init PROVE TInv
  OBVIOUS
<1>1. now \in Times /\ assigned \in Assignments /\ episodes \in Nat
  BY Numbers DEF Init, Times
<1>2. policy \in [Pits -> [warn : Nat, critical : Nat, at : Times]]
  <2>1. \A t \in Policies : [warn |-> t[1], critical |-> t[2], at |-> 0] \in [warn : Nat, critical : Nat, at : Times]
    BY Numbers DEF Times
  <2> QED BY <2>1 DEF Init
<1>3. /\ device \in [Sources -> [ok : BOOLEAN, instance : Instances \cup {NoRow}]]
      /\ input \in [Sources -> Assessments \cup {NoRow}]
      /\ \A s \in Sources : filter[s] = NoFilter
      /\ filter = [s \in Sources |-> filter[s]]
      /\ calm \in [Sources -> Times \cup {NoTime}]
      /\ transitions \in Seq(TransitionRows)
      /\ operation \in [Pits -> OperationRows \cup {NoRow}]
      /\ tracker \in [Sources -> TrackerRows \cup {NoRow}]
      /\ \A s \in Sources : tracker[s] = NoRow
      /\ read \in [Pits -> Reads \cup {NoRead}]
      /\ \A p \in Pits : read[p] = NoRead
  BY DEF Init
<1> QED BY <1>1, <1>2, <1>3 DEF TInv, TypeOK, ShapesOK, ReadsOK

(* What the receiver's filter keeps of a STATE.                            *)
LEMMA FilteredOK ==
    ASSUME TInv, NEW s \in Sources, NEW i \in Assessments
    PROVE  FilterOK(Filtered(s, i)) /\ Filtered(s, i).n = i.n /\ Filtered(s, i).obs = i.obs
<1>1. i.n \in 1 .. MaxInputs /\ i.obs \in Times
  BY DEF Assessments
<1>2. filter[s] # NoFilter => filter[s].count \in 0 .. Window /\ filter[s].aboveSince \in Times \cup {NoTime}
  BY DEF TInv, TypeOK
<1>3. \A c \in 0 .. Window : NextCount(c) \in 0 .. Window
  BY Numbers DEF NextCount, Lesser
<1> QED BY <1>1, <1>2, <1>3, Numbers DEF FilterOK, Filtered, NoFilter, FilterReady

LEMMA ReceiveTypes ==
    ASSUME TInv, NEW s \in Sources, Receive(s)
    PROVE  TInv'
<1>1. PICK obs \in Times, fill \in Levels, rev \in Revisions :
        LET n == IF input[s] = NoRow THEN 1 ELSE input[s].n + 1
            i == [n |-> n, obs |-> obs, fill |-> fill, rev |-> rev]
        IN  /\ n <= MaxInputs
            /\ obs <= now /\ now <= obs + MaxLag
            /\ input' = [input EXCEPT ![s] = i]
            /\ filter' = IF Compact THEN [filter EXCEPT ![s] = Filtered(s, i)] ELSE filter
            /\ calm' = [calm EXCEPT ![s] = CalmAfter(s, i)]
  BY DEF Receive
<1> DEFINE n == IF input[s] = NoRow THEN 1 ELSE input[s].n + 1
           i == [n |-> n, obs |-> obs, fill |-> fill, rev |-> rev]
<1>0. UNCHANGED <<now, assigned, policy, device, read>> /\ UNCHANGED ledger
  BY DEF Receive
<1>2. /\ n <= MaxInputs
      /\ input' = [input EXCEPT ![s] = i]
      /\ filter' = IF Compact THEN [filter EXCEPT ![s] = Filtered(s, i)] ELSE filter
      /\ calm' = [calm EXCEPT ![s] = CalmAfter(s, i)]
  BY <1>1
<1>3. input[s] # NoRow => input[s] \in Assessments /\ input[s].n \in 1 .. MaxInputs
  BY DEF TInv, TypeOK, Assessments
<1>4. n \in 1 .. MaxInputs
  BY <1>2, <1>3, Numbers
<1>5. i \in Assessments /\ i.n = n /\ i.obs = obs
  BY <1>4 DEF Assessments
<1>6. input[s] # NoRow => i.n > input[s].n
  BY <1>3, <1>5
<1> HIDE DEF i, n
<1>7. input' \in [Sources -> Assessments \cup {NoRow}] /\ input'[s] = i
      /\ \A x \in Sources : x # s => input'[x] = input[x]
  BY <1>2, <1>5 DEF TInv, TypeOK
<1>8. FilterOK(Filtered(s, i))
  BY <1>5, FilteredOK
<1>9. /\ filter' = [x \in Sources |-> filter'[x]]
      /\ \A x \in Sources : FilterOK(filter'[x])
  <2>1. \A x \in Sources : FilterOK(filter[x])
    BY DEF TInv, TypeOK, FilterOK
  <2>2. filter = [x \in Sources |-> filter[x]]
    BY DEF TInv, ShapesOK
  <2> QED BY <1>2, <1>8, <2>1, <2>2
<1>10. calm' \in [Sources -> Times \cup {NoTime}]
  <2>1. CalmAfter(s, i) \in Times \cup {NoTime}
    BY <1>5 DEF CalmAfter, TInv, ShapesOK
  <2> QED BY <1>2, <2>1 DEF TInv, ShapesOK
<1>11. ReadsOK'
  <2> SUFFICES ASSUME NEW p \in Pits, read[p] # NoRead
               PROVE  /\ assigned[p] \in Sources
                      /\ read[p].state # NoRow =>
                           /\ input'[assigned[p]] # NoRow
                           /\ read[p].state.n <= input'[assigned[p]].n
                           /\ read[p].state.n = input'[assigned[p]].n
                                => read[p].state = input'[assigned[p]]
    BY <1>0 DEF ReadsOK
  <2>1. /\ assigned[p] \in Sources
        /\ read[p].state # NoRow =>
             /\ input[assigned[p]] # NoRow
             /\ read[p].state.n <= input[assigned[p]].n
             /\ read[p].state.n = input[assigned[p]].n => read[p].state = input[assigned[p]]
    BY DEF TInv, ReadsOK
  <2>2. read[p].state # NoRow => read[p].state.n \in Nat
    BY DEF TInv, TypeOK, Reads, Assessments
  <2>3. i # NoRow /\ i.n \in Nat
    BY <1>5, Nulls DEF Assessments
  <2> QED BY <2>1, <2>2, <2>3, <1>3, <1>6, <1>7
<1>12. \A x \in Sources : filter'[x] # NoFilter =>
          /\ filter'[x].n \in 1 .. MaxInputs /\ filter'[x].obs \in Times
          /\ filter'[x].count \in 0 .. Window
          /\ filter'[x].aboveSince \in Times \cup {NoTime}
  BY <1>9 DEF FilterOK
<1> QED BY <1>0, <1>7, <1>9, <1>10, <1>11, <1>12 DEF TInv, TypeOK, ShapesOK, ledger

LEMMA StatusTypes ==
    ASSUME TInv, NEW s \in Sources, ReceiveStatus(s) \/ StatusLost(s)
    PROVE  TInv'
<1>1. /\ UNCHANGED <<now, assigned, policy, input, read, calm>> /\ UNCHANGED ledger
      /\ filter' = filter \/ filter' = [filter EXCEPT ![s] = NoFilter]
  BY DEF ReceiveStatus, StatusLost
<1>2. device' \in [Sources -> [ok : BOOLEAN, instance : Instances \cup {NoRow}]]
  <2>1. CASE ReceiveStatus(s)
    BY <2>1 DEF ReceiveStatus, TInv, TypeOK
  <2>2. CASE StatusLost(s)
    BY <2>2 DEF StatusLost, TInv, TypeOK
  <2> QED BY <2>1, <2>2
<1>3. filter' = [x \in Sources |-> filter'[x]] /\ \A x \in Sources : FilterOK(filter'[x])
  BY <1>1 DEF TInv, TypeOK, ShapesOK, FilterOK
<1>4. \A x \in Sources : filter'[x] # NoFilter =>
          /\ filter'[x].n \in 1 .. MaxInputs /\ filter'[x].obs \in Times
          /\ filter'[x].count \in 0 .. Window
          /\ filter'[x].aboveSince \in Times \cup {NoTime}
  BY <1>3 DEF FilterOK
<1> QED BY <1>1, <1>2, <1>3, <1>4 DEF TInv, TypeOK, ShapesOK, ReadsOK, ledger

LEMMA WorkerReadsTypes ==
    ASSUME TInv, NEW p \in Pits, WorkerReads(p)
    PROVE  TInv'
<1> DEFINE r == [state |-> input[assigned[p]], at |-> now]
<1>1. /\ assigned[p] # NoSource /\ read' = [read EXCEPT ![p] = r]
      /\ UNCHANGED <<now, assigned, policy>> /\ UNCHANGED receiver /\ UNCHANGED ledger
  BY DEF WorkerReads
<1>2. assigned[p] \in Sources
  BY <1>1 DEF TInv, TypeOK, Assignments
<1>3. r \in Reads /\ r.at = now /\ r.state = input[assigned[p]]
  BY <1>2 DEF TInv, TypeOK, Reads
<1> HIDE DEF r
<1>4. /\ read' \in [Pits -> Reads \cup {NoRead}] /\ read'[p] = r
      /\ \A q \in Pits : q # p => read'[q] = read[q]
  BY <1>1, <1>3 DEF TInv, TypeOK
<1>5. \A q \in Pits : read'[q] # NoRead => read'[q].at <= now
  BY <1>3, <1>4, Numbers DEF TInv, TypeOK
<1>6. ReadsOK'
  <2> SUFFICES ASSUME NEW q \in Pits, read'[q] # NoRead
               PROVE  /\ assigned[q] \in Sources
                      /\ read'[q].state # NoRow =>
                           /\ input[assigned[q]] # NoRow
                           /\ read'[q].state.n <= input[assigned[q]].n
                           /\ read'[q].state.n = input[assigned[q]].n
                                => read'[q].state = input[assigned[q]]
    BY <1>1 DEF ReadsOK, receiver
  <2>1. CASE q = p
    <3>1. input[assigned[p]] # NoRow => input[assigned[p]].n \in Nat
      BY <1>2 DEF TInv, TypeOK, Assessments
    <3> QED BY <2>1, <3>1, <1>2, <1>3, <1>4
  <2>2. CASE q # p
    BY <2>2, <1>4 DEF TInv, ReadsOK
  <2> QED BY <2>1, <2>2
<1> QED BY <1>1, <1>4, <1>5, <1>6 DEF TInv, TypeOK, ShapesOK, receiver, ledger

LEMMA OutsideTypes ==
    ASSUME TInv, (\E p \in Pits : SetPolicy(p)) \/ Redeploy \/ Tick
    PROVE  TInv'
<1>1. CASE \E p \in Pits : SetPolicy(p)
  <2>1. PICK p \in Pits : SetPolicy(p)
    BY <1>1
  <2>2. PICK t \in Policies :
          policy' = [policy EXCEPT ![p] = [warn |-> t[1], critical |-> t[2], at |-> now]]
    BY <2>1 DEF SetPolicy
  <2>3. [warn |-> t[1], critical |-> t[2], at |-> now] \in [warn : Nat, critical : Nat, at : Times]
    BY Numbers DEF TInv, TypeOK
  <2>4. policy' \in [Pits -> [warn : Nat, critical : Nat, at : Times]]
    BY <2>2, <2>3 DEF TInv, TypeOK
  <2> QED BY <2>1, <2>4 DEF SetPolicy, TInv, TypeOK, ShapesOK, ReadsOK, receiver, ledger
<1>2. CASE Redeploy
  <2>1. /\ now' \in Times /\ assigned' \in Assignments
        /\ read' = [p \in Pits |-> NoRead]
        /\ UNCHANGED policy /\ UNCHANGED receiver /\ UNCHANGED ledger
    BY <1>2, Numbers DEF Redeploy, TInv, TypeOK, Times
  <2> QED BY <2>1 DEF TInv, TypeOK, ShapesOK, ReadsOK, receiver, ledger
<1>3. CASE Tick
  <2>1. /\ now' \in Times /\ now' >= now
        /\ UNCHANGED <<assigned, policy, read>> /\ UNCHANGED receiver /\ UNCHANGED ledger
    BY <1>3, Numbers DEF Tick, TInv, TypeOK, Times
  <2>2. \A p \in Pits : read[p] # NoRead => read[p].at <= now'
    <3>1. \A p \in Pits : read[p] # NoRead => read[p].at \in Nat /\ read[p].at <= now
      BY Numbers DEF TInv, TypeOK, Reads
    <3> QED BY <2>1, <3>1, Numbers DEF TInv, TypeOK
  <2> QED BY <2>1, <2>2 DEF TInv, TypeOK, ShapesOK, ReadsOK, receiver, ledger
<1> QED BY <1>1, <1>2, <1>3

-----------------------------------------------------------------------------
(* One evaluation.  What it decides, by name, and the steps it may be.     *)

Current(p) == Judgement(p, assigned[p], read[p].state)

NewEpisode(p) == Episode(p, assigned[p], read[p].state, Current(p))

Alerts(p) == Current(p) = "CRITICAL" /\ AlertDue(p, read[p].at)

Resolves(p) ==
    /\ Current(p) # "CRITICAL" /\ Alerted(p, assigned[p], read[p].state)
    /\ RowOf(p, assigned[p]) # NoRow /\ RowOf(p, assigned[p]).state = "CRITICAL"

(* A complete observation later than the last one evaluated for the pit    *)
(* and the device.                                                         *)
EvaluationInput(p) ==
    LET s == assigned[p]
        i == read[p].state
    IN  /\ s \in Sources /\ i \in Assessments /\ read[p] # NoRead
        /\ read[p].at \in Times /\ read[p].at <= now
        /\ LoadKnown(s, i, read[p].at) /\ i.obs <= read[p].at
        /\ operation[p] # NoRow /\ operation[p].source = s => operation[p].obs < i.obs
        /\ SoundPolicy(p)

Evaluates(p) ==
    EvaluationInput(p) /\ Evaluate(p, assigned[p], read[p].state, read[p].at)

Invalidates(p) ==
    /\ assigned[p] \in Sources
    /\ Invalidate(p, assigned[p]) /\ UNCHANGED <<operation, transitions, episodes>>

LEMMA ProcessCases ==
    ASSUME TInv, NEW p \in Pits, Process(p)
    PROVE  /\ read[p] # NoRead /\ read' = [read EXCEPT ![p] = NoRead]
           /\ UNCHANGED <<now, assigned, policy>> /\ UNCHANGED receiver
           /\ UNCHANGED ledger \/ Invalidates(p) \/ Evaluates(p)
<1> DEFINE s == assigned[p]
           i == read[p].state
           t == read[p].at
           row == RowOf(p, s)
<1>1. /\ read[p] # NoRead /\ read' = [read EXCEPT ![p] = NoRead]
      /\ UNCHANGED <<now, assigned, policy>> /\ UNCHANGED receiver
      /\ IF ~LoadKnown(s, i, t)
             THEN Invalidate(p, s) /\ UNCHANGED <<operation, transitions, episodes>>
           ELSE IF row # NoRow /\ (i.n <= row.n \/ i.obs <= row.obs)
             THEN UNCHANGED ledger
           ELSE IF ~SoundPolicy(p)
             THEN Invalidate(p, s) /\ UNCHANGED <<operation, transitions, episodes>>
           ELSE Evaluate(p, s, i, t)
  BY DEF Process
<1>2. s \in Sources /\ read[p] \in Reads /\ t \in Times /\ t <= now
  BY <1>1 DEF TInv, TypeOK, ReadsOK, Reads
<1>3. CASE ~(/\ LoadKnown(s, i, t) /\ ~(row # NoRow /\ (i.n <= row.n \/ i.obs <= row.obs))
            /\ SoundPolicy(p))
  BY <1>1, <1>2, <1>3 DEF Invalidates
<1>4. CASE /\ LoadKnown(s, i, t) /\ ~(row # NoRow /\ (i.n <= row.n \/ i.obs <= row.obs))
           /\ SoundPolicy(p)
  <2>1. i \in Assessments /\ i.obs <= t /\ i.obs \in Nat
    BY <1>2, <1>4, Numbers DEF LoadKnown, Reads, Assessments
  <2>2. operation[p] # NoRow /\ operation[p].source = s => operation[p].obs < i.obs
    <3> SUFFICES ASSUME operation[p] # NoRow, operation[p].source = s
                 PROVE  operation[p].obs < i.obs
      OBVIOUS
    <3>1. operation[p] \in OperationRows
      BY DEF TInv, TypeOK
    <3>2. row = operation[p] /\ operation[p].obs \in Nat
      BY <3>1, Numbers DEF RowOf, OperationRows
    <3> QED BY <1>4, <2>1, <3>2
  <2>3. Evaluate(p, s, i, t)
    BY <1>1, <1>4
  <2>4. EvaluationInput(p)
    BY <1>1, <1>2, <1>4, <2>1, <2>2 DEF EvaluationInput
  <2>5. Evaluates(p)
    BY <2>3, <2>4 DEF Evaluates
  <2> QED BY <1>1, <2>5
<1> QED BY <1>3, <1>4

(* A data gap closes the episode and touches nothing else.                 *)
LEMMA InvalidateEffect ==
    ASSUME TInv, NEW p \in Pits, Invalidates(p)
    PROVE  /\ tracker' \in [Sources -> TrackerRows \cup {NoRow}]
           /\ UNCHANGED <<operation, transitions, episodes>>
           /\ \A x \in Sources :
                 \/ tracker'[x] = tracker[x]
                 \/ /\ tracker[x] # NoRow /\ tracker'[x] # NoRow
                    /\ tracker'[x].episode = NoEpisode
                    /\ tracker'[x].pit = tracker[x].pit
<1> DEFINE s == assigned[p]
<1>1. CASE tracker[s] # NoRow /\ tracker[s].pit = p
  <2> DEFINE q == [tracker[s] EXCEPT !.episode = NoEpisode, !.valid = FALSE]
  <2>1. s \in Sources /\ tracker' = [tracker EXCEPT ![s] = q]
    BY <1>1 DEF Invalidates, Invalidate
  <2>2. tracker[s] \in TrackerRows
    BY <1>1, <2>1 DEF TInv, TypeOK
  <2>3. q \in TrackerRows /\ q.episode = NoEpisode /\ q.pit = tracker[s].pit
    BY <2>2 DEF TrackerRows, NoEpisode
  <2> HIDE DEF q
  <2> QED BY <1>1, <2>1, <2>3, Nulls DEF TInv, TypeOK, Invalidates
<1>2. CASE ~(tracker[s] # NoRow /\ tracker[s].pit = p)
  BY <1>2 DEF Invalidates, Invalidate, TInv, TypeOK
<1> QED BY <1>1, <1>2

LEMMA JudgementIsState ==
    ASSUME NEW p, NEW s, NEW i
    PROVE  Judgement(p, s, i) \in States
BY DEF Judgement, States

(* What an evaluation decides is well typed.                               *)
LEMMA Decisions ==
    ASSUME TInv, NEW p \in Pits, EvaluationInput(p)
    PROVE  /\ Current(p) \in States
           /\ LifecycleScope(p, assigned[p], read[p].state) \in Scopes
           /\ NewEpisode(p) \in Nat
           /\ Current(p) # "CRITICAL" => NewEpisode(p) = NoEpisode
           /\ Current(p) = "CRITICAL" =>
                 IF SameEpisode(p, assigned[p], read[p].state)
                   THEN NewEpisode(p) = tracker[assigned[p]].episode
                   ELSE NewEpisode(p) = episodes + 1
           /\ NewEpisode(p) <= episodes + 1
           /\ tracker[assigned[p]] # NoRow =>
                 /\ tracker[assigned[p]] \in TrackerRows
                 /\ tracker[assigned[p]].episode \in Nat /\ tracker[assigned[p]].episode <= episodes
           /\ read[p].state.n \in 1 .. MaxInputs /\ read[p].state.obs \in Times
           /\ read[p].state.rev \in Revisions
           /\ read[p].at \in Times
<1> DEFINE s == assigned[p]
           i == read[p].state
<1>1. s \in Sources /\ i \in Assessments /\ read[p].at \in Times
  BY DEF EvaluationInput
<1>2. Current(p) \in States
  BY JudgementIsState DEF Current
<1>3. i.n \in 1 .. MaxInputs /\ i.obs \in Times /\ i.rev \in Revisions
  BY <1>1 DEF Assessments
<1>4. LifecycleScope(p, s, i) \in Scopes
  <2>1. policy[p].warn \in Nat /\ policy[p].critical \in Nat
    BY DEF TInv, TypeOK
  <2>2. device[s].instance \in Instances \cup {NoRow}
    BY <1>1 DEF TInv, TypeOK
  <2> QED BY <1>1, <1>3, <2>1, <2>2 DEF LifecycleScope, Scopes
<1>5. tracker[s] # NoRow => /\ tracker[s] \in TrackerRows
                            /\ tracker[s].episode \in Nat /\ tracker[s].episode <= episodes
  BY <1>1 DEF TInv, TypeOK, TrackerRows
<1>6. episodes \in Nat
  BY DEF TInv, TypeOK
<1>7. SameEpisode(p, s, i) => tracker[s] # NoRow
  BY DEF SameEpisode
<1>8. /\ Current(p) # "CRITICAL" => NewEpisode(p) = NoEpisode
      /\ Current(p) = "CRITICAL" =>
            IF SameEpisode(p, s, i) THEN NewEpisode(p) = tracker[s].episode
                                    ELSE NewEpisode(p) = episodes + 1
  BY DEF NewEpisode, Episode
<1> QED BY <1>1, <1>2, <1>3, <1>4, <1>5, <1>6, <1>7, <1>8 DEF NoEpisode

(* The pit's row.                                                          *)
LEMMA EvaluateOperation ==
    ASSUME TInv, NEW p \in Pits, Evaluates(p)
    PROVE  /\ operation' \in [Pits -> OperationRows \cup {NoRow}]
           /\ \A q \in Pits : q # p => operation'[q] = operation[q]
           /\ operation'[p] # NoRow /\ operation'[p].source = assigned[p]
           /\ operation'[p].state = Current(p) /\ operation'[p].obs = read[p].state.obs
           /\ operation'[p].alertAt =
                 IF Alerts(p) THEN read[p].at
                 ELSE IF operation[p] = NoRow THEN NoTime ELSE operation[p].alertAt
<1> DEFINE s == assigned[p]
           i == read[p].state
           q == [source |-> s, state |-> Current(p), n |-> i.n, obs |-> i.obs, rev |-> i.rev,
                 alertAt |-> IF Alerts(p) THEN read[p].at
                             ELSE IF operation[p] = NoRow THEN NoTime ELSE operation[p].alertAt]
<1>1. EvaluationInput(p) /\ operation' = [operation EXCEPT ![p] = q]
  BY DEF Evaluates, Evaluate, Current, Alerts
<1>2. operation[p] # NoRow => operation[p].alertAt \in Times \cup {NoTime}
  BY DEF TInv, TypeOK, OperationRows
<1>3. q \in OperationRows
  BY <1>1, <1>2, Decisions DEF OperationRows, EvaluationInput
<1>4. /\ q.source = s /\ q.state = Current(p) /\ q.obs = i.obs
      /\ q.alertAt = IF Alerts(p) THEN read[p].at
                     ELSE IF operation[p] = NoRow THEN NoTime ELSE operation[p].alertAt
  OBVIOUS
<1> HIDE DEF q
<1> QED BY <1>1, <1>3, <1>4, Nulls DEF TInv, TypeOK

(* The device's row.                                                       *)
LEMMA EvaluateTracker ==
    ASSUME TInv, NEW p \in Pits, Evaluates(p)
    PROVE  LET s == assigned[p]
               i == read[p].state
           IN  /\ tracker' \in [Sources -> TrackerRows \cup {NoRow}]
               /\ \A x \in Sources : x # s => tracker'[x] = tracker[x]
               /\ tracker'[s] = NoRow <=> tracker[s] = NoRow /\ NewEpisode(p) = NoEpisode
               /\ tracker'[s] # NoRow =>
                     /\ tracker'[s].pit = p /\ tracker'[s].scope = LifecycleScope(p, s, i)
                     /\ tracker'[s].episode = NewEpisode(p) /\ tracker'[s].obs = i.obs
                     /\ tracker'[s].hasAlert
                           <=> Current(p) = "CRITICAL" /\ (Alerted(p, s, i) \/ Alerts(p))
               /\ episodes' = IF NewEpisode(p) = episodes + 1 THEN episodes + 1 ELSE episodes
               /\ episodes' \in Nat /\ NewEpisode(p) <= episodes'
<1> DEFINE s == assigned[p]
           i == read[p].state
           q == [pit |-> p, scope |-> LifecycleScope(p, s, i), episode |-> NewEpisode(p),
                 obs |-> i.obs, valid |-> TRUE,
                 hasAlert |-> Current(p) = "CRITICAL" /\ (Alerted(p, s, i) \/ Alerts(p))]
<1>1. /\ EvaluationInput(p)
      /\ tracker' = IF tracker[s] = NoRow /\ NewEpisode(p) = NoEpisode THEN tracker
                    ELSE [tracker EXCEPT ![s] = q]
  <2> DEFINE a == Current(p) = "CRITICAL" /\ AlertDue(p, read[p].at)
             r == [pit |-> p, scope |-> LifecycleScope(p, s, i), episode |-> NewEpisode(p),
                   obs |-> i.obs, valid |-> TRUE,
                   hasAlert |-> Current(p) = "CRITICAL" /\ (Alerted(p, s, i) \/ a)]
  <2>1. /\ EvaluationInput(p)
        /\ tracker' = IF tracker[s] = NoRow /\ NewEpisode(p) = NoEpisode THEN tracker
                      ELSE [tracker EXCEPT ![s] = r]
    BY DEF Evaluates, Evaluate, Current, NewEpisode
  <2> QED BY <2>1 DEF Alerts
<1>2. episodes' = IF NewEpisode(p) = episodes + 1 THEN NewEpisode(p) ELSE episodes
  BY DEF Evaluates, Evaluate, Current, NewEpisode
<1>3. s \in Sources
  BY <1>1 DEF EvaluationInput
<1>4. q \in TrackerRows
  BY <1>1, Decisions DEF TrackerRows
<1>5. /\ q.pit = p /\ q.scope = LifecycleScope(p, s, i) /\ q.episode = NewEpisode(p)
      /\ q.obs = i.obs
      /\ q.hasAlert <=> Current(p) = "CRITICAL" /\ (Alerted(p, s, i) \/ Alerts(p))
  OBVIOUS
<1> HIDE DEF q
<1>6. tracker \in [Sources -> TrackerRows \cup {NoRow}] /\ episodes \in Nat
  BY DEF TInv, TypeOK
<1>7. NewEpisode(p) \in Nat /\ NewEpisode(p) <= episodes + 1
  BY <1>1, Decisions
<1>8. episodes' \in Nat /\ NewEpisode(p) <= episodes'
  BY <1>2, <1>6, <1>7
<1>9. CASE tracker[s] = NoRow /\ NewEpisode(p) = NoEpisode
  BY <1>1, <1>2, <1>3, <1>6, <1>8, <1>9
<1>10. CASE ~(tracker[s] = NoRow /\ NewEpisode(p) = NoEpisode)
  <2>1. tracker' = [tracker EXCEPT ![s] = q]
    BY <1>1, <1>10
  <2>2. /\ tracker' \in [Sources -> TrackerRows \cup {NoRow}] /\ tracker'[s] = q
        /\ \A x \in Sources : x # s => tracker'[x] = tracker[x]
    BY <2>1, <1>3, <1>4, <1>6
  <2> QED BY <2>2, <1>2, <1>4, <1>5, <1>8, <1>10, Nulls
<1> QED BY <1>9, <1>10

(* The rows an evaluation adds to the transitions: at most a change of     *)
(* state, then the end or the notification of an episode, never both.      *)
ResolvedRow(p) ==
    LET s == assigned[p]
        i == read[p].state
    IN  Transition("ALERT_RESOLVED", p, s, tracker[s].episode, LifecycleScope(p, s, i), i.obs,
                   read[p].at)

CreatedRow(p) ==
    LET s == assigned[p]
        i == read[p].state
    IN  Transition("ALERT_CREATED", p, s, NewEpisode(p), LifecycleScope(p, s, i), i.obs,
                   read[p].at)

LEMMA RowShapes ==
    ASSUME TInv, NEW p \in Pits, EvaluationInput(p)
    PROVE  /\ CreatedRow(p) \in TransitionRows
           /\ tracker[assigned[p]] # NoRow => ResolvedRow(p) \in TransitionRows
           /\ \A previous \in States :
                 Transition("FILL_STATE_CHANGED", p, assigned[p], NoEpisode,
                            <<previous, Current(p)>>, read[p].state.obs, read[p].state.obs)
                    \in TransitionRows
<1>1. assigned[p] \in Sources
  BY DEF EvaluationInput
<1> QED BY <1>1, Decisions DEF CreatedRow, ResolvedRow, Transition, TransitionRows, NoEpisode

(* Rows are only added.                                                    *)
LEMMA Added ==
    ASSUME NEW S, NEW a \in Seq(S), NEW b \in Seq(S)
    PROVE  /\ a \o b \in Seq(S) /\ Len(a \o b) = Len(a) + Len(b)
           /\ \A k \in 1 .. Len(a) : (a \o b)[k] = a[k]
           /\ \A k \in Len(a) + 1 .. Len(a) + Len(b) : (a \o b)[k] = b[k - Len(a)]
OBVIOUS

LEMMA OneAdded ==
    ASSUME NEW S, NEW a \in Seq(S), NEW b \in BOOLEAN, NEW x, b => x \in S
    PROVE  LET c == a \o (IF b THEN <<x>> ELSE <<>>)
           IN  /\ c \in Seq(S) /\ Len(c) = IF b THEN Len(a) + 1 ELSE Len(a)
               /\ \A k \in 1 .. Len(a) : c[k] = a[k]
               /\ b => c[Len(a) + 1] = x
<1>1. CASE b
  <2>1. <<x>> \in Seq(S) /\ Len(<<x>>) = 1 /\ <<x>>[1] = x
    BY <1>1
  <2>2. Len(a) \in Nat
    OBVIOUS
  <2> QED BY <1>1, <2>1, <2>2, Added
<1>2. CASE ~b
  <2>1. <<>> \in Seq(S) /\ Len(<<>>) = 0
    OBVIOUS
  <2>2. Len(a) \in Nat
    OBVIOUS
  <2> QED BY <1>2, <2>1, <2>2, Added
<1> QED BY <1>1, <1>2

LEMMA EvaluateTransitions ==
    ASSUME TInv, NEW p \in Pits, Evaluates(p)
    PROVE  /\ transitions' \in Seq(TransitionRows)
           /\ Len(transitions') >= Len(transitions)
           /\ \A k \in 1 .. Len(transitions) : transitions'[k] = transitions[k]
           /\ \A k \in Len(transitions) + 1 .. Len(transitions') :
                 \/ transitions'[k].kind = "FILL_STATE_CHANGED" /\ transitions'[k].episode = NoEpisode
                 \/ k = Len(transitions') /\ Resolves(p) /\ transitions'[k] = ResolvedRow(p)
                 \/ k = Len(transitions') /\ Alerts(p) /\ transitions'[k] = CreatedRow(p)
           /\ Resolves(p) => /\ Len(transitions') > Len(transitions)
                             /\ transitions'[Len(transitions')] = ResolvedRow(p)
           /\ Alerts(p) => /\ Len(transitions') > Len(transitions)
                           /\ transitions'[Len(transitions')] = CreatedRow(p)
<1> DEFINE s == assigned[p]
           i == read[p].state
           previous == IF RowOf(p, s) = NoRow THEN "NORMAL" ELSE RowOf(p, s).state
           change == Transition("FILL_STATE_CHANGED", p, s, NoEpisode, <<previous, Current(p)>>,
                                i.obs, i.obs)
           changes == Compact /\ previous # Current(p)
           a == transitions \o (IF changes THEN <<change>> ELSE <<>>)
           b == a \o (IF Resolves(p) THEN <<ResolvedRow(p)>> ELSE <<>>)
           c == b \o (IF Alerts(p) THEN <<CreatedRow(p)>> ELSE <<>>)
<1>1. EvaluationInput(p) /\ s \in Sources
  BY DEF Evaluates, EvaluationInput
<1>2. previous \in States
  BY DEF RowOf, TInv, TypeOK, OperationRows, States
<1>3. transitions' = c
  <2> DEFINE current == Judgement(p, s, i)
             resolves == current # "CRITICAL" /\ Alerted(p, s, i) /\ previous = "CRITICAL"
             alert == current = "CRITICAL" /\ AlertDue(p, read[p].at)
  <2>1. transitions' = transitions
              \o (IF Compact /\ previous # current
                    THEN <<Transition("FILL_STATE_CHANGED", p, s, NoEpisode,
                                      <<previous, current>>, i.obs, i.obs)>>
                    ELSE <<>>)
              \o (IF resolves
                    THEN <<Transition("ALERT_RESOLVED", p, s, tracker[s].episode,
                                      LifecycleScope(p, s, i), i.obs, read[p].at)>>
                    ELSE <<>>)
              \o (IF alert
                    THEN <<Transition("ALERT_CREATED", p, s, Episode(p, s, i, current),
                                      LifecycleScope(p, s, i), i.obs, read[p].at)>>
                    ELSE <<>>)
    BY DEF Evaluates, Evaluate
  <2>2. current = Current(p) /\ Episode(p, s, i, current) = NewEpisode(p)
    BY DEF Current, NewEpisode
  <2>3. resolves <=> Resolves(p)
    <3>1. previous = "CRITICAL" <=> RowOf(p, s) # NoRow /\ RowOf(p, s).state = "CRITICAL"
      OBVIOUS
    <3> QED BY <3>1, <2>2 DEF Resolves
  <2>4. alert <=> Alerts(p)
    BY <2>2 DEF Alerts
  <2> HIDE DEF current, resolves, alert, previous
  <2> QED BY <2>1, <2>2, <2>3, <2>4 DEF ResolvedRow, CreatedRow
<1>4. change \in TransitionRows /\ change.kind = "FILL_STATE_CHANGED" /\ change.episode = NoEpisode
  BY <1>1, <1>2, RowShapes DEF Transition
<1>5. Resolves(p) => ResolvedRow(p) \in TransitionRows /\ ~Alerts(p)
  BY <1>1, RowShapes DEF Resolves, Alerts, Alerted, SameEpisode
<1>6. CreatedRow(p) \in TransitionRows
  BY <1>1, RowShapes
<1>7. transitions \in Seq(TransitionRows) /\ Len(transitions) \in Nat
  BY DEF TInv, ShapesOK
<1>8. changes \in BOOLEAN /\ Resolves(p) \in BOOLEAN /\ Alerts(p) \in BOOLEAN
  BY DEF Resolves, Alerts
<1> HIDE DEF change, changes
<1>9. /\ a \in Seq(TransitionRows)
      /\ Len(a) = IF changes THEN Len(transitions) + 1 ELSE Len(transitions)
      /\ \A k \in 1 .. Len(transitions) : a[k] = transitions[k]
      /\ changes => a[Len(transitions) + 1] = change
  BY <1>4, <1>7, <1>8, OneAdded
<1> HIDE DEF a
<1>10. /\ b \in Seq(TransitionRows) /\ Len(b) = IF Resolves(p) THEN Len(a) + 1 ELSE Len(a)
       /\ \A k \in 1 .. Len(a) : b[k] = a[k]
       /\ Resolves(p) => b[Len(a) + 1] = ResolvedRow(p)
  BY <1>5, <1>8, <1>9, OneAdded
<1> HIDE DEF b
<1>11. /\ c \in Seq(TransitionRows) /\ Len(c) = IF Alerts(p) THEN Len(b) + 1 ELSE Len(b)
       /\ \A k \in 1 .. Len(b) : c[k] = b[k]
       /\ Alerts(p) => c[Len(b) + 1] = CreatedRow(p)
  BY <1>6, <1>8, <1>10, OneAdded
<1> HIDE DEF c
<1>12. Len(a) \in Nat /\ Len(b) \in Nat
  BY <1>9, <1>10, <1>7
<1>13. \A k \in 1 .. Len(transitions) : c[k] = transitions[k]
  BY <1>7, <1>9, <1>10, <1>11, <1>12
<1>14. \A k \in Len(transitions) + 1 .. Len(c) :
          \/ c[k].kind = "FILL_STATE_CHANGED" /\ c[k].episode = NoEpisode
          \/ k = Len(c) /\ Resolves(p) /\ c[k] = ResolvedRow(p)
          \/ k = Len(c) /\ Alerts(p) /\ c[k] = CreatedRow(p)
  <2> SUFFICES ASSUME NEW k \in Len(transitions) + 1 .. Len(c)
               PROVE  \/ c[k].kind = "FILL_STATE_CHANGED" /\ c[k].episode = NoEpisode
                      \/ k = Len(c) /\ Resolves(p) /\ c[k] = ResolvedRow(p)
                      \/ k = Len(c) /\ Alerts(p) /\ c[k] = CreatedRow(p)
    OBVIOUS
  <2>1. CASE k <= Len(a)
    <3>1. changes /\ k = Len(transitions) + 1 /\ c[k] = change
      BY <2>1, <1>7, <1>9, <1>10, <1>11, <1>12
    <3> QED BY <3>1, <1>4
  <2>2. CASE ~(k <= Len(a)) /\ k <= Len(b)
    BY <2>2, <1>5, <1>7, <1>9, <1>10, <1>11, <1>12
  <2>3. CASE ~(k <= Len(b))
    BY <2>3, <1>7, <1>9, <1>10, <1>11, <1>12
  <2> QED BY <2>1, <2>2, <2>3
<1>15. Resolves(p) => Len(c) > Len(transitions) /\ c[Len(c)] = ResolvedRow(p)
  BY <1>5, <1>7, <1>9, <1>10, <1>11, <1>12
<1>16. Alerts(p) => Len(c) > Len(transitions) /\ c[Len(c)] = CreatedRow(p)
  BY <1>7, <1>9, <1>10, <1>11, <1>12
<1>17. Len(c) >= Len(transitions)
  BY <1>7, <1>9, <1>10, <1>11, <1>12
<1> QED BY <1>3, <1>11, <1>13, <1>14, <1>15, <1>16, <1>17

LEMMA ProcessTypes ==
    ASSUME TInv, NEW p \in Pits, Process(p)
    PROVE  TInv'
<1>1. /\ read[p] # NoRead /\ read' = [read EXCEPT ![p] = NoRead]
      /\ UNCHANGED <<now, assigned, policy>> /\ UNCHANGED receiver
      /\ UNCHANGED ledger \/ Invalidates(p) \/ Evaluates(p)
  BY ProcessCases
<1>2. /\ read' \in [Pits -> Reads \cup {NoRead}]
      /\ \A q \in Pits : read'[q] # NoRead => read'[q].at <= now
      /\ ReadsOK'
  <2>1. read' \in [Pits -> Reads \cup {NoRead}] /\ read'[p] = NoRead
        /\ \A q \in Pits : q # p => read'[q] = read[q]
    BY <1>1 DEF TInv, TypeOK
  <2> QED BY <1>1, <2>1 DEF TInv, TypeOK, ReadsOK, receiver
<1>3. /\ operation' \in [Pits -> OperationRows \cup {NoRow}]
      /\ tracker' \in [Sources -> TrackerRows \cup {NoRow}]
      /\ episodes' \in Nat
      /\ \A x \in Sources : tracker'[x] # NoRow => tracker'[x].episode <= episodes'
      /\ transitions' \in Seq(TransitionRows)
  <2>1. CASE UNCHANGED ledger
    BY <2>1 DEF ledger, TInv, TypeOK, ShapesOK
  <2>2. CASE Invalidates(p)
    <3>1. \A x \in Sources : tracker'[x] # NoRow => tracker'[x].episode <= episodes
      BY <2>2, InvalidateEffect DEF TInv, TypeOK, NoEpisode
    <3> QED BY <2>2, <3>1, InvalidateEffect DEF TInv, TypeOK, ShapesOK
  <2>3. CASE Evaluates(p)
    <3>1. \A x \in Sources : tracker'[x] # NoRow => tracker'[x].episode <= episodes'
      <4>1. /\ \A x \in Sources : x # assigned[p] => tracker'[x] = tracker[x]
            /\ tracker'[assigned[p]] # NoRow => tracker'[assigned[p]].episode = NewEpisode(p)
            /\ episodes' = IF NewEpisode(p) = episodes + 1 THEN episodes + 1 ELSE episodes
            /\ episodes' \in Nat /\ NewEpisode(p) <= episodes'
        BY <2>3, EvaluateTracker
      <4>2. episodes \in Nat /\ episodes' >= episodes
        BY <4>1 DEF TInv, TypeOK
      <4>3. \A x \in Sources : tracker[x] # NoRow => /\ tracker[x].episode \in Nat
                                                     /\ tracker[x].episode <= episodes
        BY DEF TInv, TypeOK, TrackerRows
      <4> QED BY <4>1, <4>2, <4>3
    <3> QED BY <2>3, <3>1, EvaluateOperation, EvaluateTracker, EvaluateTransitions
  <2> QED BY <1>1, <2>1, <2>2, <2>3
<1> QED BY <1>1, <1>2, <1>3 DEF TInv, TypeOK, ShapesOK, receiver

LEMMA TypesStep == TInv /\ [Next]_vars => TInv'
<1> SUFFICES ASSUME TInv, [Next]_vars PROVE TInv'
  OBVIOUS
<1>1. CASE \E s \in Sources : Receive(s) \/ ReceiveStatus(s) \/ StatusLost(s)
  BY <1>1, ReceiveTypes, StatusTypes
<1>2. CASE \E p \in Pits : WorkerReads(p)
  BY <1>2, WorkerReadsTypes
<1>3. CASE \E p \in Pits : Process(p)
  BY <1>3, ProcessTypes
<1>4. CASE (\E p \in Pits : SetPolicy(p)) \/ Redeploy \/ Tick
  BY <1>4, OutsideTypes
<1>5. CASE UNCHANGED vars
  BY <1>5 DEF vars, TInv, TypeOK, ShapesOK, ReadsOK
<1> QED BY <1>1, <1>2, <1>3, <1>4, <1>5 DEF Next

LEMMA Types == Spec => []TInv
BY TypesBegin, TypesStep, PTL DEF Spec

(* Every row of the receiver's and the worker's tables keeps its shape,    *)
(* for any number of pits and devices.                                     *)
THEOREM TypeCorrect == Spec => []TypeOK
<1>1. TInv => TypeOK
  BY DEF TInv
<1> QED BY <1>1, Types, PTL

(* Only an evaluation changes the pits, the devices' episodes and the      *)
(* transitions.                                                            *)
LEMMA LedgerStep ==
    ASSUME TInv, [Next]_vars
    PROVE  \/ UNCHANGED ledger
           \/ \E p \in Pits : Process(p) /\ (Invalidates(p) \/ Evaluates(p))
<1>1. CASE \E p \in Pits : Process(p)
  BY <1>1, ProcessCases
<1>2. CASE ~\E p \in Pits : Process(p)
  BY <1>2 DEF Next, Receive, ReceiveStatus, StatusLost, WorkerReads, SetPolicy, Redeploy, Tick,
     vars, ledger
<1> QED BY <1>1, <1>2

-----------------------------------------------------------------------------
(* Open episodes.                                                          *)

LEMMA OpenEpisodesStep ==
    TInv /\ OpenEpisodeIsCritical /\ [Next]_vars => OpenEpisodeIsCritical'
<1> SUFFICES ASSUME TInv, OpenEpisodeIsCritical, [Next]_vars
             PROVE  OpenEpisodeIsCritical'
  OBVIOUS
<1>1. CASE UNCHANGED ledger
  BY <1>1 DEF OpenEpisodeIsCritical, ledger
<1>2. ASSUME NEW p \in Pits, Invalidates(p)
      PROVE  OpenEpisodeIsCritical'
  BY <1>2, InvalidateEffect DEF OpenEpisodeIsCritical
<1>3. ASSUME NEW p \in Pits, Evaluates(p)
      PROVE  OpenEpisodeIsCritical'
  <2> SUFFICES ASSUME NEW q \in Pits, NEW x \in Sources,
                      operation'[q] # NoRow, operation'[q].source = x,
                      tracker'[x] # NoRow, tracker'[x].pit = q, tracker'[x].episode # NoEpisode
               PROVE  operation'[q].state = "CRITICAL"
    BY DEF OpenEpisodeIsCritical
  <2>1. CASE x = assigned[p]
    <3>1. q = p /\ NewEpisode(p) # NoEpisode
      BY <2>1, <1>3, EvaluateTracker
    <3>2. Current(p) = "CRITICAL"
      BY <1>3, <3>1, Decisions DEF Evaluates
    <3> QED BY <1>3, <3>1, <3>2, EvaluateOperation
  <2>2. CASE x # assigned[p]
    <3>1. q # p /\ operation'[q] = operation[q]
      BY <2>2, <1>3, EvaluateOperation
    <3>2. tracker'[x] = tracker[x]
      BY <2>2, <1>3, EvaluateTracker
    <3> QED BY <3>1, <3>2 DEF OpenEpisodeIsCritical
  <2> QED BY <2>1, <2>2
<1> QED BY <1>1, <1>2, <1>3, LedgerStep

(* While an episode is open its pit is judged CRITICAL: the evaluation      *)
(* (process_source) and the paths that drop an episode (invalidate_episode) *)
(* never leave the two tables apart, whatever is read torn.                *)
THEOREM OpenEpisodesAreCritical == Spec => []OpenEpisodeIsCritical
<1>1. Init => OpenEpisodeIsCritical
  BY DEF Init, OpenEpisodeIsCritical
<1> QED BY <1>1, Types, OpenEpisodesStep, PTL DEF Spec

-----------------------------------------------------------------------------
(* The cooldown: the pit's row remembers the time of its last notification. *)

AlertsClocked ==
    \A k \in DOMAIN transitions :
       Created(k) => /\ operation[transitions[k].pit] # NoRow
                     /\ transitions[k].at <= operation[transitions[k].pit].alertAt

CInv == AlertsClocked /\ CooldownKept

LEMMA CooldownStep == TInv /\ CInv /\ [Next]_vars => CInv'
<1> SUFFICES ASSUME TInv, CInv, [Next]_vars
             PROVE  CInv'
  OBVIOUS
<1>1. CASE UNCHANGED ledger
  BY <1>1 DEF CInv, AlertsClocked, CooldownKept, Created, ledger
<1>2. ASSUME NEW p \in Pits, Invalidates(p)
      PROVE  CInv'
  BY <1>2, InvalidateEffect DEF CInv, AlertsClocked, CooldownKept, Created
<1>3. ASSUME NEW p \in Pits, Evaluates(p)
      PROVE  CInv'
  <2> DEFINE t == read[p].at
             old == Len(transitions)
             last == Len(transitions')
  <2>1. /\ transitions \in Seq(TransitionRows) /\ transitions' \in Seq(TransitionRows)
        /\ last >= old /\ old \in Nat /\ last \in Nat
        /\ DOMAIN transitions = 1 .. old /\ DOMAIN transitions' = 1 .. last
    BY <1>3, EvaluateTransitions DEF TInv, ShapesOK
  <2>2. \A k \in 1 .. old : transitions'[k] = transitions[k] /\ transitions[k] \in TransitionRows
    <3>1. \A k \in 1 .. old : transitions'[k] = transitions[k]
      BY <1>3, EvaluateTransitions
    <3>2. \A k \in 1 .. old : transitions[k] \in TransitionRows
      BY <2>1
    <3> QED BY <3>1, <3>2
  <2>3. \A k \in 1 .. old : Created(k) => /\ transitions[k].pit \in Pits /\ transitions[k].at \in Nat
                                          /\ operation[transitions[k].pit] # NoRow
                                          /\ transitions[k].at <= operation[transitions[k].pit].alertAt
    BY <2>1, <2>2, Numbers DEF CInv, AlertsClocked, TransitionRows
  <2>4. \A k \in old + 1 .. last : (Created(k))' =>
           /\ k = last /\ Alerts(p)
           /\ transitions'[k].pit = p /\ transitions'[k].at = t
    <3>1. \A k \in old + 1 .. last :
             \/ transitions'[k].kind = "FILL_STATE_CHANGED"
             \/ transitions'[k] = ResolvedRow(p)
             \/ k = last /\ Alerts(p) /\ transitions'[k] = CreatedRow(p)
      BY <1>3, EvaluateTransitions
    <3>2. /\ ResolvedRow(p).kind = "ALERT_RESOLVED"
          /\ CreatedRow(p).pit = p /\ CreatedRow(p).at = t
      BY DEF ResolvedRow, CreatedRow, Transition
    <3> QED BY <3>1, <3>2 DEF Created
  <2>5. \A k \in 1 .. old : (Created(k))' <=> Created(k)
    BY <2>1, <2>2 DEF Created
  <2>6. operation[p] # NoRow => operation[p].alertAt \in Int
    <3>1. operation[p] # NoRow => operation[p].alertAt \in Times \cup {NoTime}
      BY DEF TInv, TypeOK, OperationRows
    <3> QED BY <3>1 DEF Times, NoTime
  <2>7. t \in Nat
    BY <1>3, Decisions, Numbers DEF Evaluates
  <2>8. ASSUME Alerts(p), NEW k \in 1 .. old, Created(k), transitions[k].pit = p
        PROVE  t - transitions[k].at >= Cooldown
    <3>1. /\ transitions[k].at \in Nat /\ operation[p] # NoRow
          /\ transitions[k].at <= operation[p].alertAt
      BY <2>3, <2>8
    <3>2. operation[p].alertAt \in Int /\ operation[p].alertAt # NoTime
      BY <2>6, <2>7, <3>1 DEF NoTime
    <3>3. t - operation[p].alertAt >= Cooldown
      BY <2>8, <3>1, <3>2 DEF Alerts, AlertDue
    <3> QED BY <3>1, <3>2, <3>3, <2>7, Numbers
  <2>9. \A q \in Pits : q # p => operation'[q] = operation[q]
    BY <1>3, EvaluateOperation
  <2>10. /\ operation'[p] # NoRow
         /\ operation'[p].alertAt = IF Alerts(p) THEN t
                                    ELSE IF operation[p] = NoRow THEN NoTime ELSE operation[p].alertAt
    BY <1>3, EvaluateOperation
  <2>11. AlertsClocked'
    <3> SUFFICES ASSUME NEW k \in 1 .. last, (Created(k))'
                 PROVE  /\ operation'[transitions'[k].pit] # NoRow
                        /\ transitions'[k].at <= operation'[transitions'[k].pit].alertAt
      BY <2>1 DEF AlertsClocked
    <3>1. CASE k \in 1 .. old
      <4>1. /\ Created(k) /\ transitions'[k] = transitions[k] /\ transitions[k].pit \in Pits
            /\ transitions[k].at \in Nat /\ operation[transitions[k].pit] # NoRow
            /\ transitions[k].at <= operation[transitions[k].pit].alertAt
        BY <3>1, <2>2, <2>3, <2>5
      <4>2. CASE transitions[k].pit # p
        BY <4>1, <4>2, <2>9
      <4>3. CASE transitions[k].pit = p /\ ~Alerts(p)
        BY <4>1, <4>3, <2>10
      <4>4. CASE transitions[k].pit = p /\ Alerts(p)
        <5>1. t - transitions[k].at >= Cooldown
          BY <2>8, <3>1, <4>1, <4>4
        <5> QED BY <4>1, <4>4, <5>1, <2>7, <2>10, Numbers
      <4> QED BY <4>2, <4>3, <4>4
    <3>2. CASE k \in old + 1 .. last
      BY <3>2, <2>4, <2>7, <2>10
    <3> QED BY <3>1, <3>2, <2>1
  <2>12. CooldownKept'
    <3> SUFFICES ASSUME NEW k \in 1 .. last, NEW j \in 1 .. last, (Created(k))', (Created(j))',
                        k < j, transitions'[k].pit = transitions'[j].pit
                 PROVE  transitions'[j].at - transitions'[k].at >= Cooldown
      BY <2>1 DEF CooldownKept
    <3>1. CASE j \in 1 .. old
      <4>1. k \in 1 .. old
        BY <3>1, <2>1
      <4>2. Created(k) /\ Created(j) /\ transitions'[k] = transitions[k]
                                     /\ transitions'[j] = transitions[j]
        BY <3>1, <4>1, <2>2, <2>5
      <4> QED BY <3>1, <4>1, <4>2, <2>1 DEF CInv, CooldownKept
    <3>2. CASE j \in old + 1 .. last
      <4>1. j = last /\ Alerts(p) /\ transitions'[j].pit = p /\ transitions'[j].at = t
        BY <3>2, <2>4
      <4>2. k \in 1 .. old
        BY <4>1, <2>1, <2>4
      <4>3. Created(k) /\ transitions'[k] = transitions[k]
        BY <4>2, <2>2, <2>5
      <4> QED BY <4>1, <4>2, <4>3, <2>8
    <3> QED BY <3>1, <3>2, <2>1
  <2> QED BY <2>11, <2>12 DEF CInv
<1> QED BY <1>1, <1>2, <1>3, LedgerStep

(* Two notifications of a pit are a cooldown apart, whichever device,      *)
(* episode or process recorded them: process_source takes the pit's row,   *)
(* which survives restarts and reassignments, for the last time.           *)
THEOREM CooldownsAreKept == Spec => []CooldownKept
<1>1. Init => CInv
  BY DEF Init, CInv, AlertsClocked, CooldownKept
<1>2. CInv => CooldownKept
  BY DEF CInv
<1> QED BY <1>1, <1>2, Types, CooldownStep, PTL DEF Spec

-----------------------------------------------------------------------------
(* Resolutions.  What the rows written so far say of the episodes that are *)
(* open now is what makes the next resolution evidence.                    *)

OpenOf(s) == IF tracker[s] = NoRow THEN NoEpisode ELSE tracker[s].episode

(* A notification or a resolution is about an episode that was made.       *)
RowsMade ==
    \A k \in DOMAIN transitions :
       IF transitions[k].kind = "FILL_STATE_CHANGED"
         THEN transitions[k].episode = NoEpisode
         ELSE transitions[k].episode \in 1 .. episodes

(* An episode is open at one device.                                       *)
OpenOnce == \A s, x \in Sources : OpenOf(s) = OpenOf(x) /\ OpenOf(s) # NoEpisode => s = x

(* All that is written of an open episode are notifications, of its pit    *)
(* and under its scope.                                                    *)
OnlyNotified ==
    \A s \in Sources, k \in DOMAIN transitions :
       OpenOf(s) # NoEpisode /\ transitions[k].episode = OpenOf(s)
          => /\ Created(k)
             /\ transitions[k].pit = tracker[s].pit /\ transitions[k].source = s
             /\ transitions[k].scope = tracker[s].scope /\ transitions[k].obs <= tracker[s].obs

(* An open episode that counts as notified was.                            *)
NotedAlerts ==
    \A s \in Sources :
       OpenOf(s) # NoEpisode /\ tracker[s].hasAlert
          => \E k \in DOMAIN transitions : Created(k) /\ transitions[k].episode = OpenOf(s)

RInv == RowsMade /\ OpenOnce /\ OnlyNotified /\ NotedAlerts /\ ResolutionIsEvidence

LEMMA EndsMeaning ==
    ASSUME NEW k \in DOMAIN transitions, NEW j \in DOMAIN transitions
    PROVE  Ends(k, j) <=> /\ Resolved(j)
                          /\ transitions[j].pit = transitions[k].pit
                          /\ transitions[j].source = transitions[k].source
                          /\ transitions[j].episode = transitions[k].episode
                          /\ transitions[j].scope = transitions[k].scope
BY DEF Ends

LEMMA OpenRange ==
    ASSUME TInv, NEW s \in Sources
    PROVE  /\ OpenOf(s) \in 0 .. episodes
           /\ OpenOf(s) # NoEpisode => tracker[s] # NoRow /\ tracker[s] \in TrackerRows
                                       /\ tracker[s].episode = OpenOf(s)
                                       /\ tracker[s].obs \in Nat
<1>1. episodes \in Nat /\ (tracker[s] # NoRow => tracker[s] \in TrackerRows /\ tracker[s].episode <= episodes)
  BY DEF TInv, TypeOK
<1>2. tracker[s] # NoRow => tracker[s].episode \in Nat /\ tracker[s].obs \in Nat
  BY <1>1, Numbers DEF TrackerRows
<1> QED BY <1>1, <1>2 DEF OpenOf, NoEpisode

(* The device of an evaluation goes on with its episode, opens a new one,  *)
(* or ends up with none; the others keep theirs.                           *)
LEMMA EvaluateOpens ==
    ASSUME TInv, NEW p \in Pits, Evaluates(p)
    PROVE  LET s == assigned[p]
               i == read[p].state
           IN  /\ s \in Sources
               /\ \A x \in Sources : x # s => tracker'[x] = tracker[x]
               /\ \A x \in Sources : OpenOf(x)' = IF x = s THEN NewEpisode(p) ELSE OpenOf(x)
               /\ \/ NewEpisode(p) = NoEpisode /\ episodes' = episodes
                  \/ /\ NewEpisode(p) = episodes + 1 /\ episodes' = episodes + 1
                     /\ ~Alerted(p, s, i)
                  \/ /\ NewEpisode(p) = OpenOf(s) /\ episodes' = episodes
                     /\ OpenOf(s) # NoEpisode /\ SameEpisode(p, s, i)
<1> DEFINE s == assigned[p]
           i == read[p].state
<1>1. EvaluationInput(p) /\ s \in Sources
  BY DEF Evaluates, EvaluationInput
<1>2. /\ \A x \in Sources : x # s => tracker'[x] = tracker[x]
      /\ tracker'[s] = NoRow <=> tracker[s] = NoRow /\ NewEpisode(p) = NoEpisode
      /\ tracker'[s] # NoRow => tracker'[s].episode = NewEpisode(p)
      /\ episodes' = IF NewEpisode(p) = episodes + 1 THEN episodes + 1 ELSE episodes
  BY EvaluateTracker
<1>3. /\ Current(p) # "CRITICAL" => NewEpisode(p) = NoEpisode
      /\ Current(p) = "CRITICAL" => IF SameEpisode(p, s, i) THEN NewEpisode(p) = tracker[s].episode
                                    ELSE NewEpisode(p) = episodes + 1
      /\ tracker[s] # NoRow => tracker[s].episode \in Nat /\ tracker[s].episode <= episodes
  BY <1>1, Decisions
<1>4. episodes \in Nat
  BY DEF TInv, TypeOK
<1>5. SameEpisode(p, s, i) => tracker[s] # NoRow /\ tracker[s].episode # NoEpisode
  BY DEF SameEpisode
<1>6. \A x \in Sources : OpenOf(x)' = IF x = s THEN NewEpisode(p) ELSE OpenOf(x)
  BY <1>2 DEF OpenOf
<1>7. Alerted(p, s, i) => SameEpisode(p, s, i)
  BY DEF Alerted
<1>8. CASE Current(p) # "CRITICAL"
  BY <1>1, <1>2, <1>3, <1>4, <1>6, <1>8 DEF NoEpisode
<1>9. CASE Current(p) = "CRITICAL" /\ SameEpisode(p, s, i)
  BY <1>1, <1>2, <1>3, <1>4, <1>5, <1>6, <1>9 DEF NoEpisode, OpenOf
<1>10. CASE Current(p) = "CRITICAL" /\ ~SameEpisode(p, s, i)
  BY <1>1, <1>2, <1>3, <1>4, <1>6, <1>7, <1>10 DEF NoEpisode
<1> QED BY <1>8, <1>9, <1>10

LEMMA ResolutionBegin == Init => RInv
<1> SUFFICES ASSUME Init PROVE RInv
  OBVIOUS
<1>1. transitions = <<>> /\ \A s \in Sources : OpenOf(s) = NoEpisode
  BY DEF Init, OpenOf
<1> QED BY <1>1 DEF RInv, RowsMade, OpenOnce, OnlyNotified, NotedAlerts, ResolutionIsEvidence

(* Dropping an episode leaves less to say.                                 *)
LEMMA ResolutionInvalidates ==
    ASSUME TInv, RInv, NEW p \in Pits, Invalidates(p)
    PROVE  RInv'
<1>1. /\ UNCHANGED <<transitions, episodes>>
      /\ \A x \in Sources : \/ tracker'[x] = tracker[x]
                            \/ tracker'[x] # NoRow /\ tracker'[x].episode = NoEpisode
  BY InvalidateEffect
<1>2. \A x \in Sources : OpenOf(x)' # NoEpisode => tracker'[x] = tracker[x] /\ OpenOf(x)' = OpenOf(x)
  BY <1>1 DEF OpenOf
<1>3. \A k : (Created(k))' <=> Created(k)
  BY <1>1 DEF Created
<1>4. RowsMade' /\ ResolutionIsEvidence'
  BY <1>1 DEF RInv, RowsMade, ResolutionIsEvidence, Created, Resolved, Ends
<1>5. OpenOnce'
  BY <1>2 DEF RInv, OpenOnce
<1>6. OnlyNotified'
  BY <1>1, <1>2, <1>3 DEF RInv, OnlyNotified
<1>7. NotedAlerts'
  BY <1>1, <1>2, <1>3 DEF RInv, NotedAlerts
<1> QED BY <1>4, <1>5, <1>6, <1>7 DEF RInv

(* What an evaluation writes, read with what was written before.           *)
LEMMA EvaluateWrites ==
    ASSUME TInv, NEW p \in Pits, Evaluates(p)
    PROVE  LET old  == Len(transitions)
               last == Len(transitions')
           IN  /\ old \in Nat /\ last \in Nat /\ last >= old
               /\ DOMAIN transitions = 1 .. old /\ DOMAIN transitions' = 1 .. last
               /\ \A k \in 1 .. old : /\ transitions'[k] = transitions[k]
                                      /\ transitions[k] \in TransitionRows
                                      /\ (Created(k))' <=> Created(k)
                                      /\ (Resolved(k))' <=> Resolved(k)
               /\ \A k \in old + 1 .. last :
                     \/ /\ transitions'[k].kind = "FILL_STATE_CHANGED"
                        /\ transitions'[k].episode = NoEpisode
                     \/ k = last /\ Resolves(p) /\ transitions'[k] = ResolvedRow(p)
                     \/ k = last /\ Alerts(p) /\ transitions'[k] = CreatedRow(p)
               /\ Resolves(p) => last > old /\ transitions'[last] = ResolvedRow(p)
               /\ Alerts(p) => last > old /\ transitions'[last] = CreatedRow(p)
<1> DEFINE old  == Len(transitions)
           last == Len(transitions')
<1>1. transitions \in Seq(TransitionRows) /\ transitions' \in Seq(TransitionRows)
  BY EvaluateTransitions DEF TInv, ShapesOK
<1>2. /\ old \in Nat /\ last \in Nat
      /\ DOMAIN transitions = 1 .. old /\ DOMAIN transitions' = 1 .. last
      /\ \A k \in 1 .. old : transitions[k] \in TransitionRows
  BY <1>1
<1>3. last >= old /\ \A k \in 1 .. old : transitions'[k] = transitions[k]
  BY EvaluateTransitions
<1>4. \A k \in 1 .. old : k \in 1 .. last
  BY <1>2, <1>3
<1>5. \A k \in 1 .. old : /\ (Created(k))' <=> Created(k)
                          /\ (Resolved(k))' <=> Resolved(k)
  BY <1>2, <1>3, <1>4 DEF Created, Resolved
<1> QED BY <1>2, <1>3, <1>5, EvaluateTransitions

(* The rows themselves.                                                    *)
LEMMA RowMeanings ==
    ASSUME NEW p \in Pits
    PROVE  LET s == assigned[p]
               i == read[p].state
           IN  /\ ResolvedRow(p).kind = "ALERT_RESOLVED" /\ ResolvedRow(p).pit = p
               /\ ResolvedRow(p).source = s /\ ResolvedRow(p).episode = tracker[s].episode
               /\ ResolvedRow(p).scope = LifecycleScope(p, s, i) /\ ResolvedRow(p).obs = i.obs
               /\ CreatedRow(p).kind = "ALERT_CREATED" /\ CreatedRow(p).pit = p
               /\ CreatedRow(p).source = s /\ CreatedRow(p).episode = NewEpisode(p)
               /\ CreatedRow(p).scope = LifecycleScope(p, s, i) /\ CreatedRow(p).obs = i.obs
BY DEF ResolvedRow, CreatedRow, Transition

(* A resolution is of the notified episode that was open.                  *)
LEMMA ResolvesOpen ==
    ASSUME TInv, NEW p \in Pits, Evaluates(p), Resolves(p)
    PROVE  LET s == assigned[p]
               i == read[p].state
           IN  /\ s \in Sources /\ OpenOf(s) # NoEpisode /\ OpenOf(s) = tracker[s].episode
               /\ tracker[s] # NoRow /\ tracker[s].hasAlert /\ tracker[s].pit = p
               /\ tracker[s].scope = LifecycleScope(p, s, i) /\ tracker[s].obs < i.obs
               /\ NewEpisode(p) = NoEpisode /\ episodes' = episodes /\ ~Alerts(p)
<1> DEFINE s == assigned[p]
           i == read[p].state
<1>1. EvaluationInput(p) /\ s \in Sources
  BY DEF Evaluates, EvaluationInput
<1>2. Current(p) # "CRITICAL" /\ SameEpisode(p, s, i) /\ tracker[s].hasAlert
  BY DEF Resolves, Alerted
<1>3. NewEpisode(p) = NoEpisode
  BY <1>1, <1>2, Decisions
<1>4. episodes' = IF NewEpisode(p) = episodes + 1 THEN episodes + 1 ELSE episodes
  BY EvaluateTracker
<1>5. episodes \in Nat
  BY DEF TInv, TypeOK
<1>6. episodes' = episodes
  BY <1>3, <1>4, <1>5 DEF NoEpisode
<1> QED BY <1>1, <1>2, <1>3, <1>6 DEF SameEpisode, OpenOf, Alerts

(* A notification is of the episode the device has from now on.            *)
LEMMA AlertsOpen ==
    ASSUME TInv, NEW p \in Pits, Evaluates(p), Alerts(p)
    PROVE  NewEpisode(p) # NoEpisode /\ ~Resolves(p)
<1>1. EvaluationInput(p) /\ Current(p) = "CRITICAL"
  BY DEF Evaluates, Alerts
<1>2. episodes \in Nat
  BY DEF TInv, TypeOK
<1>3. IF SameEpisode(p, assigned[p], read[p].state)
        THEN NewEpisode(p) = tracker[assigned[p]].episode
        ELSE NewEpisode(p) = episodes + 1
  BY <1>1, Decisions
<1> QED BY <1>1, <1>2, <1>3 DEF SameEpisode, NoEpisode, Resolves

LEMMA RowsMadeEvaluates ==
    ASSUME TInv, RInv, NEW p \in Pits, Evaluates(p)
    PROVE  RowsMade' /\ OpenOnce'
<1> DEFINE s == assigned[p]
           old == Len(transitions)
           last == Len(transitions')
<1>1. /\ s \in Sources /\ episodes \in Nat /\ episodes' \in Nat /\ episodes' >= episodes
      /\ NewEpisode(p) \in 0 .. episodes'
      /\ \A x \in Sources : OpenOf(x)' = IF x = s THEN NewEpisode(p) ELSE OpenOf(x)
      /\ \A x \in Sources : OpenOf(x) \in 0 .. episodes
      /\ \/ NewEpisode(p) = NoEpisode
         \/ NewEpisode(p) = episodes + 1
         \/ NewEpisode(p) = OpenOf(s)
  <2>1. episodes \in Nat
    BY DEF TInv, TypeOK
  <2>2. \A x \in Sources : OpenOf(x) \in 0 .. episodes
    BY OpenRange
  <2>3. /\ s \in Sources
        /\ \A x \in Sources : OpenOf(x)' = IF x = s THEN NewEpisode(p) ELSE OpenOf(x)
        /\ \/ NewEpisode(p) = NoEpisode /\ episodes' = episodes
           \/ NewEpisode(p) = episodes + 1 /\ episodes' = episodes + 1
           \/ NewEpisode(p) = OpenOf(s) /\ episodes' = episodes
    BY EvaluateOpens
  <2> QED BY <2>1, <2>2, <2>3 DEF NoEpisode
<1>2. /\ old \in Nat /\ last \in Nat /\ DOMAIN transitions = 1 .. old /\ DOMAIN transitions' = 1 .. last
      /\ \A k \in 1 .. old : transitions'[k] = transitions[k]
      /\ \A k \in old + 1 .. last :
            \/ /\ transitions'[k].kind = "FILL_STATE_CHANGED" /\ transitions'[k].episode = NoEpisode
            \/ k = last /\ Resolves(p) /\ transitions'[k] = ResolvedRow(p)
            \/ k = last /\ Alerts(p) /\ transitions'[k] = CreatedRow(p)
  BY EvaluateWrites
<1>3. RowsMade'
  <2> SUFFICES ASSUME NEW k \in 1 .. last
               PROVE  IF transitions'[k].kind = "FILL_STATE_CHANGED"
                        THEN transitions'[k].episode = NoEpisode
                        ELSE transitions'[k].episode \in 1 .. episodes'
    BY <1>2 DEF RowsMade
  <2>1. CASE k \in 1 .. old
    <3>1. IF transitions[k].kind = "FILL_STATE_CHANGED"
            THEN transitions[k].episode = NoEpisode
            ELSE transitions[k].episode \in 1 .. episodes
      BY <2>1, <1>2 DEF RInv, RowsMade
    <3>2. transitions'[k] = transitions[k]
      BY <2>1, <1>2
    <3> QED BY <3>1, <3>2, <1>1
  <2>2. CASE k \notin 1 .. old
    <3>1. CASE transitions'[k].kind = "FILL_STATE_CHANGED" /\ transitions'[k].episode = NoEpisode
      BY <3>1
    <3>2. CASE Resolves(p) /\ transitions'[k] = ResolvedRow(p)
      <4>1. tracker[s].episode \in 1 .. episodes
        BY <3>2, <1>1, ResolvesOpen DEF NoEpisode
      <4> QED BY <3>2, <4>1, <1>1, RowMeanings
    <3>3. CASE Alerts(p) /\ transitions'[k] = CreatedRow(p)
      <4>1. NewEpisode(p) \in 1 .. episodes'
        BY <3>3, <1>1, AlertsOpen DEF NoEpisode
      <4> QED BY <3>3, <4>1, RowMeanings
    <3>4. k \in old + 1 .. last
      <4>1. old \in Nat /\ last \in Nat
        BY <1>2
      <4> HIDE DEF old, last
      <4> QED BY <2>2, <4>1
    <3>5. \/ /\ transitions'[k].kind = "FILL_STATE_CHANGED" /\ transitions'[k].episode = NoEpisode
          \/ Resolves(p) /\ transitions'[k] = ResolvedRow(p)
          \/ Alerts(p) /\ transitions'[k] = CreatedRow(p)
      BY <3>4, <1>2
    <3> QED BY <3>1, <3>2, <3>3, <3>5
  <2> QED BY <2>1, <2>2
<1>4. OpenOnce'
  <2> SUFFICES ASSUME NEW x \in Sources, NEW y \in Sources, OpenOf(x)' = OpenOf(y)',
                      OpenOf(x)' # NoEpisode
               PROVE  x = y
    BY DEF OpenOnce
  <2> QED BY <1>1 DEF RInv, OpenOnce, NoEpisode
<1> QED BY <1>3, <1>4

(* The facts of an evaluation, as the next lemmas use them.                *)
EvaluationFacts(p, s, i, old, last) ==
    /\ s = assigned[p] /\ i = read[p].state /\ s \in Sources
    /\ old \in Nat /\ last \in Nat /\ last >= old
    /\ DOMAIN transitions = 1 .. old /\ DOMAIN transitions' = 1 .. last
    /\ \A k \in 1 .. old : /\ transitions'[k] = transitions[k]
                           /\ (Created(k))' <=> Created(k)
                           /\ (Resolved(k))' <=> Resolved(k)
    /\ \A x \in Sources : x # s => tracker'[x] = tracker[x]
    /\ \A x \in Sources : OpenOf(x)' = IF x = s THEN NewEpisode(p) ELSE OpenOf(x)
    /\ episodes \in Nat /\ \A x \in Sources : OpenOf(x) \in 0 .. episodes
    /\ \/ NewEpisode(p) = NoEpisode
       \/ NewEpisode(p) = episodes + 1 /\ ~Alerted(p, s, i)
       \/ NewEpisode(p) = OpenOf(s) /\ OpenOf(s) # NoEpisode /\ SameEpisode(p, s, i)

LEMMA FactsHold ==
    ASSUME TInv, NEW p \in Pits, Evaluates(p)
    PROVE  EvaluationFacts(p, assigned[p], read[p].state, Len(transitions), Len(transitions'))
<1>1. episodes \in Nat /\ \A x \in Sources : OpenOf(x) \in 0 .. episodes
  BY OpenRange DEF TInv, TypeOK
<1>2. /\ assigned[p] \in Sources
      /\ \A x \in Sources : x # assigned[p] => tracker'[x] = tracker[x]
      /\ \A x \in Sources : OpenOf(x)' = IF x = assigned[p] THEN NewEpisode(p) ELSE OpenOf(x)
      /\ \/ NewEpisode(p) = NoEpisode
         \/ NewEpisode(p) = episodes + 1 /\ ~Alerted(p, assigned[p], read[p].state)
         \/ /\ NewEpisode(p) = OpenOf(assigned[p]) /\ OpenOf(assigned[p]) # NoEpisode
            /\ SameEpisode(p, assigned[p], read[p].state)
  BY EvaluateOpens
<1>3. LET old == Len(transitions)
          last == Len(transitions')
      IN  /\ old \in Nat /\ last \in Nat /\ last >= old
          /\ DOMAIN transitions = 1 .. old /\ DOMAIN transitions' = 1 .. last
          /\ \A k \in 1 .. old : /\ transitions'[k] = transitions[k]
                                 /\ (Created(k))' <=> Created(k)
                                 /\ (Resolved(k))' <=> Resolved(k)
  BY EvaluateWrites
<1> QED BY <1>1, <1>2, <1>3 DEF EvaluationFacts

(* A row an evaluation adds about an episode is about the device's own.    *)
LEMMA NewRow ==
    ASSUME TInv, NEW p \in Pits, Evaluates(p),
           NEW k \in Len(transitions) + 1 .. Len(transitions'),
           transitions'[k].episode # NoEpisode
    PROVE  /\ k = Len(transitions')
           /\ \/ /\ Resolves(p) /\ transitions'[k] = ResolvedRow(p)
                 /\ transitions'[k].episode = OpenOf(assigned[p])
                 /\ ~(Created(k))'
              \/ /\ Alerts(p) /\ transitions'[k] = CreatedRow(p)
                 /\ transitions'[k].episode = NewEpisode(p)
                 /\ (Created(k))' /\ ~(Resolved(k))'
<1>1. /\ Len(transitions) \in Nat /\ Len(transitions') \in Nat /\ DOMAIN transitions' = 1 .. Len(transitions')
      /\ \A j \in Len(transitions) + 1 .. Len(transitions') :
            \/ transitions'[j].episode = NoEpisode
            \/ j = Len(transitions') /\ Resolves(p) /\ transitions'[j] = ResolvedRow(p)
            \/ j = Len(transitions') /\ Alerts(p) /\ transitions'[j] = CreatedRow(p)
  BY EvaluateWrites
<1>2. \/ k = Len(transitions') /\ Resolves(p) /\ transitions'[k] = ResolvedRow(p)
      \/ k = Len(transitions') /\ Alerts(p) /\ transitions'[k] = CreatedRow(p)
  BY <1>1
<1>3. k \in DOMAIN transitions'
  <2>1. /\ Len(transitions) \in Nat /\ Len(transitions') \in Nat
        /\ DOMAIN transitions' = 1 .. Len(transitions')
    BY <1>1
  <2> QED BY <2>1
<1>4. CASE k = Len(transitions') /\ Resolves(p) /\ transitions'[k] = ResolvedRow(p)
  BY <1>4, ResolvesOpen, RowMeanings DEF Created
<1>5. CASE k = Len(transitions') /\ Alerts(p) /\ transitions'[k] = CreatedRow(p)
  BY <1>3, <1>5, RowMeanings DEF Created, Resolved
<1> QED BY <1>2, <1>4, <1>5

LEMMA OnlyNotifiedEvaluates ==
    ASSUME TInv, RInv, NEW p \in Pits, Evaluates(p)
    PROVE  OnlyNotified'
<1> DEFINE s == assigned[p]
           i == read[p].state
           old == Len(transitions)
           last == Len(transitions')
<1>1. EvaluationFacts(p, s, i, old, last)
  BY FactsHold
<1> HIDE DEF old, last
<1> SUFFICES ASSUME NEW x \in Sources, NEW k \in 1 .. last,
                    OpenOf(x)' # NoEpisode, transitions'[k].episode = OpenOf(x)'
             PROVE  /\ (Created(k))'
                    /\ transitions'[k].pit = tracker'[x].pit /\ transitions'[k].source = x
                    /\ transitions'[k].scope = tracker'[x].scope
                    /\ transitions'[k].obs <= tracker'[x].obs
  BY <1>1 DEF OnlyNotified, EvaluationFacts
<1>2. k \in 1 .. old \/ k \in old + 1 .. last
  BY <1>1 DEF EvaluationFacts
<1>3. CASE x # s
  <2>1. OpenOf(x)' = OpenOf(x) /\ tracker'[x] = tracker[x]
    BY <1>1, <1>3 DEF EvaluationFacts
  <2>2. CASE k \in 1 .. old
    <3>1. transitions'[k] = transitions[k]
      BY <2>2, <1>1 DEF EvaluationFacts
    <3>2. k \in DOMAIN transitions
      BY <2>2, <1>1 DEF EvaluationFacts
    <3>3. (Created(k))' <=> Created(k)
      BY <2>2, <1>1 DEF EvaluationFacts
    <3> QED BY <2>1, <3>1, <3>2, <3>3 DEF RInv, OnlyNotified
  <2>3. CASE k \in old + 1 .. last
    <3>1. transitions'[k].episode = OpenOf(s) \/ transitions'[k].episode = NewEpisode(p)
      BY <2>3, NewRow DEF old, last
    <3>2. NewEpisode(p) # OpenOf(x) \/ NewEpisode(p) = OpenOf(s)
      BY <2>1, <1>1 DEF EvaluationFacts, NoEpisode
    <3>3. OpenOf(s) = OpenOf(x) /\ s \in Sources
      BY <2>1, <3>1, <3>2, <1>1 DEF EvaluationFacts
    <3> QED BY <2>1, <3>3, <1>3 DEF RInv, OpenOnce
  <2> QED BY <1>2, <2>2, <2>3
<1>4. CASE x = s
  <2>1. OpenOf(x)' = NewEpisode(p) /\ NewEpisode(p) # NoEpisode
    BY <1>1, <1>4 DEF EvaluationFacts
  <2>2. /\ tracker'[x].pit = p /\ tracker'[x].scope = LifecycleScope(p, s, i)
        /\ tracker'[x].obs = i.obs
    BY <1>4, <2>1, EvaluateTracker
  <2>3. i.obs \in Nat
    BY Decisions, Numbers DEF Evaluates
  <2>4. CASE k \in 1 .. old
    <3>1. transitions'[k] = transitions[k] /\ k \in DOMAIN transitions
      BY <2>4, <1>1 DEF EvaluationFacts
    <3>2. (Created(k))' <=> Created(k)
      BY <2>4, <1>1 DEF EvaluationFacts
    <3>3. NewEpisode(p) # episodes + 1
      <4>1. transitions[k].episode \in 1 .. episodes \/ transitions[k].episode = NoEpisode
        BY <3>1 DEF RInv, RowsMade
      <4> QED BY <4>1, <3>1, <2>1, <1>1 DEF EvaluationFacts
    <3>4. NewEpisode(p) = OpenOf(s) /\ OpenOf(s) # NoEpisode /\ SameEpisode(p, s, i)
      BY <3>3, <2>1, <1>1 DEF EvaluationFacts
    <3>5. /\ Created(k) /\ transitions[k].pit = tracker[x].pit /\ transitions[k].source = x
          /\ transitions[k].scope = tracker[x].scope /\ transitions[k].obs <= tracker[x].obs
      BY <1>4, <2>1, <3>1, <3>4 DEF RInv, OnlyNotified
    <3>6. /\ tracker[s].pit = p /\ tracker[s].scope = LifecycleScope(p, s, i)
          /\ tracker[s].obs < i.obs
      BY <3>4 DEF SameEpisode
    <3>7. tracker[x].obs \in Nat /\ transitions[k].obs \in Nat
      <4>1. tracker[x].obs \in Nat
        BY <1>4, <3>4, OpenRange
      <4>2. transitions[k] \in TransitionRows
        BY <3>1 DEF TInv, ShapesOK
      <4> QED BY <4>1, <4>2, Numbers DEF TransitionRows
    <3> QED BY <1>4, <2>2, <2>3, <3>1, <3>2, <3>5, <3>6, <3>7
  <2>5. CASE k \in old + 1 .. last
    <3>1. ~Resolves(p)
      BY <2>1, ResolvesOpen
    <3>2. transitions'[k] = CreatedRow(p) /\ (Created(k))'
      BY <2>5, <3>1, NewRow DEF old, last
    <3> QED BY <1>4, <2>2, <2>3, <3>2, RowMeanings
  <2> QED BY <1>2, <2>4, <2>5
<1> QED BY <1>3, <1>4

LEMMA NotedAlertsEvaluates ==
    ASSUME TInv, RInv, NEW p \in Pits, Evaluates(p)
    PROVE  NotedAlerts'
<1> DEFINE s == assigned[p]
           i == read[p].state
           old == Len(transitions)
           last == Len(transitions')
<1>1. EvaluationFacts(p, s, i, old, last)
  BY FactsHold
<1>2. Alerts(p) => last > old /\ transitions'[last] = CreatedRow(p)
  BY EvaluateWrites
<1> HIDE DEF old, last
<1> SUFFICES ASSUME NEW x \in Sources, OpenOf(x)' # NoEpisode, tracker'[x].hasAlert
             PROVE  \E k \in 1 .. last : (Created(k))' /\ transitions'[k].episode = OpenOf(x)'
  BY <1>1 DEF NotedAlerts, EvaluationFacts
<1>3. ASSUME OpenOf(x)' = OpenOf(x), tracker[x].hasAlert
      PROVE  \E k \in 1 .. last : (Created(k))' /\ transitions'[k].episode = OpenOf(x)'
  <2>1. PICK k \in DOMAIN transitions : Created(k) /\ transitions[k].episode = OpenOf(x)
    BY <1>3 DEF RInv, NotedAlerts
  <2>2. k \in 1 .. old /\ k \in 1 .. last
    BY <1>1 DEF EvaluationFacts
  <2>3. transitions'[k] = transitions[k]
    BY <2>2, <1>1 DEF EvaluationFacts
  <2>4. (Created(k))' <=> Created(k)
    BY <2>2, <1>1 DEF EvaluationFacts
  <2> QED BY <1>3, <2>1, <2>2, <2>3, <2>4
<1>4. CASE x # s
  BY <1>1, <1>3, <1>4 DEF EvaluationFacts
<1>5. CASE x = s /\ Alerts(p)
  <2>1. PICK k \in old + 1 .. last : k = last /\ k \in 1 .. last
    BY <1>1, <1>2, <1>5 DEF EvaluationFacts
  <2>2. OpenOf(x)' = NewEpisode(p)
    BY <1>1, <1>5 DEF EvaluationFacts
  <2>3. transitions'[k] = CreatedRow(p) /\ CreatedRow(p).episode = NewEpisode(p)
    BY <1>2, <1>5, <2>1, RowMeanings
  <2>4. transitions'[k].episode # NoEpisode
    BY <2>2, <2>3
  <2>5. ~Resolves(p)
    BY <1>5, AlertsOpen
  <2>6. (Created(k))'
    BY <2>1, <2>4, <2>5, NewRow DEF old, last
  <2> QED BY <2>1, <2>2, <2>3, <2>6
<1>6. CASE x = s /\ ~Alerts(p)
  <2>1. OpenOf(x)' = NewEpisode(p) /\ tracker'[x] # NoRow
    BY <1>1, <1>6 DEF EvaluationFacts, OpenOf
  <2>2. Alerted(p, s, i)
    BY <1>6, <2>1, EvaluateTracker
  <2>3. SameEpisode(p, s, i) /\ tracker[s].hasAlert
    BY <2>2 DEF Alerted
  <2>4. NewEpisode(p) = OpenOf(s)
    BY <1>1, <1>6, <2>1, <2>2 DEF EvaluationFacts
  <2> QED BY <1>3, <1>6, <2>1, <2>3, <2>4
<1> QED BY <1>4, <1>5, <1>6

LEMMA EvidenceEvaluates ==
    ASSUME TInv, RInv, NEW p \in Pits, Evaluates(p)
    PROVE  ResolutionIsEvidence'
<1> DEFINE s == assigned[p]
           i == read[p].state
           old == Len(transitions)
           last == Len(transitions')
<1>1. EvaluationFacts(p, s, i, old, last)
  BY FactsHold
<1>2. \A k \in 1 .. old : transitions'[k] = transitions[k] /\ k \in 1 .. last /\ k \in DOMAIN transitions
  BY <1>1 DEF EvaluationFacts
<1>3. \A k \in 1 .. old : /\ (Created(k))' <=> Created(k)
                          /\ (Resolved(k))' <=> Resolved(k)
  BY <1>1 DEF EvaluationFacts
<1> HIDE DEF old, last
<1> SUFFICES ASSUME NEW j \in 1 .. last, (Resolved(j))'
             PROVE  /\ \E k \in 1 .. j - 1 : /\ (Created(k))' /\ (Ends(k, j))'
                                             /\ transitions'[k].obs < transitions'[j].obs
                    /\ \A k \in 1 .. last \ {j} :
                          transitions'[k].episode = transitions'[j].episode => k < j /\ (Created(k))'
  BY <1>1 DEF ResolutionIsEvidence, EvaluationFacts
<1>4. CASE j \in 1 .. old
  <2>1. Resolved(j) /\ transitions'[j] = transitions[j] /\ j \in DOMAIN transitions
    BY <1>2, <1>3, <1>4
  <2>2. PICK k \in 1 .. j - 1 : /\ Created(k) /\ Ends(k, j)
                                /\ transitions[k].obs < transitions[j].obs
    BY <2>1 DEF RInv, ResolutionIsEvidence
  <2>3. k \in 1 .. old /\ transitions'[k] = transitions[k] /\ (Created(k))'
    <3>1. k \in 1 .. old
      BY <1>4, <1>1 DEF EvaluationFacts
    <3> QED BY <3>1, <1>2, <1>3, <2>2
  <2>4. (Ends(k, j))'
    BY <2>1, <2>2, <2>3 DEF Ends
  <2>5. ASSUME NEW l \in 1 .. last \ {j}, transitions'[l].episode = transitions'[j].episode
        PROVE  l < j /\ (Created(l))'
    <3>1. CASE l \in 1 .. old
      <4>1. transitions'[l] = transitions[l] /\ l \in DOMAIN transitions \ {j}
        BY <1>2, <2>5, <3>1
      <4>2. l < j /\ Created(l)
        BY <2>1, <2>5, <4>1 DEF RInv, ResolutionIsEvidence
      <4> QED BY <1>3, <3>1, <4>2
    <3>2. CASE l \notin 1 .. old
      <4>1. l \in old + 1 .. last
        BY <3>2, <1>1 DEF EvaluationFacts
      <4>2. transitions[j].episode \in 1 .. episodes
        BY <2>1 DEF RInv, RowsMade, Resolved
      <4>3. transitions'[l].episode \in 1 .. episodes /\ transitions'[l].episode # NoEpisode
        BY <2>1, <2>5, <4>2 DEF NoEpisode
      <4>4. transitions'[l].episode = OpenOf(s) \/ transitions'[l].episode = NewEpisode(p)
        BY <4>1, <4>3, NewRow DEF old, last
      <4>5. transitions[j].episode = OpenOf(s) /\ OpenOf(s) # NoEpisode
        BY <2>1, <2>5, <4>3, <4>4, <1>1 DEF EvaluationFacts
      <4>6. Created(j)
        BY <2>1, <4>5, <1>1 DEF RInv, OnlyNotified, EvaluationFacts
      <4> QED BY <2>1, <4>6 DEF Created, Resolved
    <3> QED BY <3>1, <3>2
  <2> QED BY <2>1, <2>2, <2>3, <2>4, <2>5
<1>5. CASE j \notin 1 .. old
  <2>1. j \in old + 1 .. last
    BY <1>5, <1>1 DEF EvaluationFacts
  <2>2. transitions'[j].kind = "ALERT_RESOLVED" /\ j \in DOMAIN transitions'
    BY DEF Resolved
  <2>3. \A k \in old + 1 .. last :
           \/ /\ transitions'[k].kind = "FILL_STATE_CHANGED" /\ transitions'[k].episode = NoEpisode
           \/ k = last /\ Resolves(p) /\ transitions'[k] = ResolvedRow(p)
           \/ k = last /\ Alerts(p) /\ transitions'[k] = CreatedRow(p)
    BY EvaluateWrites DEF old, last
  <2>4. j = last /\ Resolves(p) /\ transitions'[j] = ResolvedRow(p)
    BY <2>1, <2>2, <2>3, RowMeanings
  <2>5. /\ OpenOf(s) # NoEpisode /\ OpenOf(s) = tracker[s].episode
        /\ tracker[s] # NoRow /\ tracker[s].hasAlert /\ tracker[s].pit = p
        /\ tracker[s].scope = LifecycleScope(p, s, i) /\ tracker[s].obs < i.obs
        /\ ~Alerts(p)
    BY <2>4, ResolvesOpen
  <2>6. s \in Sources
    BY <1>1 DEF EvaluationFacts
  <2>7. PICK k \in DOMAIN transitions : Created(k) /\ transitions[k].episode = OpenOf(s)
    BY <2>5, <2>6 DEF RInv, NotedAlerts
  <2>8. /\ transitions[k].pit = tracker[s].pit /\ transitions[k].source = s
        /\ transitions[k].scope = tracker[s].scope /\ transitions[k].obs <= tracker[s].obs
    BY <2>5, <2>6, <2>7 DEF RInv, OnlyNotified
  <2>9. k \in 1 .. old /\ k \in 1 .. j - 1
    BY <2>1, <2>7, <1>1 DEF EvaluationFacts
  <2>10. transitions'[k] = transitions[k] /\ (Created(k))'
    BY <1>2, <1>3, <2>7, <2>9
  <2>11. /\ transitions'[j].pit = p /\ transitions'[j].source = s
         /\ transitions'[j].episode = tracker[s].episode
         /\ transitions'[j].scope = LifecycleScope(p, s, i) /\ transitions'[j].obs = i.obs
    BY <2>4, RowMeanings
  <2>12. (Ends(k, j))'
    <3>1. /\ transitions'[j].pit = transitions'[k].pit
          /\ transitions'[j].source = transitions'[k].source
          /\ transitions'[j].episode = transitions'[k].episode
          /\ transitions'[j].scope = transitions'[k].scope
      BY <2>5, <2>7, <2>8, <2>10, <2>11
    <3> QED BY <3>1 DEF Ends
  <2>13. transitions'[k].obs < transitions'[j].obs
    <3>1. tracker[s].obs \in Nat
      BY <2>5, <2>6, OpenRange
    <3>2. transitions[k].obs \in Nat
      <4>1. transitions[k] \in TransitionRows
        BY <2>7 DEF TInv, ShapesOK
      <4> QED BY <4>1, Numbers DEF TransitionRows
    <3>3. i.obs \in Nat
      BY Decisions, Numbers DEF Evaluates
    <3> QED BY <2>5, <2>8, <2>10, <2>11, <3>1, <3>2, <3>3
  <2>14. ASSUME NEW l \in 1 .. last \ {j}, transitions'[l].episode = transitions'[j].episode
         PROVE  l < j /\ (Created(l))'
    <3>1. l < j
      BY <2>4, <1>1 DEF EvaluationFacts
    <3>2. transitions'[l].episode = OpenOf(s)
      BY <2>5, <2>11, <2>14
    <3>3. l \in 1 .. old
      <4>1. CASE l \in old + 1 .. last
        BY <2>3, <2>4, <2>5, <3>2, <4>1
      <4> QED BY <4>1, <1>1 DEF EvaluationFacts
    <3>4. Created(l)
      <4>1. transitions[l].episode = OpenOf(s) /\ l \in DOMAIN transitions
        BY <1>2, <3>2, <3>3
      <4> QED BY <4>1, <2>5, <2>6 DEF RInv, OnlyNotified
    <3> QED BY <1>3, <3>1, <3>3, <3>4
  <2> QED BY <2>9, <2>10, <2>12, <2>13, <2>14
<1> QED BY <1>4, <1>5

LEMMA ResolutionStep == TInv /\ RInv /\ [Next]_vars => RInv'
<1> SUFFICES ASSUME TInv, RInv, [Next]_vars
             PROVE  RInv'
  OBVIOUS
<1>1. CASE UNCHANGED ledger
  BY <1>1 DEF RInv, RowsMade, OpenOnce, OnlyNotified, NotedAlerts, ResolutionIsEvidence,
     OpenOf, Created, Resolved, Ends, ledger
<1>2. ASSUME NEW p \in Pits, Evaluates(p)
      PROVE  RInv'
  BY <1>2, RowsMadeEvaluates, OnlyNotifiedEvaluates, NotedAlertsEvaluates, EvidenceEvaluates DEF RInv
<1> QED BY <1>1, <1>2, LedgerStep, ResolutionInvalidates

LEMMA Resolutions == Spec => []RInv
BY Types, ResolutionBegin, ResolutionStep, PTL DEF Spec

(* "A resolution is durable evidence": it ends an episode that was         *)
(* notified before, under the same scope, on a later observation, and the  *)
(* episode neither is notified nor ends again (alert_lifecycle_service,    *)
(* advance_episode).                                                       *)
THEOREM ResolutionsAreEvidence == Spec => []ResolutionIsEvidence
<1>1. RInv => ResolutionIsEvidence
  BY DEF RInv
<1> QED BY <1>1, Resolutions, PTL

-----------------------------------------------------------------------------
(* Confirmation: the filter keeps up with the device's newest STATE, and   *)
(* its period above the threshold began after the last load below it.      *)

CalmRecent ==
    \A s \in Sources : calm[s] # NoTime => input[s] # NoRow /\ calm[s] <= input[s].obs

FilterFollows ==
    \A s \in Sources : Compact /\ filter[s] # NoFilter =>
       /\ input[s] # NoRow /\ filter[s].n = input[s].n /\ filter[s].obs = input[s].obs
       /\ filter[s].aboveSince # NoTime =>
             calm[s] < filter[s].aboveSince /\ filter[s].aboveSince <= filter[s].obs

FInv == CalmRecent /\ FilterFollows

(* A sample that leaves the window full came after the filter's last one;  *)
(* the period above the threshold goes on or starts with it.               *)
LEMMA AboveSince ==
    ASSUME TInv, NEW s \in Sources, NEW i \in Assessments,
           Filtered(s, i).aboveSince # NoTime
    PROVE  /\ i.fill >= Threshold(s)
           /\ filter[s] # NoFilter /\ filter[s].obs < i.obs
           /\ \/ Filtered(s, i).aboveSince = i.obs
              \/ /\ Filtered(s, i).aboveSince = filter[s].aboveSince
                 /\ filter[s].aboveSince # NoTime
<1> DEFINE old   == filter[s]
           known == old # NoFilter
           valid == /\ i.obs <= now /\ now - i.obs < TTL /\ device[s].ok
                    /\ ~(known /\ i.obs <= old.obs)
           same  == known /\ old.scope = FilterScope(s, i)
           count == IF ~valid THEN 0
                    ELSE IF same /\ i.obs - old.obs <= 1 THEN NextCount(old.count)
                    ELSE 1
           since == IF count < Window \/ i.fill < Threshold(s) THEN NoTime
                    ELSE IF same /\ FilterReady(old) /\ old.aboveSince # NoTime
                      THEN old.aboveSince
                    ELSE i.obs
<1>1. Filtered(s, i).aboveSince = since
  BY DEF Filtered
<1>2. ~(count < Window) /\ ~(i.fill < Threshold(s))
  BY <1>1
<1>3. count # 0 /\ count # 1
  BY <1>2, Numbers
<1>4. valid /\ same
  BY <1>3
<1>5. i.obs \in Nat /\ old.obs \in Nat
  BY <1>4, Numbers DEF TInv, TypeOK, Assessments
<1>6. i.fill \in Nat /\ Threshold(s) \in Nat
  <2>1. i.fill \in Nat
    BY Numbers DEF Assessments
  <2>2. PitOf(s) # {} => (CHOOSE p \in Pits : assigned[p] = s) \in Pits
    BY DEF PitOf
  <2> QED BY <2>1, <2>2, Numbers DEF Threshold, TInv, TypeOK
<1>7. since = i.obs \/ (since = old.aboveSince /\ old.aboveSince # NoTime)
  BY <1>1, <1>2
<1>8. filter[s] # NoFilter /\ filter[s].obs < i.obs
  BY <1>4, <1>5
<1>9. i.fill >= Threshold(s)
  BY <1>2, <1>6
<1> HIDE DEF since
<1> QED BY <1>1, <1>7, <1>8, <1>9

LEMMA FilterReceives ==
    ASSUME TInv, FInv, NEW s \in Sources, Receive(s)
    PROVE  FInv'
<1>1. PICK obs \in Times, fill \in Levels, rev \in Revisions :
        LET n == IF input[s] = NoRow THEN 1 ELSE input[s].n + 1
            i == [n |-> n, obs |-> obs, fill |-> fill, rev |-> rev]
        IN  /\ n <= MaxInputs
            /\ input' = [input EXCEPT ![s] = i]
            /\ filter' = IF Compact THEN [filter EXCEPT ![s] = Filtered(s, i)] ELSE filter
            /\ calm' = [calm EXCEPT ![s] = CalmAfter(s, i)]
  BY DEF Receive
<1> DEFINE n == IF input[s] = NoRow THEN 1 ELSE input[s].n + 1
           i == [n |-> n, obs |-> obs, fill |-> fill, rev |-> rev]
<1>2. n \in 1 .. MaxInputs
  <2>1. input[s] # NoRow => input[s].n \in Nat
    BY DEF TInv, TypeOK, Assessments
  <2> QED BY <2>1, <1>1, Numbers
<1>3. i \in Assessments /\ i.obs = obs /\ i # NoRow
  BY <1>2, Nulls DEF Assessments
<1>4. /\ input' = [input EXCEPT ![s] = i]
      /\ filter' = IF Compact THEN [filter EXCEPT ![s] = Filtered(s, i)] ELSE filter
      /\ calm' = [calm EXCEPT ![s] = CalmAfter(s, i)]
  BY <1>1
<1> HIDE DEF i, n
<1>5. /\ input'[s] = i /\ calm'[s] = CalmAfter(s, i)
      /\ Compact => filter'[s] = Filtered(s, i)
      /\ \A x \in Sources : x # s => /\ input'[x] = input[x] /\ calm'[x] = calm[x]
                                     /\ Compact => filter'[x] = filter[x]
  BY <1>4 DEF TInv, TypeOK, ShapesOK
<1>6. obs \in Nat /\ (input[s] # NoRow => input[s].obs \in Nat) /\ calm[s] \in Int
  <2>1. input[s] # NoRow => input[s] \in Assessments
    BY DEF TInv, TypeOK
  <2>2. calm[s] \in Times \cup {NoTime}
    BY DEF TInv, ShapesOK
  <2>3. calm[s] \in Int
    BY <2>2 DEF Times, NoTime
  <2> QED BY <2>1, <2>3, Numbers DEF Assessments
<1>7. calm[s] # NoTime => input[s] # NoRow /\ calm[s] <= input[s].obs
  BY DEF FInv, CalmRecent
<1>8. CalmRecent'
  <2>1. CalmAfter(s, i) # NoTime => CalmAfter(s, i) <= i.obs
    BY <1>3, <1>6, <1>7 DEF CalmAfter, NoTime
  <2> QED BY <1>3, <1>5, <2>1 DEF FInv, CalmRecent
<1>9. FilterFollows'
  <2> SUFFICES ASSUME NEW x \in Sources, Compact, filter'[x] # NoFilter
               PROVE  /\ input'[x] # NoRow /\ filter'[x].n = input'[x].n
                      /\ filter'[x].obs = input'[x].obs
                      /\ filter'[x].aboveSince # NoTime =>
                            /\ calm'[x] < filter'[x].aboveSince
                            /\ filter'[x].aboveSince <= filter'[x].obs
    BY DEF FilterFollows
  <2>1. CASE x # s
    BY <1>5, <2>1 DEF FInv, FilterFollows
  <2>2. CASE x = s
    <3> DEFINE f == Filtered(s, i)
    <3>1. f.n = i.n /\ f.obs = i.obs
      BY <1>3, FilteredOK
    <3>2. ASSUME f.aboveSince # NoTime
          PROVE  CalmAfter(s, i) < f.aboveSince /\ f.aboveSince <= i.obs
      <4>1. /\ i.fill >= Threshold(s) /\ filter[s] # NoFilter /\ filter[s].obs < i.obs
            /\ \/ f.aboveSince = i.obs
               \/ f.aboveSince = filter[s].aboveSince /\ filter[s].aboveSince # NoTime
        BY <1>3, <3>2, AboveSince
      <4>2. /\ input[s] # NoRow /\ filter[s].obs = input[s].obs
            /\ filter[s].aboveSince # NoTime =>
                  calm[s] < filter[s].aboveSince /\ filter[s].aboveSince <= filter[s].obs
        BY <4>1 DEF FInv, FilterFollows
      <4>3. i.fill \in Nat /\ Threshold(s) \in Nat
        <5>1. i.fill \in Nat
          BY <1>3, Numbers DEF Assessments
        <5>2. PitOf(s) # {} => (CHOOSE p \in Pits : assigned[p] = s) \in Pits
          BY DEF PitOf
        <5> QED BY <5>1, <5>2, Numbers DEF Threshold, TInv, TypeOK
      <4>4. CalmAfter(s, i) = calm[s]
        BY <1>3, <1>6, <4>1, <4>2, <4>3 DEF CalmAfter
      <4>5. filter[s].aboveSince # NoTime => filter[s].aboveSince \in Nat
        BY <4>1, Numbers DEF TInv, TypeOK
      <4>6. calm[s] = NoTime \/ calm[s] <= input[s].obs
        BY <1>7
      <4> QED BY <1>3, <1>6, <4>1, <4>2, <4>4, <4>5, <4>6 DEF NoTime
    <3> HIDE DEF f
    <3>3. filter'[x] = f /\ input'[x] = i /\ calm'[x] = CalmAfter(s, i)
      BY <1>5, <2>2 DEF f
    <3> QED BY <1>3, <3>1, <3>2, <3>3
  <2> QED BY <2>1, <2>2
<1> QED BY <1>8, <1>9 DEF FInv

LEMMA FilterStep == TInv /\ FInv /\ [Next]_vars => FInv'
<1> SUFFICES ASSUME TInv, FInv, [Next]_vars
             PROVE  FInv'
  OBVIOUS
<1>1. ASSUME NEW s \in Sources, ReceiveStatus(s) \/ StatusLost(s)
      PROVE  FInv'
  <2>1. UNCHANGED <<input, calm>> /\ (filter' = filter \/ filter' = [filter EXCEPT ![s] = NoFilter])
    BY <1>1 DEF ReceiveStatus, StatusLost
  <2>2. \A x \in Sources : filter'[x] # NoFilter => filter'[x] = filter[x]
    BY <2>1 DEF TInv, ShapesOK
  <2> QED BY <2>1, <2>2 DEF FInv, CalmRecent, FilterFollows
<1>2. CASE UNCHANGED <<input, filter, calm>>
  BY <1>2 DEF FInv, CalmRecent, FilterFollows
<1> QED BY <1>1, <1>2, FilterReceives DEF Next, WorkerReads, Process, SetPolicy, Redeploy, Tick,
        receiver, vars

LEMMA Filters == Spec => []FInv
<1>1. Init => FInv
  BY DEF Init, FInv, CalmRecent, FilterFollows
<1> QED BY <1>1, Types, FilterStep, PTL DEF Spec

(* Only the pit of the evaluation gets another row.                        *)
LEMMA RowChanges ==
    ASSUME TInv, [Next]_vars, NEW p \in Pits, operation'[p] # operation[p]
    PROVE  /\ Process(p) /\ Evaluates(p)
           /\ operation'[p].source = assigned[p] /\ operation'[p].state = Current(p)
           /\ operation'[p].obs = read[p].state.obs
<1>1. PICK q \in Pits : Process(q) /\ (Invalidates(q) \/ Evaluates(q))
  BY LedgerStep DEF ledger
<1>2. Evaluates(q)
  BY <1>1, InvalidateEffect
<1>3. q = p
  BY <1>2, EvaluateOperation
<1> QED BY <1>1, <1>2, <1>3, EvaluateOperation

LEMMA ConfirmedStep ==
    ASSUME TInv, FInv, [Next]_vars, NEW p \in Pits, Compact, Confirm > 0,
           operation'[p] # operation[p], operation'[p].state = "CRITICAL",
           \/ RowOf(p, operation'[p].source) = NoRow
           \/ RowOf(p, operation'[p].source).state # "CRITICAL"
    PROVE  calm[operation'[p].source] < operation'[p].obs - Confirm
<1> DEFINE s == assigned[p]
           i == read[p].state
<1>1. /\ Evaluates(p) /\ operation'[p].source = s /\ operation'[p].state = Current(p)
      /\ operation'[p].obs = i.obs
  BY RowChanges
<1>2. /\ s \in Sources /\ i \in Assessments /\ read[p] # NoRead
      /\ LoadKnown(s, i, read[p].at)
  BY <1>1 DEF Evaluates, EvaluationInput
<1>3. ConfirmedAbove(p, s, i)
  BY <1>1 DEF Current, Judgement
<1>4. FilterReady(filter[s]) /\ filter[s].n = i.n
  BY <1>2 DEF LoadKnown
<1>5. /\ input[s] # NoRow /\ filter[s].n = input[s].n /\ filter[s].obs = input[s].obs
      /\ filter[s].aboveSince # NoTime => calm[s] < filter[s].aboveSince
  BY <1>2, <1>4 DEF FInv, FilterFollows, FilterReady
<1>6. i = input[s]
  <2>1. i.n = input[s].n
    BY <1>4, <1>5
  <2>2. i # NoRow
    BY <1>2, Nulls
  <2> QED BY <1>2, <2>1, <2>2 DEF TInv, ReadsOK
<1>7. i.obs \in Nat /\ calm[s] \in Int
  <2>1. i.obs \in Times /\ calm[s] \in Times \cup {NoTime}
    BY <1>2 DEF Assessments, TInv, ShapesOK
  <2> QED BY <2>1 DEF Times, NoTime
<1>8. filter[s].aboveSince # NoTime => filter[s].aboveSince \in Nat
  BY <1>2, <1>4, Numbers DEF TInv, TypeOK, FilterReady
<1>9. filter[s].aboveSince # NoTime /\ i.obs - filter[s].aboveSince >= Confirm
  <2> DEFINE f == filter[s]
             ours == f.n = i.n /\ f.threshold = policy[p].critical /\ f.aboveSince # NoTime
  <2>1. i.obs - (IF ours THEN f.aboveSince ELSE i.obs) >= Confirm
    BY <1>3 DEF ConfirmedAbove
  <2>2. CASE ours
    BY <2>1, <2>2
  <2>3. CASE ~ours
    <3> HIDE DEF ours
    <3> QED BY <2>1, <2>3, <1>7, Numbers
  <2> QED BY <2>2, <2>3
<1> QED BY <1>1, <1>5, <1>7, <1>8, <1>9, Numbers

(* A load counts as critical only after every sample of the confirmation   *)
(* time was at the threshold, whatever the worker saw of them: the filter  *)
(* the receiver keeps (project_input) carries the proof, and the worker    *)
(* uses it only for the very STATE it has read.                            *)
THEOREM CriticalIsConfirmed == Spec => ConfirmedBeforeCritical
<1>1. TInv /\ FInv /\ [Next]_vars
        => [\A p \in Pits :
              /\ Compact /\ Confirm > 0
              /\ operation'[p] # operation[p] /\ operation'[p].state = "CRITICAL"
              /\ RowOf(p, operation'[p].source) = NoRow
                    \/ RowOf(p, operation'[p].source).state # "CRITICAL"
              => LET o == operation'[p] IN calm[o.source] < o.obs - Confirm]_vars
  BY ConfirmedStep
<1> QED BY <1>1, Types, Filters, PTL DEF Spec, ConfirmedBeforeCritical

LEMMA DangerStep ==
    ASSUME TInv, [Next]_vars, NEW p \in Pits,
           operation[p] # NoRow, operation[p].state = "CRITICAL",
           operation'[p] # operation[p], operation'[p].state # "CRITICAL"
    PROVE  operation'[p].source # operation[p].source \/ read[p].state.fill <= Recovery(p)
<1> DEFINE s == assigned[p]
           i == read[p].state
<1>1. Evaluates(p) /\ operation'[p].source = s /\ operation'[p].state = Current(p)
  BY RowChanges
<1>2. CASE operation[p].source = s
  <2>1. RowOf(p, s) = operation[p]
    BY <1>2 DEF RowOf
  <2>2. ~StillCritical(p, i)
    BY <1>1, <2>1 DEF Current, Judgement
  <2>3. i.fill \in Nat /\ Recovery(p) \in Int
    <3>1. i.fill \in Nat
      BY <1>1, Numbers DEF Evaluates, EvaluationInput, Assessments
    <3>2. policy[p].critical \in Nat
      BY DEF TInv, TypeOK
    <3> QED BY <3>1, <3>2, Numbers DEF Recovery
  <2> QED BY <2>2, <2>3 DEF StillCritical
<1>3. CASE operation[p].source # s
  BY <1>1, <1>3
<1> QED BY <1>2, <1>3

(* With one device a danger state ends only on a load at or below the      *)
(* recovery level (hysteresis of evaluate_fill_state).                     *)
THEOREM DangerIsKept == Spec => DangerKeptByDevice
<1>1. TInv /\ [Next]_vars
        => [\A p \in Pits :
              /\ operation[p] # NoRow /\ operation[p].state = "CRITICAL"
              /\ operation'[p] # operation[p] /\ operation'[p].state # "CRITICAL"
              => operation'[p].source # operation[p].source
                    \/ read[p].state.fill <= Recovery(p)]_vars
  BY DangerStep
<1> QED BY <1>1, Types, PTL DEF Spec, DangerKeptByDevice

-----------------------------------------------------------------------------
(* The refinement of AlertEpisode.  The abstract variables, by name.       *)

OpenEpisodes     == [s \in Sources |-> OpenOf(s)]
NotifiedEpisodes == {transitions[k].episode : k \in {j \in DOMAIN transitions : Created(j)}}
ResolvedEpisodes == {transitions[k].episode : k \in {j \in DOMAIN transitions : Resolved(j)}}

(* What an evaluation adds to the episodes that were notified or resolved. *)
LEMMA EvaluateEpisodes ==
    ASSUME TInv, NEW p \in Pits, Evaluates(p)
    PROVE  /\ NotifiedEpisodes' = IF Alerts(p) THEN NotifiedEpisodes \cup {NewEpisode(p)}
                                  ELSE NotifiedEpisodes
           /\ ResolvedEpisodes' = IF Resolves(p) THEN ResolvedEpisodes \cup {OpenOf(assigned[p])}
                                  ELSE ResolvedEpisodes
<1> DEFINE old == Len(transitions)
           last == Len(transitions')
<1>1. /\ old \in Nat /\ last \in Nat /\ last >= old
      /\ DOMAIN transitions = 1 .. old /\ DOMAIN transitions' = 1 .. last
      /\ \A k \in 1 .. old : transitions'[k] = transitions[k]
      /\ \A k \in old + 1 .. last :
            \/ transitions'[k].kind = "FILL_STATE_CHANGED"
            \/ k = last /\ Resolves(p) /\ transitions'[k] = ResolvedRow(p)
            \/ k = last /\ Alerts(p) /\ transitions'[k] = CreatedRow(p)
      /\ Resolves(p) => last > old /\ transitions'[last] = ResolvedRow(p)
      /\ Alerts(p) => last > old /\ transitions'[last] = CreatedRow(p)
  BY EvaluateWrites
<1>2. /\ ResolvedRow(p).kind = "ALERT_RESOLVED"
      /\ CreatedRow(p).kind = "ALERT_CREATED" /\ CreatedRow(p).episode = NewEpisode(p)
      /\ Resolves(p) => ResolvedRow(p).episode = OpenOf(assigned[p])
  BY RowMeanings, ResolvesOpen
<1> HIDE DEF old, last
<1>3. \A e : e \in NotifiedEpisodes <=>
         \E k \in 1 .. old : transitions[k].kind = "ALERT_CREATED" /\ transitions[k].episode = e
  BY <1>1 DEF NotifiedEpisodes, Created
<1>4. \A e : e \in NotifiedEpisodes' <=>
         \E k \in 1 .. last : transitions'[k].kind = "ALERT_CREATED" /\ transitions'[k].episode = e
  BY <1>1 DEF NotifiedEpisodes, Created
<1>5. \A e : e \in ResolvedEpisodes <=>
         \E k \in 1 .. old : transitions[k].kind = "ALERT_RESOLVED" /\ transitions[k].episode = e
  BY <1>1 DEF ResolvedEpisodes, Resolved
<1>6. \A e : e \in ResolvedEpisodes' <=>
         \E k \in 1 .. last : transitions'[k].kind = "ALERT_RESOLVED" /\ transitions'[k].episode = e
  BY <1>1 DEF ResolvedEpisodes, Resolved
<1>7. \A k \in 1 .. last : k \in 1 .. old \/ k \in old + 1 .. last
  BY <1>1
<1>8. \A k \in 1 .. old : k \in 1 .. last
  BY <1>1
<1>9. Resolves(p) \/ Alerts(p) => last \in 1 .. last
  BY <1>1
<1>10. \A e : e \in NotifiedEpisodes' <=>
          e \in NotifiedEpisodes \/ (Alerts(p) /\ e = NewEpisode(p))
  <2> SUFFICES ASSUME NEW e
               PROVE  e \in NotifiedEpisodes' <=>
                         e \in NotifiedEpisodes \/ (Alerts(p) /\ e = NewEpisode(p))
    OBVIOUS
  <2>1. ASSUME e \in NotifiedEpisodes'
        PROVE  e \in NotifiedEpisodes \/ (Alerts(p) /\ e = NewEpisode(p))
    <3>1. PICK k \in 1 .. last : transitions'[k].kind = "ALERT_CREATED" /\ transitions'[k].episode = e
      BY <1>4, <2>1
    <3>2. CASE k \in 1 .. old
      BY <1>1, <1>3, <3>1, <3>2
    <3>3. CASE k \in old + 1 .. last
      BY <1>1, <1>2, <3>1, <3>3
    <3> QED BY <1>7, <3>2, <3>3
  <2>2. ASSUME e \in NotifiedEpisodes
        PROVE  e \in NotifiedEpisodes'
    <3>1. PICK k \in 1 .. old : transitions[k].kind = "ALERT_CREATED" /\ transitions[k].episode = e
      BY <1>3, <2>2
    <3>2. k \in 1 .. last /\ transitions'[k] = transitions[k]
      BY <1>1, <1>8
    <3> QED BY <1>4, <3>1, <3>2
  <2>3. ASSUME Alerts(p), e = NewEpisode(p)
        PROVE  e \in NotifiedEpisodes'
    BY <1>1, <1>2, <1>4, <1>9, <2>3
  <2> QED BY <2>1, <2>2, <2>3
<1>11. \A e : e \in ResolvedEpisodes' <=>
          e \in ResolvedEpisodes \/ (Resolves(p) /\ e = OpenOf(assigned[p]))
  <2> SUFFICES ASSUME NEW e
               PROVE  e \in ResolvedEpisodes' <=>
                         e \in ResolvedEpisodes \/ (Resolves(p) /\ e = OpenOf(assigned[p]))
    OBVIOUS
  <2>1. ASSUME e \in ResolvedEpisodes'
        PROVE  e \in ResolvedEpisodes \/ (Resolves(p) /\ e = OpenOf(assigned[p]))
    <3>1. PICK k \in 1 .. last : transitions'[k].kind = "ALERT_RESOLVED" /\ transitions'[k].episode = e
      BY <1>6, <2>1
    <3>2. CASE k \in 1 .. old
      BY <1>1, <1>5, <3>1, <3>2
    <3>3. CASE k \in old + 1 .. last
      BY <1>1, <1>2, <3>1, <3>3
    <3> QED BY <1>7, <3>2, <3>3
  <2>2. ASSUME e \in ResolvedEpisodes
        PROVE  e \in ResolvedEpisodes'
    <3>1. PICK k \in 1 .. old : transitions[k].kind = "ALERT_RESOLVED" /\ transitions[k].episode = e
      BY <1>5, <2>2
    <3>2. k \in 1 .. last /\ transitions'[k] = transitions[k]
      BY <1>1, <1>8
    <3> QED BY <1>6, <3>1, <3>2
  <2>3. ASSUME Resolves(p), e = OpenOf(assigned[p])
        PROVE  e \in ResolvedEpisodes'
    BY <1>1, <1>2, <1>6, <1>9, <2>3
  <2> QED BY <2>1, <2>2, <2>3
<1>12. NotifiedEpisodes' = IF Alerts(p) THEN NotifiedEpisodes \cup {NewEpisode(p)}
                           ELSE NotifiedEpisodes
  BY <1>10
<1>13. ResolvedEpisodes' = IF Resolves(p) THEN ResolvedEpisodes \cup {OpenOf(assigned[p])}
                           ELSE ResolvedEpisodes
  BY <1>11
<1> QED BY <1>12, <1>13

(* The abstract module, in these names.                                    *)
LEMMA AbstractActions ==
    /\ Episodes!Init <=> /\ episodes = 0 /\ OpenEpisodes = [s \in Sources |-> 0]
                         /\ NotifiedEpisodes = {} /\ ResolvedEpisodes = {}
    /\ Episodes!vars = <<episodes, OpenEpisodes, NotifiedEpisodes, ResolvedEpisodes>>
BY DEF Episodes!Init, Episodes!vars, OpenEpisodes, OpenOf, NotifiedEpisodes, ResolvedEpisodes

LEMMA AbstractSteps ==
    ASSUME NEW s \in Sources
    PROVE  /\ (/\ episodes' = episodes + 1
               /\ OpenEpisodes' = [OpenEpisodes EXCEPT ![s] = episodes + 1]
               /\ NotifiedEpisodes' \in {NotifiedEpisodes, NotifiedEpisodes \cup {episodes + 1}}
               /\ ResolvedEpisodes' = ResolvedEpisodes)
              => Episodes!Next
           /\ (/\ OpenEpisodes[s] # 0
               /\ NotifiedEpisodes' = NotifiedEpisodes \cup {OpenEpisodes[s]}
               /\ UNCHANGED <<episodes, OpenEpisodes, ResolvedEpisodes>>)
              => Episodes!Next
           /\ (/\ OpenEpisodes[s] \in NotifiedEpisodes
               /\ ResolvedEpisodes' = ResolvedEpisodes \cup {OpenEpisodes[s]}
               /\ OpenEpisodes' = [OpenEpisodes EXCEPT ![s] = 0]
               /\ UNCHANGED <<episodes, NotifiedEpisodes>>)
              => Episodes!Next
           /\ (/\ OpenEpisodes' = [OpenEpisodes EXCEPT ![s] = 0]
               /\ UNCHANGED <<episodes, NotifiedEpisodes, ResolvedEpisodes>>)
              => Episodes!Next
<1>1. Episodes!Open(s) \/ Episodes!Notify(s) \/ Episodes!Resolve(s) \/ Episodes!Drop(s)
        => Episodes!Next
  BY DEF Episodes!Next
<1> QED BY <1>1 DEF Episodes!Open, Episodes!Notify, Episodes!Resolve, Episodes!Drop,
        OpenEpisodes, OpenOf, NotifiedEpisodes, ResolvedEpisodes

LEMMA InvalidatesMaps ==
    ASSUME TInv, NEW p \in Pits, Invalidates(p)
    PROVE  [Episodes!Next]_Episodes!vars
<1> DEFINE s == assigned[p]
<1>1. /\ UNCHANGED <<transitions, episodes>> /\ s \in Sources
      /\ tracker' = IF tracker[s] # NoRow /\ tracker[s].pit = p
                      THEN [tracker EXCEPT ![s].episode = NoEpisode, ![s].valid = FALSE]
                      ELSE tracker
  BY DEF Invalidates, Invalidate
<1>2. UNCHANGED <<NotifiedEpisodes, ResolvedEpisodes>>
  BY <1>1 DEF NotifiedEpisodes, ResolvedEpisodes, Created, Resolved
<1>3. \A x \in Sources : x # s => tracker'[x] = tracker[x]
  BY <1>1 DEF TInv, TypeOK
<1>4. \/ tracker'[s] = tracker[s]
      \/ tracker'[s] # NoRow /\ tracker'[s].episode = NoEpisode
  BY <1>1, InvalidateEffect
<1>5. CASE tracker'[s] = tracker[s]
  <2>1. \A x \in Sources : tracker'[x] = tracker[x]
    BY <1>3, <1>5
  <2>2. OpenEpisodes' = OpenEpisodes
    BY <2>1 DEF OpenEpisodes, OpenOf
  <2> QED BY <1>1, <1>2, <2>2, AbstractActions DEF OpenEpisodes, OpenOf, NotifiedEpisodes,
          ResolvedEpisodes, Episodes!vars
<1>6. CASE tracker'[s] # NoRow /\ tracker'[s].episode = NoEpisode
  <2>1. OpenEpisodes' = [OpenEpisodes EXCEPT ![s] = 0]
    <3>1. \A x \in Sources : OpenOf(x)' = IF x = s THEN 0 ELSE OpenOf(x)
      BY <1>3, <1>6 DEF OpenOf, NoEpisode
    <3> QED BY <3>1 DEF OpenEpisodes
  <2> QED BY <1>1, <1>2, <2>1, AbstractSteps
<1> QED BY <1>4, <1>5, <1>6

LEMMA EvaluatesMaps ==
    ASSUME TInv, RInv, NEW p \in Pits, Evaluates(p)
    PROVE  [Episodes!Next]_Episodes!vars
<1> DEFINE s == assigned[p]
           i == read[p].state
<1>1. /\ s \in Sources
      /\ \A x \in Sources : OpenOf(x)' = IF x = s THEN NewEpisode(p) ELSE OpenOf(x)
      /\ \/ NewEpisode(p) = NoEpisode /\ episodes' = episodes
         \/ /\ NewEpisode(p) = episodes + 1 /\ episodes' = episodes + 1
            /\ ~Alerted(p, s, i)
         \/ /\ NewEpisode(p) = OpenOf(s) /\ episodes' = episodes
            /\ OpenOf(s) # NoEpisode /\ SameEpisode(p, s, i)
  BY EvaluateOpens
<1>2. OpenEpisodes' = [OpenEpisodes EXCEPT ![s] = NewEpisode(p)] /\ OpenEpisodes[s] = OpenOf(s)
  BY <1>1 DEF OpenEpisodes
<1>3. /\ NotifiedEpisodes' = IF Alerts(p) THEN NotifiedEpisodes \cup {NewEpisode(p)}
                             ELSE NotifiedEpisodes
      /\ ResolvedEpisodes' = IF Resolves(p) THEN ResolvedEpisodes \cup {OpenOf(s)}
                             ELSE ResolvedEpisodes
  BY EvaluateEpisodes
<1>4. Alerts(p) => NewEpisode(p) # NoEpisode
  BY AlertsOpen
<1>5. Resolves(p) => NewEpisode(p) = NoEpisode /\ OpenOf(s) \in NotifiedEpisodes
  <2> SUFFICES ASSUME Resolves(p)
               PROVE  NewEpisode(p) = NoEpisode /\ OpenOf(s) \in NotifiedEpisodes
    OBVIOUS
  <2>1. NewEpisode(p) = NoEpisode /\ OpenOf(s) # NoEpisode /\ tracker[s].hasAlert
    BY ResolvesOpen
  <2>2. PICK k \in DOMAIN transitions : Created(k) /\ transitions[k].episode = OpenOf(s)
    BY <1>1, <2>1 DEF RInv, NotedAlerts
  <2> QED BY <2>1, <2>2 DEF NotifiedEpisodes
<1>6. CASE NewEpisode(p) = NoEpisode /\ episodes' = episodes
  <2>1. OpenEpisodes' = [OpenEpisodes EXCEPT ![s] = 0] /\ NotifiedEpisodes' = NotifiedEpisodes
    BY <1>2, <1>3, <1>4, <1>6 DEF NoEpisode
  <2>2. CASE Resolves(p)
    BY <1>1, <1>2, <1>3, <1>5, <1>6, <2>1, <2>2, AbstractSteps
  <2>3. CASE ~Resolves(p)
    BY <1>1, <1>3, <1>6, <2>1, <2>3, AbstractSteps
  <2> QED BY <2>2, <2>3
<1>7. CASE NewEpisode(p) = episodes + 1 /\ episodes' = episodes + 1
  <2>1. ResolvedEpisodes' = ResolvedEpisodes
    <3>1. episodes \in Nat
      BY DEF TInv, TypeOK
    <3> QED BY <1>3, <1>5, <1>7, <3>1 DEF NoEpisode
  <2>2. NotifiedEpisodes' \in {NotifiedEpisodes, NotifiedEpisodes \cup {episodes + 1}}
    BY <1>3, <1>7
  <2> QED BY <1>1, <1>2, <1>7, <2>1, <2>2, AbstractSteps
<1>8. CASE NewEpisode(p) = OpenOf(s) /\ episodes' = episodes /\ OpenOf(s) # NoEpisode
  <2>1. ResolvedEpisodes' = ResolvedEpisodes
    BY <1>3, <1>5, <1>8
  <2>2. OpenEpisodes' = OpenEpisodes
    BY <1>1, <1>8 DEF OpenEpisodes
  <2>3. CASE Alerts(p)
    BY <1>1, <1>2, <1>3, <1>8, <2>1, <2>2, <2>3, AbstractSteps DEF NoEpisode
  <2>4. CASE ~Alerts(p)
    <3>1. NotifiedEpisodes' = NotifiedEpisodes
      BY <1>3, <2>4
    <3> QED BY <1>8, <2>1, <2>2, <3>1 DEF OpenEpisodes, OpenOf, NotifiedEpisodes,
            ResolvedEpisodes, Episodes!vars
  <2> QED BY <2>3, <2>4
<1> QED BY <1>1, <1>6, <1>7, <1>8

LEMMA EpisodesStep == TInv /\ RInv /\ [Next]_vars => [Episodes!Next]_Episodes!vars
<1> SUFFICES ASSUME TInv, RInv, [Next]_vars
             PROVE  [Episodes!Next]_Episodes!vars
  OBVIOUS
<1>1. CASE UNCHANGED ledger
  BY <1>1 DEF ledger, Episodes!vars, Created, Resolved
<1> QED BY <1>1, LedgerStep, InvalidatesMaps, EvaluatesMaps

(* Whatever thresholds, clocks and filters do, the worker's tables live    *)
(* the life of AlertEpisode: an episode is opened once, notified while it  *)
(* is open, and ends resolved or dropped, once.                            *)
THEOREM EpisodesAreImplemented == Spec => EpisodesImplemented
<1>1. Init => Episodes!Init
  <2> SUFFICES ASSUME Init PROVE Episodes!Init
    OBVIOUS
  <2>1. /\ episodes = 0 /\ transitions = <<>> /\ DOMAIN transitions = {}
        /\ tracker = [s \in Sources |-> NoRow]
    BY DEF Init
  <2>2. /\ OpenEpisodes = [s \in Sources |-> 0]
        /\ NotifiedEpisodes = {} /\ ResolvedEpisodes = {}
    BY <2>1 DEF OpenEpisodes, OpenOf, NoEpisode, NotifiedEpisodes, ResolvedEpisodes
  <2> QED BY <2>1, <2>2, AbstractActions
<1> QED BY <1>1, Types, Resolutions, EpisodesStep, PTL DEF Spec, EpisodesImplemented, Episodes!Spec
=============================================================================

------------------------------ MODULE ActiveHealth ------------------------------
(***************************************************************************)
(* The conditions of a pit that are alarms now, and since when: the rules  *)
(* that derive them from a monitoring snapshot (health_conditions and      *)
(* _fill_alerts), the start times the evaluation worker keeps in one row   *)
(* per device (record_starts), and the reading of both (apply_starts).     *)
(*                                                                         *)
(* One device with one configured sensor.  Times are ages in seconds, each *)
(* capped where the code stops telling values apart; a negative age is a   *)
(* device clock that runs ahead.  A start time is kept as how long the     *)
(* condition had lasted at the evaluation that wrote it.                   *)
(***************************************************************************)
EXTENDS Integers, FiniteSets

CONSTANTS
    Pits,          \* the pits the device may be configured for
    Reports,       \* the statuses it may send: [overall, preparing, sensor, recovering,
                   \* scanLag, ahead, scope], where scope is the configuration revision
                   \* and the instance
    Readings,      \* the measurements: [scope, warming]
    NoReport, NoReading, NoRating, NoStarts, NoView,   \* null values
    StatusTTL,     \* seconds after which a device counts as silent (30)
    Skew,          \* how far ahead a device clock may run (5)
    AssessmentTTL, \* EDGE_V2_ASSESSMENT_TTL_SECONDS
    Recent,        \* MAX_PENDING_EVALUATION_SECONDS
    MaxReceipts,   \* statuses received
    MaxLasted,     \* durations are counted up to here
    MaxReading     \* seconds a request may take

ASSUME HealthAssumption ==
    /\ StatusTTL \in Nat /\ AssessmentTTL \in Nat /\ Skew \in Nat
    /\ MaxLasted \in Nat /\ MaxReading \in Nat
    /\ \A r \in Reports : r.scanLag \in Int /\ r.ahead \in Int

VARIABLES
    placed,    \* the pit the process is configured for
    report,    \* the latest status, [what, age], or NoReport
    beat,      \* statuses received: tells one last_received_at from another
    heard,     \* age of the last receipt
    reading,   \* the latest measurement, [what, age], or NoReading
    rating,    \* its row in the operations table: [state, scope, current, age]
    preAlert,  \* pre_alert_enabled
    starts,    \* the tracker row: [placed, age, entries], or NoStarts
    view,      \* a request that has built its snapshot and not read the row
    steady     \* history: for how long what was seen of a component has not changed

healthVars == <<placed, report, beat, heard, reading, rating, preAlert, starts, view, steady>>
device == <<placed, report, beat, heard, reading, preAlert>>

StartLimit == IF AssessmentTTL < StatusTTL THEN AssessmentTTL ELSE StatusTTL
Older(a, limit) == IF a >= limit THEN limit ELSE a + 1
Longer(n, m) == IF n + m > MaxLasted THEN MaxLasted ELSE n + m

-----------------------------------------------------------------------------
(* What a snapshot of the present shows.                                   *)

Reporting == beat > 0 /\ heard < StatusTTL

DataState ==
    IF reading = NoReading THEN "NO_DATA"
    ELSE IF reading.age < 0 THEN "UNKNOWN"
    ELSE IF reading.age >= AssessmentTTL THEN "STALE"
    ELSE IF ~Reporting THEN "UNKNOWN"
    ELSE IF report.what.overall \in {"MEASUREMENT_UNAVAILABLE", "CONFIG_ERROR"} THEN "UNAVAILABLE"
    ELSE IF report.what.scope # reading.what.scope \/ reading.what.warming THEN "UNKNOWN"
    ELSE "FRESH"

Warming == reading # NoReading /\ reading.what.warming
              /\ 0 <= reading.age /\ reading.age < AssessmentTTL /\ Reporting
              /\ report.what.scope = reading.what.scope

(* A measurement the worker has not reached yet keeps a judgment that is    *)
(* seconds old and of the same configuration.                              *)
RatingHolds ==
    /\ rating # NoRating
    /\ \/ rating.current
       \/ reading # NoReading /\ rating.scope = reading.what.scope
             /\ rating.age < Recent /\ rating.age < AssessmentTTL

EffectiveState ==
    IF DataState = "UNAVAILABLE" THEN "ERROR"
    ELSE IF DataState = "FRESH" /\ RatingHolds THEN rating.state
    ELSE "UNKNOWN"

Snapshot ==
    [placed |-> placed, reporting |-> Reporting, report |-> report, beat |-> beat,
     data |-> DataState, warming |-> Warming, fill |-> EffectiveState,
     lifecycle |-> <<IF reading = NoReading THEN NoReading ELSE reading.what.scope,
                     IF report = NoReport THEN NoReport ELSE report.what.scope>>]

-----------------------------------------------------------------------------
(* The conditions of a snapshot: component, state, and the scope in which  *)
(* two of them are the same condition (signature).                         *)

FreshStatus(s) == /\ s.reporting /\ s.report # NoReport
                  /\ -Skew <= s.report.age /\ s.report.age < StatusTTL

(* Wrong on purpose: an outage is the same outage after another heartbeat. *)
SignatureOfDevice(s, component, state) ==
    [component |-> component, state |-> state, placed |-> s.placed,
     scope |-> IF component \in {"FILL", "MEASUREMENT"} THEN s.lifecycle
               ELSE <<IF s.report = NoReport THEN NoReport ELSE s.report.what.scope>>]

Signature(s, component, state) ==
    [component |-> component, state |-> state, placed |-> s.placed,
     scope |-> IF component \in {"FILL", "MEASUREMENT"} THEN s.lifecycle
               ELSE <<IF s.report = NoReport THEN NoReport ELSE s.report.what.scope,
                      IF state = "STATUS_UNKNOWN" THEN s.beat ELSE 0>>]

EdgeAlarm(s) ==
    /\ s.report.what.overall # "HEALTHY"
    /\ ~(s.report.what.preparing /\ s.report.what.overall = "DEGRADED")

(* Wrong on purpose: a sensor is as fresh as its last report said. *)
SensorStateReported(s) == s.report.what.sensor

SensorState(s) ==
    LET r == s.report.what
        scan == s.report.age + r.scanLag
    IN  IF r.sensor # "FRESH" THEN r.sensor
        ELSE IF scan < 0 THEN "UNKNOWN"
        ELSE IF scan >= AssessmentTTL THEN "STALE"
        ELSE "FRESH"

SensorPreparing(s) == SensorState(s) = "RECOVERING" \/ s.report.what.recovering

Where(c, condition) == IF c THEN {condition} ELSE {}

HealthConditions(s) ==
    IF ~FreshStatus(s) THEN {Signature(s, "EDGE", "STATUS_UNKNOWN")}
    ELSE Where(EdgeAlarm(s), Signature(s, "EDGE", s.report.what.overall))
         \cup Where(SensorState(s) # "FRESH" /\ ~SensorPreparing(s),
                    Signature(s, "LIDAR", SensorState(s)))
         \cup Where(s.data # "FRESH" /\ ~s.warming, Signature(s, "MEASUREMENT", s.data))

(* What the answer says was checked; anything else is of unknown health.   *)
Checked(s) ==
    IF ~FreshStatus(s) THEN {}
    ELSE {"EDGE"}
         \cup Where(SensorState(s) \in {"FRESH", "STALE", "UNAVAILABLE"} /\ ~SensorPreparing(s), "LIDAR")
         \cup Where(s.data \in {"FRESH", "STALE", "UNAVAILABLE"} /\ ~s.warming, "MEASUREMENT")

FillConditions(s, state, enabled) ==
    Where(state = "CRITICAL" \/ (state = "WARNING" /\ enabled), Signature(s, "FILL", state))

-----------------------------------------------------------------------------
(* History: an outage of the status is told apart from the device's faults. *)
Kinds == {"SILENT", "EDGE", "LIDAR", "MEASUREMENT", "FILL"}
Kind(c) == IF c.state = "STATUS_UNKNOWN" THEN "SILENT" ELSE c.component
Unknown == -1

-----------------------------------------------------------------------------
(* The worker's evaluation: a judgment, if the measurement is new and      *)
(* usable, and the row of start times (record_starts).                     *)

(* Wrong on purpose: a row that lay untouched is continued. *)
ContinuousAlways == starts # NoStarts /\ starts.placed = placed

Continuous == starts # NoStarts /\ starts.placed = placed /\ starts.age < StartLimit

(* Wrong on purpose: whatever the component's condition was, it goes on. *)
LastedOfComponent(c) ==
    IF Continuous /\ \E e \in starts.entries : e.what.component = c.component
      THEN Longer((CHOOSE e \in starts.entries : e.what.component = c.component).lasted, starts.age)
      ELSE 0

Lasted(c) ==
    IF Continuous /\ \E e \in starts.entries : e.what = c
      THEN Longer((CHOOSE e \in starts.entries : e.what = c).lasted, starts.age)
      ELSE 0

FoundBefore == IF starts = NoStarts THEN {} ELSE {e.what : e \in starts.entries}

RecordStarts(conditions) ==
    /\ starts' = [placed |-> placed, age |-> 0,
                  entries |-> {[what |-> c, lasted |-> Lasted(c)] : c \in conditions}]
    /\ steady' = [k \in Kinds |->
                    IF \E c \in conditions \cap FoundBefore : Kind(c) = k THEN steady[k] ELSE 0]

Evaluate ==
    LET s == Snapshot
    IN  /\ IF s.data = "FRESH" /\ (rating = NoRating \/ ~rating.current)
             THEN \E state \in {"NORMAL", "WARNING", "CRITICAL"} :
                    /\ rating' = [state |-> state, scope |-> reading.what.scope,
                                  current |-> TRUE, age |-> reading.age]
                    /\ RecordStarts(HealthConditions(s) \cup FillConditions(s, state, preAlert))
             ELSE /\ RecordStarts(HealthConditions(s) \cup
                       (IF s.data = "FRESH" THEN FillConditions(s, s.fill, preAlert) ELSE {}))
                  /\ UNCHANGED rating
        /\ UNCHANGED device /\ UNCHANGED view

-----------------------------------------------------------------------------
(* A request: active_snapshot_alerts on a snapshot taken before.           *)

View ==
    /\ view = NoView
    /\ view' = [placed |-> placed, age |-> 0,
                items |-> {[what |-> c, steady |-> steady[Kind(c)]] :
                             c \in HealthConditions(Snapshot)
                                     \cup FillConditions(Snapshot, EffectiveState, preAlert)}]
    /\ UNCHANGED device /\ UNCHANGED <<rating, starts, steady>>

(* Wrong on purpose: any row of the pit is believed.                       *)
RowAppliesAnytime == starts # NoStarts /\ starts.placed = view.placed

(* The row was written before the snapshot was taken, and not long before. *)
RowApplies ==
    /\ starts # NoStarts /\ starts.placed = view.placed
    /\ 0 <= starts.age - view.age /\ starts.age - view.age < StartLimit

(* For how long an item of the answer is said to have lasted.              *)
Since(c) ==
    IF RowApplies /\ \E e \in starts.entries : e.what = c
      THEN Longer((CHOOSE e \in starts.entries : e.what = c).lasted, starts.age - view.age)
      ELSE Unknown

Answer ==
    /\ view # NoView /\ view' = NoView
    /\ UNCHANGED device /\ UNCHANGED <<rating, starts, steady>>

-----------------------------------------------------------------------------
(* The device, the administrator and time.                                 *)

ReceiveEdgeStatus(r) ==
    /\ beat < MaxReceipts
    /\ beat' = beat + 1 /\ heard' = 0
    /\ report' = [what |-> r, age |-> -r.ahead]
    /\ steady' = [steady EXCEPT !["SILENT"] = 0]
    /\ UNCHANGED <<placed, reading, rating, preAlert, starts, view>>

ReceiveReading(m) ==
    /\ reading' = [what |-> m, age |-> 0]
    /\ rating' = IF rating = NoRating THEN NoRating ELSE [rating EXCEPT !.current = FALSE]
    /\ UNCHANGED <<placed, report, beat, heard, preAlert, starts, view, steady>>

SetPolicy ==
    /\ preAlert' = ~preAlert
    /\ UNCHANGED <<placed, report, beat, heard, reading, rating, starts, view, steady>>

(* The process starts again with its device at another pit, whose judgment *)
(* is of no device yet.                                                    *)
Assign(p) ==
    /\ p # placed /\ placed' = p
    /\ rating' = NoRating /\ view' = NoView
    /\ UNCHANGED <<report, beat, heard, reading, preAlert, starts, steady>>

HealthTick ==
    /\ view # NoView => view.age < MaxReading
    /\ report' = IF report = NoReport THEN NoReport
                 ELSE [report EXCEPT !.age = Older(@, StatusTTL + AssessmentTTL)]
    /\ reading' = IF reading = NoReading THEN NoReading
                  ELSE [reading EXCEPT !.age = Older(@, AssessmentTTL)]
    /\ rating' = IF rating = NoRating THEN NoRating
                 ELSE [rating EXCEPT !.age = Older(@, AssessmentTTL)]
    /\ starts' = IF starts = NoStarts THEN NoStarts
                 ELSE [starts EXCEPT !.age = Older(@, StartLimit + MaxReading)]
    /\ view' = IF view = NoView THEN NoView ELSE [view EXCEPT !.age = @ + 1]
    /\ heard' = Older(heard, StatusTTL)
    /\ steady' = [k \in Kinds |-> IF starts # NoStarts /\ starts'.age >= StartLimit
                                    THEN 0 ELSE Longer(steady[k], 1)]
    /\ UNCHANGED <<placed, beat, preAlert>>

HealthInit ==
    /\ placed \in Pits /\ preAlert \in BOOLEAN
    /\ report = NoReport /\ beat = 0 /\ heard = StatusTTL
    /\ reading = NoReading /\ rating = NoRating
    /\ starts = NoStarts /\ view = NoView
    /\ steady = [k \in Kinds |-> 0]

HealthNext ==
    \/ \E r \in Reports : ReceiveEdgeStatus(r)
    \/ \E m \in Readings : ReceiveReading(m)
    \/ \E p \in Pits : Assign(p)
    \/ SetPolicy \/ Evaluate \/ View \/ Answer \/ HealthTick

HealthSpec == HealthInit /\ [][HealthNext]_healthVars

-----------------------------------------------------------------------------
(* Properties.                                                             *)

(* "Missing status episodes cannot span a newly received heartbeat": the   *)
(* start time an alarm is shown with is of this very condition. Since then *)
(* every evaluation found it, at this pit, and none was overdue; of an     *)
(* outage, since then nothing was received.                                *)
StartsAreContinuous ==
    view # NoView => \A i \in view.items : Since(i.what) <= i.steady

(* No news is not good news: a component that is listed as checked and has *)
(* no alarm was reported well, recently, by the clock of this server, and  *)
(* a measurement that raises no alarm is of the configuration in force.    *)
AllClearIsEvidenced ==
    LET alarms == {c.component : c \in HealthConditions(Snapshot)}
    IN  \A k \in Checked(Snapshot) \ alarms :
           /\ heard < StatusTTL /\ report.age < StatusTTL
           /\ k = "EDGE" => report.what.overall \in {"HEALTHY", "DEGRADED"}
           /\ k = "LIDAR" => /\ report.what.sensor = "FRESH"
                             /\ report.age + report.what.scanLag \in 0 .. AssessmentTTL - 1
           /\ k = "MEASUREMENT" => /\ reading.age \in 0 .. AssessmentTTL - 1
                                   /\ reading.what.scope = report.what.scope

(* What the list of alarms says, of trouble or of none, was measured.      *)
AlarmsAreEvidenced == StartsAreContinuous /\ AllClearIsEvidenced
=============================================================================

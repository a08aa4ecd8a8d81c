----------------------------- MODULE LegacyMetrics -----------------------------
(***************************************************************************)
(* Measurements of the first contract, of one pit: requests suspended at   *)
(* their statements; the state with hysteresis, which is kept in memory    *)
(* and moves before the measurement is stored; the alert tasks, which take *)
(* the cooldown before they write.                                         *)
(***************************************************************************)
EXTENDS Integers, Sequences

CONSTANTS
    Senders,                 \* requests at a time
    Metrics,                 \* [id, level], a measurement_id and a fill percentage
    NoId, InvalidLevel,      \* of a measurement without a number; of an INVALID one
    Limits,                  \* [warning, critical], as settings let them be
    HysteresisMargin,        \* hysteresis_margin
    AlertCooldown,           \* ALERT_COOLDOWN_SECONDS
    NoMetric, Untaken,       \* null values
    MaxMetricTime            \* bound

(* validate_alert_thresholds keeps the warning level five points below the  *)
(* critical one, and the margin is two.                                    *)
ASSUME MetricAssumption ==
    /\ AlertCooldown \in Nat /\ HysteresisMargin \in Nat \ {0}
    /\ \A limit \in Limits : /\ limit.warning \in Nat /\ limit.critical \in Nat
                             /\ limit.warning + HysteresisMargin <= limit.critical
    /\ \A m \in Metrics : m.level # InvalidLevel => m.level \in Nat
    /\ Untaken \notin Nat
    /\ NoMetric \notin [metric : Metrics, moved : BOOLEAN, raises : BOOLEAN, danger : BOOLEAN]

VARIABLES
    engine,     \* PitCurrentState.current_state
    limits,     \* PitConfig
    rows,       \* ScrapMetric rows with a measurement_id: [id, level]
    ingest,     \* request -> [id, level, moved, state], or NoMetric
    acked,      \* history: [id, level] answered as accepted
    lastAlert,  \* AlertEngine._last_alert_time, or Untaken
    waiting,    \* alert tasks that have not looked at it yet
    alerts,     \* tasks that have taken it: [at, outcome]
    dangers,    \* history: when measurements were CRITICAL since the start
    clock

metricVars == <<engine, limits, rows, ingest, acked, lastAlert, waiting, alerts, dangers, clock>>

(* evaluate_state *)
Evaluated(state, level, limit) ==
    CASE level >= limit.critical -> "CRITICAL"
      [] level < limit.critical /\ level >= limit.warning ->
           IF state = "CRITICAL" /\ level >= limit.critical - HysteresisMargin
             THEN "CRITICAL" ELSE "WARNING"
      [] level < limit.warning ->
           IF state # "NORMAL" /\ level >= limit.warning - HysteresisMargin
             THEN "WARNING" ELSE "NORMAL"

(* Wrong on purpose: the known number suffices, whatever came with it. *)
SameNumber(row, m) == row.id = m.id

SamePayload(row, m) == row = m

(* handle_alert is called with every CRITICAL measurement.  Wrong on       *)
(* purpose: only with the first of a stretch.                              *)
RaisesFirst(before, state) == state = "CRITICAL" /\ before # "CRITICAL"

Raises(before, state) == state = "CRITICAL"

-----------------------------------------------------------------------------
(* ingest_edge_metric looks the number up first.  A measurement without a  *)
(* number is of ingest_metric.                                             *)
StartMetric(s, m) ==
    /\ ingest[s] = NoMetric
    /\ waiting = 0    \* a task that was created runs before a new request
    /\ LET known == {row \in rows : row.id = m.id /\ m.id # NoId} IN
       IF known = {}
         THEN /\ ingest' = [ingest EXCEPT ![s] = [metric |-> m, moved |-> FALSE, raises |-> FALSE,
                                               danger |-> FALSE]]
              /\ UNCHANGED acked
         ELSE /\ acked' = IF \E row \in known : SamePayload(row, m) THEN acked \union {m} ELSE acked
              /\ UNCHANGED ingest
    /\ UNCHANGED <<engine, limits, rows, lastAlert, waiting, alerts, dangers, clock>>

HandleAlert(raises, danger) ==
    /\ waiting' = IF raises THEN waiting + 1 ELSE waiting
    /\ dangers' = IF danger THEN dangers \union {clock} ELSE dangers

(* The thresholds are read and the state moves.  ingest_metric alerts      *)
(* here, before its row is committed.                                      *)
MoveState(s) ==
    /\ ingest[s] # NoMetric /\ ~ingest[s].moved
    /\ LET m     == ingest[s].metric
           valid == m.level # InvalidLevel
           state == IF valid THEN Evaluated(engine, m.level, limits) ELSE engine
           raises == valid /\ Raises(engine, state)
           danger == valid /\ state = "CRITICAL"
       IN  /\ engine' = state
           /\ ingest' = [ingest EXCEPT ![s].moved = TRUE, ![s].raises = raises,
                                       ![s].danger = danger]
           /\ HandleAlert(m.id = NoId /\ raises, m.id = NoId /\ danger)
    /\ UNCHANGED <<limits, rows, acked, lastAlert, alerts, clock>>

(* measurement_id is unique: of two requests that both found it free the   *)
(* second one fails.  ingest_edge_metric broadcasts and alerts here.       *)
CommitMetric(s) ==
    /\ ingest[s] # NoMetric /\ ingest[s].moved
    /\ LET m == ingest[s].metric IN
       /\ \A row \in rows : row.id # m.id \/ m.id = NoId
       /\ rows' = IF m.id = NoId THEN rows ELSE rows \union {m}
       /\ acked' = IF m.id = NoId THEN acked ELSE acked \union {m}
       /\ HandleAlert(m.id # NoId /\ ingest[s].raises, m.id # NoId /\ ingest[s].danger)
    /\ ingest' = [ingest EXCEPT ![s] = NoMetric]
    /\ UNCHANGED <<engine, limits, lastAlert, alerts, clock>>

MetricFails(s) ==
    /\ ingest[s] # NoMetric
    /\ ingest' = [ingest EXCEPT ![s] = NoMetric]
    /\ UNCHANGED <<engine, limits, rows, acked, lastAlert, waiting, alerts, dangers, clock>>

-----------------------------------------------------------------------------
(* _process_alert: under the lock, the cooldown; then the write, whose     *)
(* failure is logged.  Wrong on purpose: the cooldown of what is stored.   *)
CoolingStored == \E i \in DOMAIN alerts : /\ alerts[i].outcome = "stored"
                                         /\ clock - alerts[i].at < AlertCooldown

Cooling == lastAlert # Untaken /\ clock - lastAlert < AlertCooldown

TakeCooldown ==
    /\ waiting > 0 /\ waiting' = waiting - 1
    /\ IF Cooling THEN UNCHANGED <<lastAlert, alerts>>
       ELSE /\ lastAlert' = clock
            /\ alerts' = Append(alerts, [at |-> clock, outcome |-> "writing"])
    /\ UNCHANGED <<engine, limits, rows, ingest, acked, dangers, clock>>

WriteAlert ==
    /\ \E i \in DOMAIN alerts, outcome \in {"stored", "lost"} :
         alerts[i].outcome = "writing" /\ alerts' = [alerts EXCEPT ![i].outcome = outcome]
    /\ UNCHANGED <<engine, limits, rows, ingest, acked, lastAlert, waiting, dangers, clock>>

(* confirm_collection, after its commit: reset_pit_state. *)
ConfirmCollection ==
    /\ engine' = "NORMAL"
    /\ UNCHANGED <<limits, rows, ingest, acked, lastAlert, waiting, alerts, dangers, clock>>

ChangeLimits(new) ==
    /\ new # limits /\ limits' = new
    /\ UNCHANGED <<engine, rows, ingest, acked, lastAlert, waiting, alerts, dangers, clock>>

MetricTick ==
    /\ clock < MaxMetricTime /\ clock' = clock + 1
    /\ waiting = 0    \* and before time is noticed
    /\ UNCHANGED <<engine, limits, rows, ingest, acked, lastAlert, waiting, alerts, dangers>>

MetricRestart ==
    /\ engine' = "NORMAL" /\ lastAlert' = Untaken /\ waiting' = 0
    /\ ingest' = [s \in Senders |-> NoMetric]
    /\ alerts' = <<>> /\ dangers' = {}
    /\ UNCHANGED <<limits, rows, acked, clock>>

MetricInit ==
    /\ engine = "NORMAL" /\ limits \in Limits
    /\ rows = {} /\ acked = {} /\ ingest = [s \in Senders |-> NoMetric]
    /\ lastAlert = Untaken /\ waiting = 0 /\ alerts = <<>> /\ dangers = {} /\ clock = 0

MetricNext ==
    \/ \E s \in Senders :
         \/ \E m \in Metrics : StartMetric(s, m)
         \/ MoveState(s) \/ CommitMetric(s) \/ MetricFails(s)
    \/ TakeCooldown \/ WriteAlert \/ ConfirmCollection \/ MetricTick \/ MetricRestart
    \/ \E new \in Limits : ChangeLimits(new)

MetricSpec == MetricInit /\ [][MetricNext]_metricVars

-----------------------------------------------------------------------------
(* Properties.                                                             *)

(* A measurement that is sent again, at once or after its answer was lost, *)
(* is acknowledged only if it is the one that is stored.                   *)
AcceptedIsStored == acked \subseteq rows

(* However many CRITICAL measurements arrive at once, alerts of one run of *)
(* the process are ALERT_COOLDOWN_SECONDS apart ...                        *)
AlertsKeepCooldown ==
    \A i, j \in DOMAIN alerts : i < j => alerts[j].at - alerts[i].at >= AlertCooldown

(* ... and each such measurement finds one attempted, if not stored: after *)
(* it, or less than the cooldown before it.                                *)
AlertedSince(t) ==
    \E i \in DOMAIN alerts : alerts[i].at >= t \/ t - alerts[i].at < AlertCooldown

DangerIsAlerted == \A t \in dangers : waiting = 0 => AlertedSince(t)

(* "Anti-chattering, and hysteresis": a measurement sent again does not    *)
(* move the state, more scrap never gives a lower state, and two levels    *)
(* closer than the margin cannot move it to and fro.                       *)
Rank(state) == CASE state = "NORMAL" -> 0 [] state = "WARNING" -> 1 [] state = "CRITICAL" -> 2

HysteresisHolds ==
    \A low, high \in 0 .. limits.critical + 1 : low <= high =>
        LET e(state, level) == Evaluated(state, level, limits)
            up   == e(engine, high)
            down == e(up, low)
        IN  /\ e(up, high) = up
            /\ Rank(e(engine, low)) <= Rank(up)
            /\ high - low < HysteresisMargin /\ e(down, high) = up => down = up

LegacyMetricsAreSound ==
    AcceptedIsStored /\ AlertsKeepCooldown /\ DangerIsAlerted /\ HysteresisHolds
=============================================================================

----------------------------- MODULE MCEvaluation -----------------------------
(* Collection detection, the heights that are shown, the history of the    *)
(* load and the health alarms, in one instance for TLC: in each behaviour  *)
(* one of them moves and the others stay as they began, so that the states *)
(* are the sum of theirs and not the product.                              *)
EXTENDS CollectionDetection, HeightWindow, History, ActiveHealth, TLC

VARIABLE part

EvaluationInit ==
    /\ part \in {"collection", "heights", "history", "health"}
    /\ Init /\ HeightInit /\ HistoryInit /\ HealthInit
    /\ part # "collection" => scope = CHOOSE s \in Scopes : TRUE
    /\ part # "history" => /\ dialect = "sqlite" /\ input = "EDGE_STATE"
                           /\ minutes = [m \in MinuteIds |-> NoMinute]
    /\ part # "health" => placed = (CHOOSE p \in Pits : TRUE) /\ preAlert

EvaluationNext ==
    /\ UNCHANGED part
    /\ \/ part = "collection" /\ Next        /\ UNCHANGED <<heightVars, historyVars, healthVars>>
       \/ part = "heights"    /\ HeightNext  /\ UNCHANGED <<vars, historyVars, healthVars>>
       \/ part = "history"    /\ HistoryNext /\ UNCHANGED <<vars, heightVars, healthVars>>
       \/ part = "health"     /\ HealthNext  /\ UNCHANGED <<vars, heightVars, historyVars>>

EvaluationSpec == EvaluationInit /\ [][EvaluationNext]_<<part, vars, heightVars, historyVars, healthVars>>

(* Heights that fall short of the drop, meet it and exceed it. *)
SomeHeights == {0, 4, 6}

(* Measurements by bins, of the present and of a second before, complete   *)
(* and not, and one by received points of another configuration.           *)
BothSensors == {"left", "right"}
ByBins(age, heights)   == [age |-> age, basis |-> "SPATIAL_BINS", heights |-> heights]
ByPoints(age, heights) == [age |-> age, basis |-> "RECEIVED_POINTS", heights |-> heights]
MeasurementOf(revision, left, right) ==
    [revision |-> revision, matched |-> TRUE, scans |-> ("left" :> left) @@ ("right" :> right)]
SomeMeasurements ==
    {MeasurementOf("r1", ByBins(0, <<0, 4>>), ByBins(0, <<4, 4>>)),
     MeasurementOf("r1", ByBins(1, <<8, NoHeight>>), ByBins(0, <<4, 4>>)),
     MeasurementOf("r2", ByPoints(0, <<0, 4>>), NoScan)}

(* Messages of both kinds in two minutes of four ticks, one without a      *)
(* value, two of one second; and a row of before there were summaries and  *)
(* times of single samples.                                                *)
Message(at, kind, value) == [at |-> at, origin |-> kind, value |-> value]
SomeSamples ==
    {Message(0, "EDGE_STATE", 1), Message(1, "EDGE_STATE", 2), Message(3, "EDGE_STATE", NoValue),
     Message(6, "EDGE_STATE", 1), Message(2, "HEIGHT_SECTIONS", 0), Message(5, "HEIGHT_SECTIONS", 2)}
LegacySlot(value) == [value |-> value, origin |-> "EDGE_STATE", at |-> NoTime]
LegacyRow ==
    [generated |-> 3, last |-> Message(3, "EDGE_STATE", NoValue), summary |-> NoSummary,
     slots |-> (0 :> LegacySlot(2)) @@ (1 :> LegacySlot(NoValue))]
SomeRows == {[m \in MinuteIds |-> NoMinute],
             [m \in MinuteIds |-> IF m = 0 THEN LegacyRow ELSE NoMinute]}

(* Both minutes apart and as one bucket, and spans that cut them.          *)
SomeSpans == {<<0, 8, 4>>, <<0, 8, 8>>, <<1, 8, 8>>, <<0, 3, 4>>, <<3, 6, 8>>}

(* A device with another configuration than the measurement's, a broken    *)
(* one, and one that starts and whose clock is ahead.                      *)
SomeReport(overall, preparing, sensor, recovering, scanLag, ahead, revision) ==
    [overall |-> overall, preparing |-> preparing, sensor |-> sensor,
     recovering |-> recovering, scanLag |-> scanLag, ahead |-> ahead, scope |-> revision]
SomeReports ==
    {SomeReport("HEALTHY", FALSE, "FRESH", FALSE, 1, 0, 2),
     SomeReport("CONFIG_ERROR", FALSE, "UNAVAILABLE", FALSE, 0, 0, 1),
     SomeReport("DEGRADED", TRUE, "RECOVERING", TRUE, 0, 2, 1)}
SomeReadings == {[scope |-> 1, warming |-> FALSE]}
=============================================================================

------------------------------ MODULE HeightWindow ------------------------------
(***************************************************************************)
(* The median of heights over the last seconds: what a measurement adds to *)
(* the window of each of its two sensors, what throws a window away, the   *)
(* fill percentage that follows, and the requests that read both.          *)
(*                                                                         *)
(* Times are ages in ticks and exact; nothing is distinguished any more    *)
(* when the newest scan is older than the assessments' time to live, and   *)
(* time stops there.  Heights are multiples of a unit that makes means and *)
(* medians whole; the depth is the unit of the percentage.                 *)
(***************************************************************************)
EXTENDS ObservationWindow, SequencesExt

CONSTANTS
    Sensors,       \* the two sensors of the device
    Measurements,  \* [revision, matched, scans : Sensors -> scan], where a scan is
                   \* [age, basis, heights] at its receipt, or NoScan when its profile is unusable
    Settings,      \* what window_scope digests: reference, depth, threshold, instance
    Revisions,     \* configuration revisions
    NoScan, NoHeight, NoWindow, NoMeasurement, NoFill, NoRequest,   \* null values
    TTL,           \* EDGE_V2_ASSESSMENT_TTL_SECONDS, in ticks
    MaxChanges,    \* bound: statuses and changes of settings
    MaxReceived    \* bound: measurements

VARIABLES
    settings,   \* in force
    status,     \* the device's status: [healthy, revision]
    latest,     \* the newest measurement
    window,     \* height_window: [settings, revision, sensors], or NoWindow
    fill,       \* the filter row: [settings, revision, samples, anchor, observed, ready, value]
    request,    \* a reader between its statements
    changes,    \* bound: statuses and changes of settings so far
    received,   \* bound: measurements so far
    first,      \* history: age of a sensor's first scan since it was last disturbed
    regular     \* history: scans of it since then that came exactly a second apart

heightVars == <<settings, status, latest, window, fill, request, changes, received, first, regular>>

Whole(heights) == \A i \in DOMAIN heights : heights[i] # NoHeight
Given(heights) == SelectSeq(heights, LAMBDA h : h # NoHeight)
Total(s) == FoldSeq(LAMBDA a, b : a + b, 0, s)
Mean(s) == IF s = <<>> THEN NoHeight ELSE Total(s) \div Len(s)
Median(s) ==
    LET t == SortSeq(s, LAMBDA a, b : a < b)
        n == Len(s)
    IN  (t[(n + 1) \div 2] + t[n \div 2 + 1]) \div 2

Usable(scan) == scan # NoScan

-----------------------------------------------------------------------------
(* advance: the window of one sensor after another scan.  Positions are    *)
(* those of the bins, so that their number tells them; scans by angle keep *)
(* their mean alone.                                                       *)

EmptyWindow == [basis |-> "SPATIAL_BINS", width |-> 0, frames |-> <<>>, anchor |-> NoAnchor]

Kept(scan) == IF scan.basis = "RECEIVED_POINTS" THEN <<Mean(Given(scan.heights))>> ELSE scan.heights

(* What a scan, a sensor's window and the rows of the database may be.     *)
Bases == {"SPATIAL_BINS", "RECEIVED_POINTS"}
HeightLists == UNION {{m.scans[s].heights : s \in {t \in Sensors : Usable(m.scans[t])}} : m \in Measurements}
KeptLists == {Kept([age |-> 0, basis |-> b, heights |-> h]) : b \in Bases, h \in HeightLists}
Scans == [age : Nat, basis : Bases, heights : HeightLists]
Pages == [revision : Revisions, matched : BOOLEAN, scans : [Sensors -> Scans \union {NoScan}]]
Frames == [age : Nat, heights : KeptLists]
SensorWindows == [basis : Bases, width : {0} \union {Len(heights) : heights \in KeptLists},
                  frames : Seq(Frames), anchor : Nat \union {NoAnchor}]
Windows == [settings : Settings, revision : Revisions, sensors : [Sensors -> SensorWindows]]

ASSUME HeightAssumption ==
    /\ Settings # {} /\ Revisions # {}
    /\ Measurements \subseteq Pages
    /\ NoScan \notin Scans /\ NoMeasurement \notin Pages /\ NoWindow \notin Windows

(* Received points of which none is valid have no mean.                    *)
IsVoid(scan) == scan.basis = "RECEIVED_POINTS" /\ Given(scan.heights) = <<>>

Continues(w, scan) == w.basis = scan.basis /\ w.width = Len(Kept(scan)) /\ w.frames # <<>>

(* Wrong on purpose: a gap in the scans is not looked at. *)
GapAllowed(w, scan) == FALSE

Gap(w, scan) == Last(w.frames).age - scan.age > GapLimit

Appended(w, scan) ==
    LET old    == IF Continues(w, scan) /\ ~Gap(w, scan) THEN w.frames ELSE <<>>
        anchor == IF old = <<>> THEN NoAnchor ELSE w.anchor
        frames == Append(old, [age |-> scan.age, heights |-> Kept(scan)])
        before == [i \in DOMAIN frames |-> frames[i].age - scan.age]
        kept   == InOrder(Selected(before, IF anchor = NoAnchor THEN NoAnchor ELSE anchor - scan.age))
    IN  [basis |-> scan.basis, width |-> Len(Kept(scan)),
         frames |-> [i \in DOMAIN kept |-> frames[kept[i]]],
         anchor |-> scan.age + AnchorAfter(before, IF anchor = NoAnchor THEN NoAnchor
                                                   ELSE anchor - scan.age)]

Advance(w, scan) ==
    IF ~Usable(scan) THEN EmptyWindow
    ELSE IF IsVoid(scan)
      THEN [EmptyWindow EXCEPT !.basis = "RECEIVED_POINTS"]
    ELSE IF Continues(w, scan) /\ scan.age >= Last(w.frames).age
      THEN IF scan.age = Last(w.frames).age /\ Kept(scan) = Last(w.frames).heights THEN w
           ELSE [EmptyWindow EXCEPT !.basis = scan.basis, !.width = Len(Kept(scan))]
    ELSE Appended(w, scan)

-----------------------------------------------------------------------------
(* filtered_page: a scan seen through a window, height by height or by its *)
(* mean.                                                                   *)

Ready(scan, w) ==
    /\ Usable(scan) /\ Len(w.frames) = Size
    /\ Last(w.frames).age = scan.age
    /\ w.basis = scan.basis /\ w.width = Len(Kept(scan))

MedianAt(w, i) ==
    LET column == [k \in DOMAIN w.frames |-> w.frames[k].heights[i]]
    IN  IF Whole(column) THEN Median(column) ELSE NoHeight

FilteredHeights(scan, w) ==
    IF ~Ready(scan, w) THEN <<>>
    ELSE IF scan.basis = "RECEIVED_POINTS" THEN <<MedianAt(w, 1)>>
    ELSE [i \in DOMAIN scan.heights |->
            IF scan.heights[i] = NoHeight THEN NoHeight ELSE MedianAt(w, i)]

(* minimum_coverage is 1, its default: a section with a missing bin has no *)
(* percentage, and one by angle has what its points give.                  *)
Section(scan, w) ==
    LET heights == FilteredHeights(scan, w)
    IN  IF heights = <<>> \/ ~Whole(heights) THEN NoHeight ELSE Mean(heights)

RawSection(scan) ==
    IF ~Usable(scan) \/ Given(scan.heights) = <<>> THEN NoHeight
    ELSE IF scan.basis = "SPATIAL_BINS" /\ ~Whole(scan.heights) THEN NoHeight
    ELSE Mean(Given(scan.heights))

MeanSection(m, section) ==
    IF m.matched /\ \A s \in Sensors : section[s] # NoHeight
      THEN MapThenSumSet(LAMBDA s : section[s], Sensors) \div Cardinality(Sensors)
      ELSE NoHeight

-----------------------------------------------------------------------------
(* A newest measurement arrives: project_height_fill.  The percentage of   *)
(* its own scans enters the filter, which has its own second-by-second     *)
(* window, but READY is the percentage of the median heights.              *)

Observed(m) ==
    LET ages == {m.scans[s].age : s \in {t \in Sensors : Usable(m.scans[t])}}
    IN  CHOOSE a \in ages : \A b \in ages : a <= b

ValidInput(m) ==
    /\ MeanSection(m, [s \in Sensors |-> RawSection(m.scans[s])]) # NoHeight
    /\ Observed(m) < TTL
    /\ status.healthy /\ status.revision = m.revision

(* Wrong on purpose: the filter's own samples suffice. *)
FillAfterRaw(m, filtered) ==
    [settings |-> settings, revision |-> m.revision, samples |-> <<>>, anchor |-> NoAnchor,
     observed |-> NoAnchor, ready |-> ValidInput(m),
     value |-> MeanSection(m, [s \in Sensors |-> RawSection(m.scans[s])])]

FillAfter(m, filtered) ==
    LET row  == [settings |-> settings, revision |-> m.revision, samples |-> <<>>,
                 anchor |-> NoAnchor, ready |-> FALSE, value |-> NoHeight,
                 observed |-> IF \E s \in Sensors : Usable(m.scans[s]) THEN Observed(m) ELSE NoAnchor]
        same == fill # NoFill /\ fill.settings = settings /\ fill.revision = m.revision
        late == fill # NoFill /\ fill.observed # NoAnchor /\ row.observed >= fill.observed
        gap  == fill # NoFill /\ fill.observed # NoAnchor /\ fill.observed - row.observed > GapLimit
        old  == IF same /\ ~gap THEN fill.samples ELSE <<>>
        anchor == IF same /\ ~gap /\ fill.anchor # NoAnchor
                    THEN fill.anchor - row.observed ELSE NoAnchor
        all  == Append(old, row.observed)
        before == [i \in DOMAIN all |-> all[i] - row.observed]
        kept == InOrder(Selected(before, anchor))
    IN  IF ~ValidInput(m) \/ late THEN row
        ELSE [row EXCEPT !.samples = [i \in DOMAIN kept |-> all[kept[i]]],
                         !.anchor = row.observed + AnchorAfter(before, anchor),
                         !.ready = Len(kept) = Size /\ filtered # NoHeight,
                         !.value = IF Len(kept) = Size THEN filtered ELSE NoHeight]

(* History: what disturbs a sensor's window, told from the measurements    *)
(* and the settings, and not from its frames.                              *)
Disturbed(m, s) ==
    LET scan == m.scans[s]
        last == latest.scans[s]
    IN  \/ latest = NoMeasurement \/ window = NoWindow
        \/ ~Usable(last) \/ IsVoid(last)
        \/ window.settings # settings \/ latest.revision # m.revision
        \/ last.basis # scan.basis \/ Len(Kept(last)) # Len(Kept(scan))
        \/ last.age - scan.age > GapLimit

Repeated(m, s) ==
    LET scan == m.scans[s]
        last == latest.scans[s]
    IN  last.age = scan.age /\ Kept(last) = Kept(scan)

ReceiveMeasurement(m) ==
    LET before == IF window # NoWindow /\ window.settings = settings /\ window.revision = m.revision
                    THEN window.sensors ELSE [s \in Sensors |-> EmptyWindow]
        after  == [s \in Sensors |-> Advance(before[s], m.scans[s])]
    IN  /\ received < MaxReceived /\ received' = received + 1
        /\ window' = [settings |-> settings, revision |-> m.revision, sensors |-> after]
        /\ fill' = FillAfter(m, MeanSection(m, [s \in Sensors |-> Section(m.scans[s], after[s])]))
        /\ latest' = m
        /\ first' = [s \in Sensors |->
              IF ~Usable(m.scans[s]) \/ IsVoid(m.scans[s]) THEN NoAnchor
              ELSE IF Disturbed(m, s) \/ first[s] = NoAnchor THEN m.scans[s].age
              ELSE IF Repeated(m, s) THEN first[s]
              ELSE IF m.scans[s].age >= latest.scans[s].age THEN NoAnchor
              ELSE first[s]]
        /\ regular' = [s \in Sensors |->
              IF first'[s] = NoAnchor THEN 0
              ELSE IF Disturbed(m, s) \/ first[s] = NoAnchor THEN 1
              ELSE IF Repeated(m, s) THEN regular[s]
              ELSE IF latest.scans[s].age - m.scans[s].age = Second
                THEN IF regular[s] = Size THEN Size ELSE regular[s] + 1
              ELSE 1]
        /\ request' = IF request = NoRequest THEN NoRequest
                      ELSE [request EXCEPT !.torn = request.stage = "window"]
        /\ UNCHANGED <<settings, status, changes>>

-----------------------------------------------------------------------------
(* A status of the device that is not fit for measuring, of a restarted    *)
(* device or of another configuration throws window and filter away; a     *)
(* change of settings by an administrator is only noticed later.           *)

Disturb == /\ first' = [s \in Sensors |-> NoAnchor]
           /\ regular' = [s \in Sensors |-> 0]

(* Wrong on purpose: only what the device says of itself counts. *)
InvalidatesIfUnwell(st, restarted) == ~st.healthy

Invalidates(st, restarted) ==
    ~st.healthy \/ restarted \/ (window # NoWindow /\ window.revision # st.revision)

Change == changes < MaxChanges /\ changes' = changes + 1

ReceiveStatus(st, new) ==
    /\ Change
    /\ status' = st /\ settings' = new
    /\ IF Invalidates(st, new # settings)
         THEN window' = NoWindow /\ fill' = NoFill ELSE UNCHANGED <<window, fill>>
    /\ IF ~st.healthy \/ new # settings \/ (latest # NoMeasurement /\ latest.revision # st.revision)
         THEN Disturb ELSE UNCHANGED <<first, regular>>
    /\ UNCHANGED <<latest, request, received>>

ChangeSettings(new) ==
    /\ Change
    /\ new # settings /\ settings' = new
    /\ UNCHANGED <<status, latest, window, fill, request, received, first, regular>>

-----------------------------------------------------------------------------
(* A request: the measurement, the window's row, and whether that row is   *)
(* still of the newest measurement, in statements of their own.            *)

ReadPage ==
    /\ request = NoRequest /\ latest # NoMeasurement
    /\ request' = [page |-> latest, stage |-> "page", window |-> NoWindow, torn |-> FALSE,
                   first |-> first]
    /\ UNCHANGED <<settings, status, latest, window, fill, changes, received, first, regular>>

ReadWindow ==
    /\ request # NoRequest /\ request.stage = "page"
    /\ request' = [request EXCEPT !.stage = "window", !.window = window, !.first = first]
    /\ UNCHANGED <<settings, status, latest, window, fill, changes, received, first, regular>>

ShowPage ==
    /\ request # NoRequest /\ request.stage = "window"
    /\ request' = NoRequest
    /\ UNCHANGED <<settings, status, latest, window, fill, changes, received, first, regular>>

WindowApplies ==
    request.window # NoWindow /\ ~request.torn /\ request.window.settings = settings

Shown(s) == IF WindowApplies THEN FilteredHeights(request.page.scans[s], request.window.sensors[s])
            ELSE <<>>

(* height_snapshot: the percentage of the present. *)
FillShown ==
    IF /\ latest # NoMeasurement /\ \E s \in Sensors : Usable(latest.scans[s])
       /\ Observed(latest) < TTL
       /\ status.healthy /\ status.revision = latest.revision
       /\ fill # NoFill /\ fill.settings = settings /\ fill.ready
      THEN fill.value ELSE NoHeight

-----------------------------------------------------------------------------
AgeOfScan(scan) == [scan EXCEPT !.age = @ + 1]
AgedScan(scan) == IF Usable(scan) THEN AgeOfScan(scan) ELSE NoScan
AgeOfAnchor(a) == IF a = NoAnchor THEN NoAnchor ELSE a + 1
AgedWindow(w) ==
    [w EXCEPT !.frames = [i \in DOMAIN @ |-> AgeOfScan(@[i])], !.anchor = AgeOfAnchor(@)]

HeightTick ==
    /\ request = NoRequest
    /\ latest # NoMeasurement
    /\ \E s \in Sensors : Usable(latest.scans[s]) /\ latest.scans[s].age < TTL
    /\ latest' = [latest EXCEPT !.scans =
                    [s \in Sensors |-> AgedScan(@[s])]]
    /\ window' = IF window = NoWindow THEN NoWindow
                 ELSE [window EXCEPT !.sensors = [s \in Sensors |-> AgedWindow(@[s])]]
    /\ fill' = IF fill = NoFill THEN NoFill
               ELSE [fill EXCEPT !.samples = [i \in DOMAIN @ |-> @[i] + 1],
                                 !.anchor = AgeOfAnchor(@), !.observed = AgeOfAnchor(@)]
    /\ first' = [s \in Sensors |-> AgeOfAnchor(first[s])]
    /\ UNCHANGED <<settings, status, request, changes, received, regular>>

(* Measurements come with the age of their scans at their receipt.         *)
HeightInit ==
    /\ settings = CHOOSE s \in Settings : TRUE
    /\ status = [healthy |-> TRUE, revision |-> CHOOSE r \in Revisions : TRUE]
    /\ latest = NoMeasurement /\ window = NoWindow /\ fill = NoFill
    /\ request = NoRequest /\ changes = 0 /\ received = 0
    /\ first = [s \in Sensors |-> NoAnchor] /\ regular = [s \in Sensors |-> 0]

HeightNext ==
    \/ \E m \in Measurements : ReceiveMeasurement(m)
    \/ \E st \in [healthy : BOOLEAN, revision : Revisions], new \in Settings : ReceiveStatus(st, new)
    \/ \E new \in Settings : ChangeSettings(new)
    \/ ReadPage \/ ReadWindow \/ ShowPage \/ HeightTick

HeightSpec == HeightInit /\ [][HeightNext]_heightVars

-----------------------------------------------------------------------------
(* Properties.                                                             *)

(* "A repeated scan never counts as an additional observation", "Callers   *)
(* still reject repeated/old observations and reset on gaps": a height is  *)
(* shown filtered only over scans of one undisturbed stretch, one for each *)
(* of the last seconds, that ends when the scan it is shown for was made.  *)
ShownIsOfOneStretch ==
    request # NoRequest /\ request.stage = "window" =>
      \A s \in Sensors : Shown(s) # <<>> =>
        LET frames == request.window.sensors[s].frames
        IN  /\ request.first[s] # NoAnchor /\ frames[1].age <= request.first[s]
            /\ Last(frames).age = request.page.scans[s].age
            /\ frames[1].age - Last(frames).age \in (Size - 2) * Second + 1 .. Duration - 1
            /\ \A i \in 1 .. Len(frames) - 1 : frames[i].age > frames[i + 1].age

(* "A burst must not move the first slot on every replacement": however    *)
(* the scans came before, Size of them exactly a second apart fill the     *)
(* window, so that a regular device is not kept waiting for good.          *)
SteadyStreamIsReady ==
    window # NoWindow => \A s \in Sensors :
        regular[s] = Size => Len(window.sensors[s].frames) = Size

(* A percentage that may raise an alarm rests on both sensors: each of     *)
(* them measured in Size seconds, one after the other and without a        *)
(* disturbance, before it is READY.  The first scan may be of the end of   *)
(* its second and the last of the beginning of its own.                    *)
FillNeedsBothSensors ==
    FillShown # NoHeight =>
      \A s \in Sensors : /\ first[s] # NoAnchor
                         /\ first[s] - latest.scans[s].age > (Size - 2) * Second

HeightsAreSound == ShownIsOfOneStretch /\ SteadyStreamIsReady /\ FillNeedsBothSensors
=============================================================================

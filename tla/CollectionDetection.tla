-------------------------- MODULE CollectionDetection -------------------------
(***************************************************************************)
(* Estimated collections (collection_detection_service.py): the tracker of *)
(* one source, stepped by the evaluation worker with each new observation  *)
(* of the height of the scrap, and the transitions it records.             *)
(*                                                                         *)
(* The tracker's time stamps are kept as the seconds between them and the  *)
(* last observation, up to the delay each is compared with.  An            *)
(* observation that is not newer than the last one changes nothing.        *)
(***************************************************************************)
EXTENDS Integers, FiniteSets, Sequences

CONSTANTS
    Heights,      \* representative or upper heights; even, so that midpoints are whole
    Band, Drop,   \* EDGE_V2_COLLECTION_STABLE_BAND_METERS, _DROP_METERS
    Steady,       \* EDGE_V2_COLLECTION_BASELINE_SECONDS
    Confirm,      \* EDGE_V2_COLLECTION_CONFIRM_SECONDS
    Settle,       \* collection_settle_seconds of the source's profile
    MaxGap,       \* MAX_GAP_SECONDS
    Scopes,       \* collection_scope: what the source, method and settings digest to
    MaxEpisodes   \* bound: detections

ASSUME CollectionAssumption ==
    /\ Heights \subseteq Nat /\ \A h \in Heights : h % 2 = 0
    /\ Heights # {} /\ IsFiniteSet(Heights)
    /\ Band \in Nat /\ Drop \in Nat /\ Band < Drop
    /\ Steady \in Nat \ {0} /\ Confirm \in Nat \ {0}
    /\ Settle \in Nat \ {0} /\ MaxGap \in Nat \ {0}
    /\ Scopes \subseteq Nat
    /\ MaxEpisodes \in Nat

VARIABLES
    scope,     \* the scope of the running configuration
    tracker,   \* the collection_tracker row
    log,       \* COLLECTION_DETECTED and COLLECTION_SETTLED transitions
    \* History of the observations since the last outage or change of scope:
    held,      \* held[l]: seconds since they have all been at least l - Band
    low,       \* low[l]: seconds since they have all been at most l
    proven,    \* the highest level that was held long enough, or was left over
    since      \* seconds since the first of them, or the last detection

history == <<held, low, proven, since>>
vars == <<scope, tracker, log, held, low, proven, since>>

Never == -1
None  == -1
Larger(a, b)  == IF a > b THEN a ELSE b
Smaller(a, b) == IF a < b THEN a ELSE b
(* A time stamp dt seconds later, seen up to a limit. *)
Later(age, dt, limit) == IF age = Never THEN Never ELSE Smaller(age + dt, limit)

NoRow == [phase |-> "none"]
Phases == {"BASELINING", "IDLE", "CANDIDATE", "COLLECTING"}

(* The heights within the band, the candidate for a baseline, and what the *)
(* end of an episode waits for.                                            *)
NoRun       == [since |-> Never, min |-> None, max |-> None]
NoReference == [since |-> Never, level |-> None, peak |-> None]
NoWait      == [quiet |-> Never, anchor |-> None, progress |-> Never]

RunFrom(h)       == [since |-> 0, min |-> h, max |-> h]
ReferenceFrom(h) == [since |-> 0, level |-> h, peak |-> h]
WaitFrom(h)      == [quiet |-> 0, anchor |-> h, progress |-> Never]

NewTracker ==
    [scope |-> scope, phase |-> "BASELINING", valid |-> TRUE, baseline |-> None,
     run |-> NoRun, candidate |-> Never, episode |-> 0, wait |-> NoWait,
     reference |-> NoReference]

(* The levels the history looks at. *)
Levels == 0 .. (CHOOSE h \in Heights : \A g \in Heights : g <= h) + Band

Detections == {i \in DOMAIN log : log[i].kind = "DETECTED"}

-----------------------------------------------------------------------------
(* The steps of `advance', each a change of the tracker or of a part of it. *)

Aged(t, dt) ==
    [t EXCEPT !.run.since = Later(@, dt, Steady), !.candidate = Later(@, dt, Confirm),
              !.wait = [quiet |-> Later(@.quiet, dt, Settle), anchor |-> @.anchor,
                        progress |-> Later(@.progress, dt, Confirm)],
              !.reference.since = Later(@, dt, Steady)]

(* Wrong on purpose: an outage is waited out. *)
Untouched(t) == [t EXCEPT !.valid = FALSE]

(* Wrong on purpose: an outage forgets the episode in progress. *)
Restarted(t) == [NewTracker EXCEPT !.scope = t.scope, !.valid = FALSE]

(* invalidate: an outage proves nothing; an episode in progress survives.  *)
Broken(t) ==
    LET broken == [t EXCEPT !.valid = FALSE, !.run = NoRun, !.candidate = Never,
                            !.wait = NoWait, !.reference = NoReference]
    IN IF t.phase = "COLLECTING" THEN broken
       ELSE [broken EXCEPT !.phase = "BASELINING", !.baseline = None]

(* The run of heights within the band. *)
Flat(t, h) ==
    LET lowest  == Smaller(t.run.min, h)
        highest == Larger(t.run.max, h)
    IN [t EXCEPT !.valid = TRUE,
          !.run = IF @.since = Never \/ highest - lowest > Band THEN RunFrom(h)
                  ELSE [since |-> @.since, min |-> lowest, max |-> highest]]

StableLongEnough(t) == t.run.since >= Steady
Midpoint(t) == (t.run.min + t.run.max) \div 2

(* sustained_reference: a level, and the peak seen since it is a candidate. *)
Referred(r, h) ==
    IF r.since = Never \/ h < r.peak - Band THEN ReferenceFrom(h)
    ELSE [r EXCEPT !.peak = Larger(@, h)]

(* Wrong on purpose: the peak is accepted instead of the level. *)
Peak(r) == IF r.since < Steady THEN None ELSE r.peak

(* The level that was supported for the whole interval. *)
Supported(r) == IF r.since < Steady THEN None ELSE r.level

NextReference(r, h) == IF r.since < Steady THEN r ELSE ReferenceFrom(h)

(* BASELINING -> IDLE *)
Baselined(t, supported) ==
    IF StableLongEnough(t) THEN [t EXCEPT !.baseline = Midpoint(t), !.phase = "IDLE"]
    ELSE IF supported # None THEN [t EXCEPT !.baseline = supported, !.phase = "IDLE"]
    ELSE t

(* In IDLE and CANDIDATE the baseline only rises. *)
Raised(t, supported, h) ==
    LET level == Larger(t.baseline, supported)
    IN [t EXCEPT !.baseline = IF h > level /\ StableLongEnough(t)
                              THEN Larger(level, Midpoint(t)) ELSE level]

(* Wrong on purpose: every sight of the drop starts it anew. *)
Renewed(t, h) ==
    IF t.baseline - h < Drop THEN [t EXCEPT !.candidate = Never, !.phase = "IDLE"]
    ELSE [t EXCEPT !.candidate = 0, !.phase = "CANDIDATE"]

(* IDLE -> CANDIDATE -> IDLE: the drop has lasted for some seconds, or ended. *)
Watched(t, h) ==
    IF t.baseline - h < Drop THEN [t EXCEPT !.candidate = Never, !.phase = "IDLE"]
    ELSE IF t.candidate = Never THEN [t EXCEPT !.candidate = 0, !.phase = "CANDIDATE"]
    ELSE t

(* Wrong on purpose: the first sight of a drop is a collection. *)
Dropped(t) == t.candidate # Never

Confirmed(t) == t.candidate >= Confirm

(* CANDIDATE -> COLLECTING *)
Detected(t, h) ==
    [t EXCEPT !.phase = "COLLECTING", !.episode = Len(log) + 1, !.wait = WaitFrom(h),
              !.reference = NoReference, !.run = RunFrom(h)]

(* COLLECTING: a further drop that lasts restarts the wait; a rise only    *)
(* raises what it is measured from.                                        *)
Progressed(t, h) ==
    LET w == IF t.wait.quiet = Never \/ t.wait.anchor = None
             THEN [quiet |-> 0, anchor |-> h, progress |-> t.wait.progress] ELSE t.wait
        anchor == IF h > w.anchor /\ StableLongEnough(t)
                  THEN Larger(w.anchor, Midpoint(t)) ELSE w.anchor
        dropping == IF w.progress = Never THEN 0 ELSE w.progress
    IN [t EXCEPT !.wait =
          IF anchor - h < Band
          THEN [quiet |-> w.quiet, anchor |-> anchor, progress |-> Never]
          ELSE IF dropping >= Confirm THEN WaitFrom(h)
          ELSE [quiet |-> w.quiet, anchor |-> anchor, progress |-> dropping]]

Quiet(t) == t.wait.progress = Never /\ t.wait.quiet >= Settle

(* Wrong on purpose: the episode is kept in IDLE. *)
Lingering(t) ==
    [t EXCEPT !.phase = "IDLE", !.baseline = Midpoint(t), !.candidate = Never,
              !.wait = NoWait, !.reference = NoReference]

(* COLLECTING -> IDLE: what is left is the next baseline. *)
Settled(t) ==
    [t EXCEPT !.phase = "IDLE", !.baseline = Midpoint(t), !.episode = 0,
              !.candidate = Never, !.wait = NoWait, !.reference = NoReference]

-----------------------------------------------------------------------------
(* The worker (process_collection_source); row and transitions are one commit. *)

(* Wrong on purpose: the tracker of another scope goes on. *)
Continued(dt) ==
    IF tracker = NoRow THEN NewTracker
    ELSE IF dt > MaxGap THEN Broken(tracker)
    ELSE Aged(tracker, dt)

(* The stored tracker, unless it is of another scope; an outage first. *)
Resumed(dt) ==
    IF tracker = NoRow \/ tracker.scope # scope THEN NewTracker
    ELSE IF dt > MaxGap THEN Broken(tracker)
    ELSE Aged(tracker, dt)

(* With the observation. *)
Seen(h, dt) == Flat(Resumed(dt), h)

(* The candidate for the baseline that supports the tracker's observation; *)
(* in COLLECTING none is looked for.                                       *)
Reference(h, dt) == Referred(Seen(h, dt).reference, h)

Prepared(h, dt) ==
    [Seen(h, dt) EXCEPT !.reference = NextReference(Reference(h, dt), h)]

Watchful(h, dt) == Watched(Raised(Prepared(h, dt), Supported(Reference(h, dt)), h), h)

Transition(kind, episode) == [kind |-> kind, episode |-> episode, scope |-> scope]

(* History: what an observation tells, and what is left of an episode.     *)
Noted(kind, h, dt) ==
    LET interrupted == tracker = NoRow \/ tracker.scope # scope \/ dt > MaxGap
        Lasting(ages, l, still, limit) ==
            IF ~still THEN Never
            ELSE IF interrupted \/ ages[l] = Never THEN 0
            ELSE Later(ages[l], dt, limit)
        carried == IF kind = "SETTLED" THEN h + Band \div 2
                   ELSE IF interrupted THEN None ELSE proven
        shown == {l \in Levels : held'[l] >= Steady} \cup {carried}
    IN /\ held' = [l \in Levels |-> Lasting(held, l, h >= l - Band, Steady)]
       /\ low' = [l \in Levels |-> Lasting(low, l, h <= l, Confirm)]
       /\ proven' = CHOOSE l \in shown : \A m \in shown : m <= l
       /\ since' = IF kind = "DETECTED" \/ interrupted \/ since = Never THEN 0
                   ELSE Later(since, dt, Settle)

Forgotten ==
    /\ held' = [l \in Levels |-> Never] /\ low' = [l \in Levels |-> Never]
    /\ proven' = None /\ since' = Never

(* A valid observation at height h, dt seconds after the last one, finds   *)
(* the tracker in the phase it is in.                                      *)
Baselines(h, dt) ==
    /\ Seen(h, dt).phase = "BASELINING"
    /\ tracker' = Baselined(Prepared(h, dt), Supported(Reference(h, dt)))
    /\ Noted("none", h, dt) /\ UNCHANGED log

Watches(h, dt) ==
    /\ Seen(h, dt).phase \in {"IDLE", "CANDIDATE"} /\ ~Confirmed(Watchful(h, dt))
    /\ tracker' = Watchful(h, dt)
    /\ Noted("none", h, dt) /\ UNCHANGED log

Detects(h, dt) ==
    /\ Seen(h, dt).phase \in {"IDLE", "CANDIDATE"} /\ Confirmed(Watchful(h, dt))
    /\ Cardinality(Detections) < MaxEpisodes
    /\ tracker' = Detected(Watchful(h, dt), h)
    /\ log' = Append(log, Transition("DETECTED", tracker'.episode))
    /\ Noted("DETECTED", h, dt)

Collects(h, dt) ==
    LET t == Progressed(Seen(h, dt), h)
    IN /\ t.phase = "COLLECTING" /\ ~Quiet(t)
       /\ tracker' = t
       /\ Noted("none", h, dt) /\ UNCHANGED log

Settles(h, dt) ==
    LET t == Progressed(Seen(h, dt), h)
    IN /\ t.phase = "COLLECTING" /\ Quiet(t)
       /\ tracker' = Settled(t)
       /\ log' = Append(log, Transition("SETTLED", t.episode))
       /\ Noted("SETTLED", h, dt)

(* A new observation.  Without a method or a drop there is no scope.       *)
Process(h, dt) ==
    /\ scope # None /\ UNCHANGED scope
    /\ \/ Baselines(h, dt) \/ Watches(h, dt) \/ Detects(h, dt)
       \/ Collects(h, dt) \/ Settles(h, dt)

(* The input is missing, stale or not ready: only the tracker of the       *)
(* current scope hears of it, and only once.                               *)
Invalid ==
    /\ tracker # NoRow /\ tracker.scope = scope /\ tracker.valid
    /\ tracker' = Broken(tracker)
    /\ Forgotten /\ UNCHANGED <<scope, log>>

(* The source, the method of the observations or the settings change. *)
Rescope(s) ==
    /\ s # scope /\ scope' = s
    /\ UNCHANGED <<tracker, log, history>>

Init ==
    /\ scope \in Scopes
    /\ tracker = NoRow /\ log = <<>>
    /\ held = [l \in Levels |-> Never] /\ low = [l \in Levels |-> Never]
    /\ proven = None /\ since = Never

Next ==
    \/ \E h \in Heights, dt \in 1 .. MaxGap + 1 : Process(h, dt)
    \/ Invalid
    \/ \E s \in Scopes \cup {None} : Rescope(s)

Spec == Init /\ [][Next]_vars

-----------------------------------------------------------------------------
Ages(limit) == -1 .. limit

Trackers ==
    [scope : Scopes, phase : Phases, valid : BOOLEAN, baseline : Levels \cup {None},
     run : [since : Ages(Steady), min : Heights \cup {None}, max : Heights \cup {None}],
     candidate : Ages(Confirm), episode : 0 .. 2 * MaxEpisodes,
     wait : [quiet : Ages(Settle), anchor : Levels \cup {None}, progress : Ages(Confirm)],
     reference : [since : Ages(Steady), level : Heights \cup {None},
                  peak : Heights \cup {None}]]

(* Type invariant of the tracker, of the log of transitions and of the     *)
(* history; a baseline and an episode are there in the phases that use     *)
(* them (the assertion of `advance').                                      *)
TypeOK ==
    /\ scope \in Scopes \cup {None}
    /\ tracker \in {NoRow} \cup Trackers
    /\ tracker # NoRow =>
        /\ tracker.phase # "BASELINING" => tracker.baseline # None
        /\ tracker.phase = "COLLECTING" <=> tracker.episode # 0
    /\ log \in Seq([kind : {"DETECTED", "SETTLED"}, episode : Nat, scope : Scopes])
    /\ held \in [Levels -> Ages(Steady)] /\ low \in [Levels -> Ages(Confirm)]
    /\ proven \in Levels \cup {None} /\ since \in Ages(Settle)

Recorded(kind) == log' # log /\ log'[Len(log')].kind = kind

(* A collection is detected only after the surface has been for            *)
(* CONFIRM_SECONDS, in one unbroken run of observations, at least the drop *)
(* below a level it had held for BASELINE_SECONDS (or that an episode left *)
(* behind): no spike and no outage makes one (sustained_reference,         *)
(* invalidate).                                                            *)
DetectionsAreSustained ==
    [][Recorded("DETECTED") =>
         /\ proven' - Drop \in Levels
         /\ low'[proven' - Drop] >= Confirm]_vars

(* And none is missed: while no episode is open, the surface has not been  *)
(* that far below the baseline for that long, whatever the baseline was    *)
(* when it fell.                                                           *)
NoDropIsMissed ==
    (tracker # NoRow /\ tracker.phase \in {"IDLE", "CANDIDATE"}) =>
        (tracker.baseline - Drop \in Levels => low[tracker.baseline - Drop] < Confirm)

(* An episode is settled only after collection_settle_seconds of           *)
(* observations without an outage since it was detected: the time of an    *)
(* outage is never quiet time.                                             *)
OutagesAreNotQuiet == [][Recorded("SETTLED") => since' >= Settle]_vars

(* An open episode survives outages and restarts of the worker: it ends by *)
(* the one COLLECTION_SETTLED that names it, or when the scope of the      *)
(* tracker changes.                                                        *)
EpisodesAreRemembered ==
    [][(tracker # NoRow /\ tracker.phase = "COLLECTING") =>
         \/ tracker'.scope # tracker.scope
         \/ tracker'.phase = "COLLECTING" /\ tracker'.episode = tracker.episode
         \/ log' = Append(log, [kind |-> "SETTLED", episode |-> tracker.episode,
                                scope |-> tracker.scope])]_vars

(* Every settlement settles a detection of its own scope that came before  *)
(* it, and no detection is settled twice or overtaken within its scope     *)
(* while it is open.                                                       *)
SettlementsPair ==
    /\ \A j \in DOMAIN log : log[j].kind = "SETTLED" =>
        LET i == log[j].episode
        IN /\ i \in Detections /\ i < j /\ log[i].scope = log[j].scope
           /\ \A k \in DOMAIN log \ {j} : ~(log[k].kind = "SETTLED" /\ log[k].episode = i)
    /\ (tracker # NoRow /\ tracker.phase = "COLLECTING") =>
        \A k \in DOMAIN log : log[k].scope = tracker.scope => k <= tracker.episode
=============================================================================

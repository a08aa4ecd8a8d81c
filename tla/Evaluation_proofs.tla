-------------------------- MODULE Evaluation_proofs --------------------------
(***************************************************************************)
(* Theorems about what the evaluation worker derives from a device's data: *)
(* CollectionDetection, for every band, drop and delay, for any heights    *)
(* and any number of episodes; ActiveHealth, for any reports, clocks and   *)
(* limits; and HeightWindow, for windows of any size, any scans of any     *)
(* sensors and any number of readers' requests.                            *)
(***************************************************************************)
EXTENDS CollectionDetection, ActiveHealth, HeightWindow, LeastNumber, TLAPS

USE CollectionAssumption DEF CollectionAssumption

(* A tracker as far as the theorems need its type. *)
Run       == [since : Int, min : Int, max : Int]
Waiting   == [quiet : Int, anchor : Int, progress : Int]
Candidate == [since : Int, level : Int, peak : Int]

Row ==
    [scope : Nat, phase : Phases, valid : BOOLEAN, baseline : Int, run : Run,
     candidate : Int, episode : Nat, wait : Waiting, reference : Candidate]

(* What the steps of `advance' leave alone. *)
SameEpisode(t, u) == t.scope = u.scope /\ t.episode = u.episode

-----------------------------------------------------------------------------
(* The steps of `advance': types, phases and quiet times. *)

LEMMA LaterType ==
    ASSUME NEW age \in Int, NEW dt \in Nat, NEW limit \in Nat
    PROVE  Later(age, dt, limit) \in Int
BY DEF Later, Never, Smaller

LEMMA PartTypes ==
    /\ NoRun \in Run /\ NoWait \in Waiting /\ NoReference \in Candidate
    /\ \A h \in Nat : /\ RunFrom(h) \in Run
                      /\ WaitFrom(h) \in Waiting /\ WaitFrom(h).quiet = 0
                      /\ ReferenceFrom(h) \in Candidate
    /\ NoWait.quiet = Never
    /\ Never \in Int /\ None \in Int
BY DEF NoRun, NoWait, NoReference, RunFrom, WaitFrom, ReferenceFrom,
       Run, Waiting, Candidate, None, Never

LEMMA NewRow ==
    ASSUME scope \in Nat
    PROVE  NewTracker \in Row /\ NewTracker.phase = "BASELINING"
           /\ NewTracker.scope = scope
BY PartTypes DEF NewTracker, Row, Phases, None, Never

LEMMA AgedRow ==
    ASSUME NEW t \in Row, NEW dt \in Nat
    PROVE  /\ Aged(t, dt) \in Row
           /\ Aged(t, dt).phase = t.phase
           /\ Aged(t, dt).wait.quiet = Later(t.wait.quiet, dt, Settle)
           /\ SameEpisode(Aged(t, dt), t)
<1> DEFINE run == [t.run EXCEPT !.since = Later(@, dt, Steady)]
           wait == [quiet |-> Later(t.wait.quiet, dt, Settle), anchor |-> t.wait.anchor,
                    progress |-> Later(t.wait.progress, dt, Confirm)]
           reference == [t.reference EXCEPT !.since = Later(@, dt, Steady)]
           candidate == Later(t.candidate, dt, Confirm)
<1>1. t.run \in Run /\ t.wait \in Waiting /\ t.reference \in Candidate /\ t.candidate \in Int
  BY DEF Row
<1>2. run \in Run
  BY <1>1, LaterType DEF Run
<1>3. wait \in Waiting /\ wait.quiet = Later(t.wait.quiet, dt, Settle)
  BY <1>1, LaterType DEF Waiting
<1>4. reference \in Candidate
  BY <1>1, LaterType DEF Candidate
<1>5. candidate \in Int
  BY <1>1, LaterType
<1>6. Aged(t, dt) = [t EXCEPT !.run = run, !.candidate = candidate, !.wait = wait,
                              !.reference = reference]
  BY <1>1 DEF Aged, Row
<1> HIDE DEF run, wait, reference, candidate
<1> QED
  BY <1>2, <1>3, <1>4, <1>5, <1>6 DEF Row, SameEpisode

LEMMA BrokenRow ==
    ASSUME NEW t \in Row
    PROVE  /\ Broken(t) \in Row
           /\ Broken(t).phase = IF t.phase = "COLLECTING" THEN "COLLECTING"
                                ELSE "BASELINING"
           /\ Broken(t).wait.quiet = Never
           /\ SameEpisode(Broken(t), t)
<1> DEFINE broken == [t EXCEPT !.valid = FALSE, !.run = NoRun, !.candidate = Never,
                               !.wait = NoWait, !.reference = NoReference]
           none == None
           new == [broken EXCEPT !.phase = "BASELINING", !.baseline = none]
<1>1. broken \in Row /\ broken.phase = t.phase /\ broken.wait = NoWait
      /\ SameEpisode(broken, t)
  BY PartTypes DEF Row, SameEpisode
<1>2. Broken(t) = IF t.phase = "COLLECTING" THEN broken ELSE new
  BY DEF Broken
<1>3. none \in Int
  BY PartTypes
<1> HIDE DEF broken, none
<1>4. new \in Row /\ new.phase = "BASELINING" /\ new.wait = broken.wait
      /\ SameEpisode(new, broken)
  BY <1>1, <1>3 DEF Row, Phases, SameEpisode
<1> HIDE DEF new
<1> QED
  BY <1>1, <1>2, <1>4, PartTypes DEF SameEpisode

LEMMA FlatRow ==
    ASSUME NEW t \in Row, NEW h \in Nat
    PROVE  /\ Flat(t, h) \in Row
           /\ Flat(t, h).phase = t.phase
           /\ Flat(t, h).wait = t.wait
           /\ SameEpisode(Flat(t, h), t)
<1> DEFINE run == IF t.run.since = Never
                     \/ Larger(t.run.max, h) - Smaller(t.run.min, h) > Band
                  THEN RunFrom(h)
                  ELSE [since |-> t.run.since, min |-> Smaller(t.run.min, h),
                        max |-> Larger(t.run.max, h)]
<1>1. run \in Run
  BY PartTypes DEF Row, Run, Larger, Smaller
<1>2. Flat(t, h) = [t EXCEPT !.valid = TRUE, !.run = run]
  BY DEF Flat, Row
<1> HIDE DEF run
<1> QED
  BY <1>1, <1>2 DEF Row, SameEpisode

LEMMA MidpointType ==
    ASSUME NEW t \in Row
    PROVE  Midpoint(t) \in Int
BY DEF Midpoint, Row, Run

LEMMA ReferenceTypes ==
    ASSUME NEW r \in Candidate, NEW h \in Nat
    PROVE  /\ Referred(r, h) \in Candidate
           /\ NextReference(r, h) \in Candidate
           /\ Supported(r) \in Int
BY PartTypes DEF Referred, NextReference, Supported, Candidate, Larger, None

LEMMA BaselinedRow ==
    ASSUME NEW t \in Row, NEW supported \in Int, t.phase = "BASELINING"
    PROVE  /\ Baselined(t, supported) \in Row
           /\ Baselined(t, supported).phase \in {"BASELINING", "IDLE"}
           /\ SameEpisode(Baselined(t, supported), t)
<1>1. Midpoint(t) \in Int
  BY MidpointType
<1> QED
  BY <1>1 DEF Baselined, Row, Phases, SameEpisode

LEMMA RaisedRow ==
    ASSUME NEW t \in Row, NEW supported \in Int, NEW h \in Nat
    PROVE  /\ Raised(t, supported, h) \in Row
           /\ Raised(t, supported, h).phase = t.phase
           /\ SameEpisode(Raised(t, supported, h), t)
<1> DEFINE level == Larger(t.baseline, supported)
           baseline == IF h > level /\ StableLongEnough(t)
                       THEN Larger(level, Midpoint(t)) ELSE level
<1>1. baseline \in Int
  BY MidpointType DEF Larger, Row
<1>2. Raised(t, supported, h) = [t EXCEPT !.baseline = baseline]
  BY DEF Raised
<1> HIDE DEF baseline
<1> QED
  BY <1>1, <1>2 DEF Row, SameEpisode

LEMMA WatchedRow ==
    ASSUME NEW t \in Row, NEW h \in Nat, t.phase \in {"IDLE", "CANDIDATE"}
    PROVE  /\ Watched(t, h) \in Row
           /\ Watched(t, h).phase \in {"IDLE", "CANDIDATE"}
           /\ SameEpisode(Watched(t, h), t)
<1>1. "IDLE" \in Phases /\ "CANDIDATE" \in Phases /\ 0 \in Int
  BY DEF Phases
<1>2. CASE t.baseline - h < Drop
  <2>1. Watched(t, h) = [t EXCEPT !.candidate = Never, !.phase = "IDLE"]
    BY <1>2 DEF Watched
  <2> QED
    BY <2>1, <1>1, PartTypes DEF Row, SameEpisode
<1>3. CASE ~(t.baseline - h < Drop) /\ t.candidate = Never
  <2>1. Watched(t, h) = [t EXCEPT !.candidate = 0, !.phase = "CANDIDATE"]
    BY <1>3 DEF Watched
  <2> QED
    BY <2>1, <1>1 DEF Row, SameEpisode
<1>4. CASE ~(t.baseline - h < Drop) /\ t.candidate # Never
  BY <1>4 DEF Watched, SameEpisode
<1> QED
  BY <1>2, <1>3, <1>4

LEMMA DetectedRow ==
    ASSUME NEW t \in Row, NEW h \in Nat, Len(log) \in Nat
    PROVE  /\ Detected(t, h) \in Row
           /\ Detected(t, h).phase = "COLLECTING"
           /\ Detected(t, h).wait.quiet = 0
           /\ Detected(t, h).scope = t.scope
           /\ Detected(t, h).episode = Len(log) + 1
<1>1. Len(log) + 1 \in Nat /\ "COLLECTING" \in Phases
  BY DEF Phases
<1> QED
  BY <1>1, PartTypes DEF Detected, Row

LEMMA ProgressedRow ==
    ASSUME NEW t \in Row, NEW h \in Nat
    PROVE  /\ Progressed(t, h) \in Row
           /\ Progressed(t, h).phase = t.phase
           /\ Progressed(t, h).wait.quiet \in {0, t.wait.quiet}
           /\ Progressed(t, h).wait.quiet # Never
           /\ SameEpisode(Progressed(t, h), t)
<1> DEFINE w == IF t.wait.quiet = Never \/ t.wait.anchor = None
                THEN [quiet |-> 0, anchor |-> h, progress |-> t.wait.progress] ELSE t.wait
           anchor == IF h > w.anchor /\ StableLongEnough(t)
                     THEN Larger(w.anchor, Midpoint(t)) ELSE w.anchor
           dropping == IF w.progress = Never THEN 0 ELSE w.progress
           wait == IF anchor - h < Band
                   THEN [quiet |-> w.quiet, anchor |-> anchor, progress |-> Never]
                   ELSE IF dropping >= Confirm THEN WaitFrom(h)
                   ELSE [quiet |-> w.quiet, anchor |-> anchor, progress |-> dropping]
<1>1. w \in Waiting /\ w.quiet \in {0, t.wait.quiet} /\ w.quiet # Never
  <2>1. t.wait \in Waiting /\ 0 # Never
    BY DEF Row, Never
  <2>2. CASE t.wait.quiet = Never \/ t.wait.anchor = None
    <3> DEFINE fresh == [quiet |-> 0, anchor |-> h, progress |-> t.wait.progress]
    <3>1. fresh \in Waiting /\ fresh.quiet = 0
      BY <2>1 DEF Waiting
    <3>2. w = fresh
      BY <2>2
    <3> HIDE DEF fresh, w
    <3> QED
      BY <2>1, <3>1, <3>2
  <2>3. CASE ~(t.wait.quiet = Never \/ t.wait.anchor = None)
    BY <2>1, <2>3
  <2> QED
    BY <2>2, <2>3
<1> HIDE DEF w
<1>2. anchor \in Int /\ dropping \in Int
  BY <1>1, MidpointType DEF Waiting, Larger
<1> HIDE DEF anchor, dropping
<1>3. wait \in Waiting /\ wait.quiet \in {0, w.quiet}
  BY <1>1, <1>2, PartTypes DEF Waiting, Never
<1>4. Progressed(t, h) = [t EXCEPT !.wait = wait]
  BY DEF Progressed, w, anchor, dropping
<1> HIDE DEF wait
<1> QED
  BY <1>1, <1>3, <1>4 DEF Row, SameEpisode, Never

LEMMA SettledRow ==
    ASSUME NEW t \in Row
    PROVE  /\ Settled(t) \in Row
           /\ Settled(t).phase = "IDLE"
           /\ Settled(t).scope = t.scope
           /\ Settled(t).episode = 0
<1>1. Midpoint(t) \in Int /\ "IDLE" \in Phases /\ 0 \in Nat
  BY MidpointType DEF Phases
<1> QED
  BY <1>1, PartTypes DEF Settled, Row

-----------------------------------------------------------------------------
(* The inductive invariant. *)

Transitions == [kind : {"DETECTED", "SETTLED"}, episode : Nat, scope : Nat]

Collecting == tracker # NoRow /\ tracker.phase = "COLLECTING"

Shape ==
    /\ scope \in Scopes \cup {None}
    /\ tracker \in {NoRow} \cup Row
    /\ log \in Seq(Transitions)
    /\ since \in Int /\ since >= Never

(* The time without a further drop passed while there were observations. *)
QuietIsSeen == Collecting => tracker.wait.quiet >= Never /\ tracker.wait.quiet <= since

(* The open episode is the last detection of its scope, and not settled. *)
OpenIsDetected ==
    Collecting =>
        /\ tracker.episode \in DOMAIN log
        /\ log[tracker.episode].kind = "DETECTED"
        /\ log[tracker.episode].scope = tracker.scope
        /\ \A k \in DOMAIN log :
              /\ log[k].kind = "SETTLED" => log[k].episode # tracker.episode
              /\ log[k].scope = tracker.scope => k <= tracker.episode

Paired ==
    \A j \in DOMAIN log : log[j].kind = "SETTLED" =>
        /\ log[j].episode \in DOMAIN log
        /\ log[log[j].episode].kind = "DETECTED"
        /\ log[j].episode < j
        /\ log[log[j].episode].scope = log[j].scope
        /\ \A k \in DOMAIN log \ {j} :
              ~(log[k].kind = "SETTLED" /\ log[k].episode = log[j].episode)

CInv == Shape /\ QuietIsSeen /\ OpenIsDetected /\ Paired

LEMMA Initially == Init => CInv
BY DEF Init, CInv, Shape, QuietIsSeen, OpenIsDetected, Paired, Collecting, Never, None

(* What an observation meets. *)
LEMMA SeenRow ==
    ASSUME Shape, scope # None, NEW h \in Heights, NEW dt \in 1 .. MaxGap + 1
    PROVE  /\ Seen(h, dt) \in Row
           /\ Seen(h, dt).scope = scope
           /\ Seen(h, dt).phase = "COLLECTING" =>
                /\ Collecting /\ SameEpisode(Seen(h, dt), tracker)
                /\ Seen(h, dt).wait.quiet =
                      IF dt > MaxGap THEN Never ELSE Later(tracker.wait.quiet, dt, Settle)
           /\ (Collecting /\ tracker.scope = scope) => Seen(h, dt).phase = "COLLECTING"
<1>1. scope \in Nat /\ h \in Nat /\ dt \in Nat
  BY DEF Shape
<1>2. CASE tracker = NoRow \/ tracker.scope # scope
  <2>1. Resumed(dt) = NewTracker
    BY <1>2 DEF Resumed
  <2>2. /\ Resumed(dt) \in Row /\ Resumed(dt).phase = "BASELINING"
        /\ Resumed(dt).scope = scope
    BY <1>1, <2>1, NewRow
  <2>3. /\ Seen(h, dt) \in Row /\ Seen(h, dt).phase = "BASELINING"
        /\ Seen(h, dt).scope = scope
    BY <1>1, <2>2, FlatRow DEF Seen, SameEpisode
  <2> QED
    BY <1>2, <2>3 DEF Collecting
<1>3. CASE ~(tracker = NoRow \/ tracker.scope # scope)
  <2>1. tracker \in Row /\ tracker.scope = scope /\ tracker # NoRow
    BY <1>3 DEF Shape
  <2>2. CASE dt > MaxGap
    <3>1. Resumed(dt) = Broken(tracker)
      BY <1>3, <2>2 DEF Resumed
    <3>2. /\ Resumed(dt) \in Row /\ SameEpisode(Resumed(dt), tracker)
          /\ Resumed(dt).wait.quiet = Never
          /\ Resumed(dt).phase = IF tracker.phase = "COLLECTING" THEN "COLLECTING"
                                 ELSE "BASELINING"
      BY <2>1, <3>1, BrokenRow
    <3>3. /\ Seen(h, dt) \in Row /\ Seen(h, dt).phase = Resumed(dt).phase
          /\ Seen(h, dt).wait = Resumed(dt).wait
          /\ SameEpisode(Seen(h, dt), Resumed(dt))
      BY <1>1, <3>2, FlatRow DEF Seen
    <3> QED
      BY <2>1, <2>2, <3>2, <3>3 DEF Collecting, SameEpisode
  <2>3. CASE ~(dt > MaxGap)
    <3>1. Resumed(dt) = Aged(tracker, dt)
      BY <1>3, <2>3 DEF Resumed
    <3>2. /\ Resumed(dt) \in Row /\ SameEpisode(Resumed(dt), tracker)
          /\ Resumed(dt).wait.quiet = Later(tracker.wait.quiet, dt, Settle)
          /\ Resumed(dt).phase = tracker.phase
      BY <1>1, <2>1, <3>1, AgedRow
    <3>3. /\ Seen(h, dt) \in Row /\ Seen(h, dt).phase = Resumed(dt).phase
          /\ Seen(h, dt).wait = Resumed(dt).wait
          /\ SameEpisode(Seen(h, dt), Resumed(dt))
      BY <1>1, <3>2, FlatRow DEF Seen
    <3> QED
      BY <2>1, <2>3, <3>2, <3>3 DEF Collecting, SameEpisode
  <2> QED
    BY <2>2, <2>3
<1> QED
  BY <1>2, <1>3

(* The tracker outside of an episode, with the candidate for its baseline. *)
LEMMA PreparedRow ==
    ASSUME Shape, scope # None, NEW h \in Heights, NEW dt \in 1 .. MaxGap + 1
    PROVE  /\ Prepared(h, dt) \in Row
           /\ Prepared(h, dt).phase = Seen(h, dt).phase
           /\ Prepared(h, dt).scope = scope
           /\ Supported(Reference(h, dt)) \in Int
<1>1. Seen(h, dt) \in Row /\ Seen(h, dt).scope = scope /\ h \in Nat
  BY SeenRow
<1>2. Seen(h, dt).reference \in Candidate
  BY <1>1 DEF Row
<1>3. Reference(h, dt) \in Candidate
  BY <1>1, <1>2, ReferenceTypes DEF Reference
<1> DEFINE next == NextReference(Reference(h, dt), h)
<1>4. next \in Candidate /\ Supported(Reference(h, dt)) \in Int
  BY <1>1, <1>3, ReferenceTypes
<1>5. Prepared(h, dt) = [Seen(h, dt) EXCEPT !.reference = next]
  BY DEF Prepared
<1> HIDE DEF next
<1> DEFINE s == Seen(h, dt)
<1> HIDE DEF s
<1>6. s \in Row /\ s.scope = scope
  BY <1>1 DEF s
<1>7. [s EXCEPT !.reference = next] \in Row /\ [s EXCEPT !.reference = next].phase = s.phase
      /\ [s EXCEPT !.reference = next].scope = s.scope
  BY <1>4, <1>6 DEF Row
<1> QED
  BY <1>4, <1>5, <1>6, <1>7 DEF s

LEMMA WatchfulRow ==
    ASSUME Shape, scope # None, NEW h \in Heights, NEW dt \in 1 .. MaxGap + 1,
           Seen(h, dt).phase \in {"IDLE", "CANDIDATE"}
    PROVE  /\ Watchful(h, dt) \in Row
           /\ Watchful(h, dt).phase \in {"IDLE", "CANDIDATE"}
           /\ Watchful(h, dt).scope = scope
<1> DEFINE raised == Raised(Prepared(h, dt), Supported(Reference(h, dt)), h)
<1>1. /\ raised \in Row /\ raised.phase \in {"IDLE", "CANDIDATE"} /\ raised.scope = scope
      /\ h \in Nat
  <2>1. /\ Prepared(h, dt) \in Row /\ Prepared(h, dt).phase \in {"IDLE", "CANDIDATE"}
        /\ Prepared(h, dt).scope = scope /\ Supported(Reference(h, dt)) \in Int /\ h \in Nat
    BY PreparedRow
  <2> QED
    BY <2>1, RaisedRow DEF SameEpisode
<1>2. Watchful(h, dt) = Watched(raised, h)
  BY DEF Watchful
<1> HIDE DEF raised
<1> QED
  BY <1>1, <1>2, WatchedRow DEF SameEpisode

(* In an episode. *)
LEMMA ProgressedSeen ==
    ASSUME Shape, QuietIsSeen, scope # None, NEW h \in Heights, NEW dt \in 1 .. MaxGap + 1,
           NEW kind \in {"none", "SETTLED"}, Noted(kind, h, dt),
           Progressed(Seen(h, dt), h).phase = "COLLECTING"
    PROVE  /\ Progressed(Seen(h, dt), h) \in Row
           /\ Collecting /\ SameEpisode(Progressed(Seen(h, dt), h), tracker)
           /\ tracker.scope = scope
           /\ since' \in Nat
           /\ Progressed(Seen(h, dt), h).wait.quiet >= Never
           /\ Progressed(Seen(h, dt), h).wait.quiet <= since'
<1> DEFINE s == Seen(h, dt)
           u == Progressed(s, h)
<1>1. s \in Row /\ h \in Nat /\ dt \in Nat
  <2>1. s \in Row
    BY SeenRow
  <2> QED
    BY <2>1
<1>2. /\ u \in Row /\ u.phase = s.phase /\ u.wait.quiet \in {0, s.wait.quiet}
      /\ u.wait.quiet # Never /\ SameEpisode(u, s)
  BY <1>1, ProgressedRow
<1>3. /\ Collecting /\ SameEpisode(s, tracker) /\ s.scope = scope
      /\ s.wait.quiet = IF dt > MaxGap THEN Never ELSE Later(tracker.wait.quiet, dt, Settle)
  BY <1>2, SeenRow
<1>4. tracker \in Row /\ tracker.scope = scope /\ tracker # NoRow
  BY <1>3 DEF Shape, Collecting, SameEpisode
<1>5. tracker.wait.quiet \in Int /\ tracker.wait.quiet >= Never /\ tracker.wait.quiet <= since
      /\ since \in Int /\ since >= Never
  BY <1>3, <1>4 DEF QuietIsSeen, Shape, Row, Waiting
<1>6. since' = IF dt > MaxGap \/ since = Never THEN 0 ELSE Later(since, dt, Settle)
  BY <1>4 DEF Noted
<1>7. since' \in Nat /\ s.wait.quiet >= Never /\ s.wait.quiet <= since'
  <2>1. CASE dt > MaxGap
    BY <1>3, <1>6, <2>1 DEF Never
  <2>2. CASE ~(dt > MaxGap) /\ since = Never
    BY <1>3, <1>5, <1>6, <2>2 DEF Never, Later, Smaller
  <2>3. CASE ~(dt > MaxGap) /\ since # Never
    BY <1>1, <1>3, <1>5, <1>6, <2>3 DEF Never, Later, Smaller
  <2> QED
    BY <2>1, <2>2, <2>3
<1>8. u.wait.quiet >= Never /\ u.wait.quiet <= since'
  BY <1>2, <1>7 DEF Never
<1> QED
  BY <1>2, <1>3, <1>4, <1>7, <1>8 DEF s, u, SameEpisode

-----------------------------------------------------------------------------
(* The steps of Next, with what the action properties ask of each. *)

SettlesQuietly == Recorded("SETTLED") => since' >= Settle

Remembers ==
    Collecting =>
        \/ tracker'.scope # tracker.scope
        \/ tracker'.phase = "COLLECTING" /\ tracker'.episode = tracker.episode
        \/ log' = Append(log, [kind |-> "SETTLED", episode |-> tracker.episode,
                               scope |-> tracker.scope])

Good == CInv' /\ SettlesQuietly /\ Remembers

LEMMA SinceType ==
    ASSUME Shape, NEW kind, NEW h, NEW dt \in Nat, Noted(kind, h, dt)
    PROVE  since' \in Nat
<1>1. since \in Int /\ since >= Never
  BY DEF Shape
<1>2. since' = 0 \/ (since # Never /\ since' = Later(since, dt, Settle))
  BY DEF Noted
<1> QED
  BY <1>1, <1>2 DEF Later, Smaller, Never

LEMMA LogAppended ==
    ASSUME log \in Seq(Transitions), NEW e \in Transitions, log' = Append(log, e)
    PROVE  /\ log' \in Seq(Transitions)
           /\ Len(log) \in Nat /\ DOMAIN log = 1 .. Len(log)
           /\ Len(log') = Len(log) + 1 /\ DOMAIN log' = 1 .. Len(log) + 1
           /\ \A k \in DOMAIN log : log'[k] = log[k]
           /\ log'[Len(log) + 1] = e
           /\ log' # log
OBVIOUS

(* Outside of an episode, and still outside of it. *)
LEMMA Aside ==
    ASSUME CInv, scope # None, UNCHANGED <<scope, log>>,
           NEW h \in Heights, NEW dt \in 1 .. MaxGap + 1, Noted("none", h, dt),
           Seen(h, dt).phase # "COLLECTING",
           tracker' \in Row, tracker'.phase # "COLLECTING", tracker'.scope = scope
    PROVE  Good
<1>1. Shape'
  <2>1. since' \in Nat
    BY SinceType DEF CInv
  <2> QED
    BY <2>1 DEF CInv, Shape, Never
<1>2. QuietIsSeen' /\ OpenIsDetected'
  BY DEF QuietIsSeen, OpenIsDetected, Collecting
<1>3. Paired'
  BY DEF CInv, Paired
<1>4. SettlesQuietly
  BY DEF SettlesQuietly, Recorded
<1>5. Remembers
  BY SeenRow DEF CInv, Remembers
<1> QED
  BY <1>1, <1>2, <1>3, <1>4, <1>5 DEF CInv, Good

LEMMA BaselinesGood ==
    ASSUME CInv, scope # None, UNCHANGED scope,
           NEW h \in Heights, NEW dt \in 1 .. MaxGap + 1, Baselines(h, dt)
    PROVE  Good
<1>1. Shape
  BY DEF CInv
<1>2. /\ Prepared(h, dt) \in Row /\ Prepared(h, dt).phase = "BASELINING"
      /\ Prepared(h, dt).scope = scope /\ Supported(Reference(h, dt)) \in Int
  BY <1>1, PreparedRow DEF Baselines
<1>3. tracker' \in Row /\ tracker'.phase # "COLLECTING" /\ tracker'.scope = scope
  BY <1>2, BaselinedRow DEF Baselines, SameEpisode
<1>4. Noted("none", h, dt) /\ UNCHANGED log /\ Seen(h, dt).phase # "COLLECTING"
  BY DEF Baselines
<1> QED
  BY <1>3, <1>4, Aside

LEMMA WatchesGood ==
    ASSUME CInv, scope # None, UNCHANGED scope,
           NEW h \in Heights, NEW dt \in 1 .. MaxGap + 1, Watches(h, dt)
    PROVE  Good
<1>1. Shape /\ Seen(h, dt).phase \in {"IDLE", "CANDIDATE"}
  BY DEF CInv, Watches
<1>2. tracker' \in Row /\ tracker'.phase # "COLLECTING" /\ tracker'.scope = scope
  BY <1>1, WatchfulRow DEF Watches
<1>3. Noted("none", h, dt) /\ UNCHANGED log /\ Seen(h, dt).phase # "COLLECTING"
  BY <1>1 DEF Watches
<1> QED
  BY <1>2, <1>3, Aside

LEMMA DetectsGood ==
    ASSUME CInv, scope # None, UNCHANGED scope,
           NEW h \in Heights, NEW dt \in 1 .. MaxGap + 1, Detects(h, dt)
    PROVE  Good
<1>1. Shape /\ Paired /\ Seen(h, dt).phase \in {"IDLE", "CANDIDATE"} /\ h \in Nat
  BY DEF CInv, Detects
<1>2. Watchful(h, dt) \in Row /\ Watchful(h, dt).scope = scope
  BY <1>1, WatchfulRow
<1>3. Len(log) \in Nat /\ log \in Seq(Transitions) /\ scope \in Nat
  BY <1>1 DEF Shape
<1>4. tracker' = Detected(Watchful(h, dt), h)
  BY DEF Detects
<1>5. /\ tracker' \in Row /\ tracker'.phase = "COLLECTING" /\ tracker'.wait.quiet = 0
      /\ tracker'.scope = scope /\ tracker'.episode = Len(log) + 1
  BY <1>1, <1>2, <1>3, <1>4, DetectedRow
<1> DEFINE e == Transition("DETECTED", tracker'.episode)
<1>6. /\ e \in Transitions /\ e.kind = "DETECTED" /\ e.scope = scope
      /\ log' = Append(log, e)
  BY <1>3, <1>5 DEF Detects, Transition, Transitions
<1> HIDE DEF e
<1>7. /\ log' \in Seq(Transitions) /\ DOMAIN log = 1 .. Len(log)
      /\ Len(log') = Len(log) + 1 /\ DOMAIN log' = 1 .. Len(log) + 1
      /\ \A k \in DOMAIN log : log'[k] = log[k]
      /\ log'[Len(log) + 1] = e
  BY <1>3, <1>6, LogAppended
<1>8. since' \in Nat
  BY <1>1, SinceType DEF Detects
<1>9. Shape' /\ QuietIsSeen'
  BY <1>1, <1>5, <1>7, <1>8 DEF Shape, QuietIsSeen, Never
<1>10. OpenIsDetected'
  <2>1. \A k \in DOMAIN log : log[k].kind = "SETTLED" => log[k].episode <= Len(log)
    BY <1>1, <1>7 DEF Paired
  <2>2. ASSUME NEW k \in DOMAIN log'
        PROVE  /\ log'[k].kind = "SETTLED" => log'[k].episode # tracker'.episode
               /\ k <= tracker'.episode
    <3>1. CASE k \in DOMAIN log
      BY <1>3, <1>5, <1>7, <2>1, <3>1
    <3>2. CASE k = Len(log) + 1
      BY <1>3, <1>5, <1>6, <1>7, <3>2
    <3> QED
      BY <1>3, <1>7, <2>2, <3>1, <3>2
  <2> QED
    BY <1>3, <1>5, <1>6, <1>7, <2>2 DEF OpenIsDetected
<1>11. Paired'
  <2>1. ASSUME NEW j \in DOMAIN log', log'[j].kind = "SETTLED"
        PROVE  j \in DOMAIN log /\ log[j].kind = "SETTLED" /\ log'[j] = log[j]
    BY <1>3, <1>6, <1>7, <2>1
  <2> QED
    BY <1>1, <1>3, <1>7, <2>1 DEF Paired
<1>12. SettlesQuietly
  BY <1>6, <1>7 DEF SettlesQuietly, Recorded
<1>13. Remembers
  BY <1>1, <1>5, SeenRow DEF Remembers
<1> QED
  BY <1>9, <1>10, <1>11, <1>12, <1>13 DEF CInv, Good

LEMMA CollectsGood ==
    ASSUME CInv, scope # None, UNCHANGED scope,
           NEW h \in Heights, NEW dt \in 1 .. MaxGap + 1, Collects(h, dt)
    PROVE  Good
<1>1. /\ Shape /\ QuietIsSeen /\ OpenIsDetected /\ Paired
      /\ tracker' = Progressed(Seen(h, dt), h) /\ log' = log
      /\ tracker'.phase = "COLLECTING" /\ Noted("none", h, dt)
  BY DEF CInv, Collects
<1>2. /\ tracker' \in Row /\ Collecting /\ SameEpisode(tracker', tracker)
      /\ since' \in Nat /\ tracker'.wait.quiet >= Never /\ tracker'.wait.quiet <= since'
  BY <1>1, ProgressedSeen
<1>3. Shape' /\ QuietIsSeen'
  BY <1>1, <1>2 DEF Shape, QuietIsSeen, Never
<1>4. OpenIsDetected' /\ Paired'
  BY <1>1, <1>2 DEF OpenIsDetected, Paired, SameEpisode
<1>5. SettlesQuietly /\ Remembers
  BY <1>1, <1>2 DEF SettlesQuietly, Remembers, Recorded, SameEpisode
<1> QED
  BY <1>3, <1>4, <1>5 DEF CInv, Good

LEMMA SettlesGood ==
    ASSUME CInv, scope # None, UNCHANGED scope,
           NEW h \in Heights, NEW dt \in 1 .. MaxGap + 1, Settles(h, dt)
    PROVE  Good
<1> DEFINE t == Progressed(Seen(h, dt), h)
           e == Transition("SETTLED", t.episode)
<1>1. /\ Shape /\ QuietIsSeen /\ OpenIsDetected /\ Paired
      /\ tracker' = Settled(t) /\ log' = Append(log, e)
      /\ t.phase = "COLLECTING" /\ Noted("SETTLED", h, dt)
      /\ t.wait.quiet >= Settle
  BY DEF CInv, Settles, Quiet
<1>2. /\ t \in Row /\ Collecting /\ SameEpisode(t, tracker) /\ tracker.scope = scope
      /\ since' \in Nat /\ t.wait.quiet <= since'
  BY <1>1, ProgressedSeen
<1>3. tracker' \in Row /\ tracker'.phase = "IDLE"
  BY <1>1, <1>2, SettledRow
<1>4. log \in Seq(Transitions) /\ tracker \in Row /\ tracker.episode \in Nat /\ scope \in Nat
  BY <1>1, <1>2 DEF Shape, Row, Collecting
<1>5. /\ e = [kind |-> "SETTLED", episode |-> tracker.episode, scope |-> tracker.scope]
  BY <1>2 DEF Transition, SameEpisode
<1>6. t.wait.quiet \in Int
  BY <1>2 DEF Row, Waiting
<1> HIDE DEF t, e
<1>7. e \in Transitions /\ e.episode = tracker.episode /\ e.scope = tracker.scope
      /\ e.kind = "SETTLED"
  BY <1>2, <1>4, <1>5 DEF Transitions
<1>8. /\ log' \in Seq(Transitions) /\ DOMAIN log = 1 .. Len(log) /\ Len(log) \in Nat
      /\ Len(log') = Len(log) + 1 /\ DOMAIN log' = 1 .. Len(log) + 1
      /\ \A k \in DOMAIN log : log'[k] = log[k]
      /\ log'[Len(log) + 1] = e
  BY <1>1, <1>4, <1>7, LogAppended
<1>9. Shape' /\ QuietIsSeen' /\ OpenIsDetected'
  BY <1>1, <1>2, <1>3, <1>8
     DEF Shape, QuietIsSeen, OpenIsDetected, Collecting, Never
<1>10. Paired'
  <2>1. /\ tracker.episode \in DOMAIN log /\ log[tracker.episode].kind = "DETECTED"
        /\ log[tracker.episode].scope = tracker.scope
        /\ \A k \in DOMAIN log : log[k].kind = "SETTLED" => log[k].episode # tracker.episode
    BY <1>1, <1>2 DEF OpenIsDetected
  <2>2. ASSUME NEW j \in DOMAIN log', log'[j].kind = "SETTLED"
        PROVE  /\ log'[j].episode \in DOMAIN log'
               /\ log'[log'[j].episode].kind = "DETECTED"
               /\ log'[j].episode < j
               /\ log'[log'[j].episode].scope = log'[j].scope
               /\ \A k \in DOMAIN log' \ {j} :
                     ~(log'[k].kind = "SETTLED" /\ log'[k].episode = log'[j].episode)
    <3>1. CASE j \in DOMAIN log
      <4>1. log'[j] = log[j]
        BY <1>8, <3>1
      <4>2. /\ log[j].episode \in DOMAIN log /\ log[log[j].episode].kind = "DETECTED"
            /\ log[j].episode < j /\ log[log[j].episode].scope = log[j].scope
            /\ \A k \in DOMAIN log \ {j} :
                  ~(log[k].kind = "SETTLED" /\ log[k].episode = log[j].episode)
        BY <1>1, <2>2, <3>1, <4>1 DEF Paired
      <4>3. log'[log[j].episode] = log[log[j].episode]
        BY <1>8, <4>2
      <4>4. log[j].episode # tracker.episode
        BY <2>1, <2>2, <3>1, <4>1
      <4>5. ASSUME NEW k \in DOMAIN log' \ {j}
            PROVE  ~(log'[k].kind = "SETTLED" /\ log'[k].episode = log'[j].episode)
        <5>1. CASE k \in DOMAIN log
          BY <1>8, <4>1, <4>2, <5>1
        <5>2. CASE k = Len(log) + 1
          BY <1>7, <1>8, <4>1, <4>4, <5>2
        <5> QED
          BY <1>8, <5>1, <5>2
      <4>6. log[j].episode \in DOMAIN log'
        BY <1>8, <4>2
      <4> QED
        BY <4>1, <4>2, <4>3, <4>5, <4>6
    <3>2. CASE j = Len(log) + 1
      <4>1. log'[j] = e
        BY <1>8, <3>2
      <4>2. log'[tracker.episode] = log[tracker.episode]
        BY <1>8, <2>1
      <4>3. tracker.episode \in DOMAIN log' /\ tracker.episode < j
        BY <1>8, <2>1, <3>2
      <4>4. ASSUME NEW k \in DOMAIN log' \ {j}
            PROVE  ~(log'[k].kind = "SETTLED" /\ log'[k].episode = log'[j].episode)
        <5>1. k \in DOMAIN log /\ log'[k] = log[k]
          BY <1>8, <3>2
        <5> QED
          BY <1>7, <2>1, <4>1, <5>1
      <4> QED
        BY <1>7, <2>1, <4>1, <4>2, <4>3, <4>4
    <3> QED
      BY <1>8, <3>1, <3>2
  <2> QED
    BY <2>2 DEF Paired
<1>11. SettlesQuietly
  BY <1>1, <1>2, <1>6 DEF SettlesQuietly
<1>12. Remembers
  BY <1>1, <1>5 DEF Remembers
<1> QED
  BY <1>9, <1>10, <1>11, <1>12 DEF CInv, Good

LEMMA InvalidGood ==
    ASSUME CInv, Invalid
    PROVE  Good
<1>1. /\ tracker \in Row /\ tracker' = Broken(tracker) /\ since' = Never
      /\ UNCHANGED <<scope, log>>
  BY DEF CInv, Shape, Invalid, Forgotten
<1>2. /\ tracker' \in Row /\ SameEpisode(tracker', tracker) /\ tracker'.wait.quiet = Never
      /\ tracker'.phase = IF tracker.phase = "COLLECTING" THEN "COLLECTING" ELSE "BASELINING"
  BY <1>1, BrokenRow
<1>3. Collecting' <=> Collecting
  BY <1>1, <1>2 DEF Collecting, Invalid, NoRow
<1>4. Shape' /\ QuietIsSeen'
  BY <1>1, <1>2 DEF CInv, Shape, QuietIsSeen, Never
<1>5. OpenIsDetected' /\ Paired'
  BY <1>1, <1>2, <1>3 DEF CInv, OpenIsDetected, Paired, SameEpisode
<1>6. SettlesQuietly /\ Remembers
  BY <1>1, <1>2 DEF SettlesQuietly, Remembers, Recorded, SameEpisode, Collecting
<1> QED
  BY <1>4, <1>5, <1>6 DEF CInv, Good

LEMMA UnseenGood ==
    ASSUME CInv, UNCHANGED <<tracker, log, since>>, scope' \in Scopes \cup {None}
    PROVE  Good
BY DEF CInv, Shape, QuietIsSeen, OpenIsDetected, Paired, Collecting, Good,
       SettlesQuietly, Remembers, Recorded

LEMMA NextGood ==
    ASSUME CInv, [Next]_vars
    PROVE  Good
<1>1. ASSUME NEW h \in Heights, NEW dt \in 1 .. MaxGap + 1, Process(h, dt)
      PROVE  Good
  BY <1>1, BaselinesGood, WatchesGood, DetectsGood, CollectsGood, SettlesGood DEF Process
<1>2. CASE Invalid
  BY <1>2, InvalidGood
<1>3. ASSUME NEW s \in Scopes \cup {None}, Rescope(s)
      PROVE  Good
  BY <1>3, UnseenGood DEF Rescope, history
<1>4. CASE UNCHANGED vars
  BY <1>4, UnseenGood DEF vars, CInv, Shape
<1> QED
  BY <1>1, <1>2, <1>3, <1>4 DEF Next

-----------------------------------------------------------------------------
(* What the tracker knows of the heights, against the history of them.     *)

Interrupted(dt) == tracker = NoRow \/ tracker.scope # scope \/ dt > MaxGap

Watching == tracker # NoRow /\ tracker.phase \in {"IDLE", "CANDIDATE"}

(* All heights of the run are within the band, for as long as it lasts:    *)
(* the levels up to the band above the lowest have been held.              *)
RunHeld(run, ages) ==
    run.since # Never =>
        /\ run.since \in Nat /\ run.min \in Heights /\ run.max \in Heights
        /\ run.min <= run.max /\ run.max - run.min <= Band
        /\ \A l \in Levels : l - Band <= run.min => run.since <= ages[l]

(* So has the level that is a candidate for the baseline. *)
LevelHeld(r, ages) ==
    r.since # Never =>
        /\ r.since \in Nat /\ r.level \in Heights /\ r.peak \in Heights
        /\ r.level <= r.peak
        /\ \A l \in Levels : l <= r.level => r.since <= ages[l]

Histories ==
    /\ held \in [Levels -> Int] /\ low \in [Levels -> Int]
    /\ \A l \in Levels : held[l] >= Never /\ low[l] >= Never /\ low[l] <= Confirm
    /\ proven \in Levels \cup {None}

RunIsHeld == tracker # NoRow => RunHeld(tracker.run, held)

LevelIsHeld ==
    tracker # NoRow => /\ LevelHeld(tracker.reference, held)
                       /\ tracker.phase = "COLLECTING" => tracker.reference.since = Never

LowGrows == \A l, m \in Levels : l <= m => low[l] <= low[m]

(* The baseline is a level that was held long enough or left over. *)
BaselineIsProven == Watching => tracker.baseline \in Levels /\ tracker.baseline <= proven

(* The candidate is as old as the sight of the drop below the baseline,    *)
(* however the baseline has risen since: where it rises there is no drop.  *)
DropIsFollowed ==
    Watching =>
        /\ tracker.candidate = IF tracker.baseline - Drop \in Levels
                               THEN low[tracker.baseline - Drop] ELSE Never
        /\ tracker.candidate < Confirm

NothingBefore == (tracker # NoRow /\ tracker.phase = "BASELINING") => tracker.candidate = Never

HInv ==
    /\ Histories /\ LowGrows
    /\ RunIsHeld /\ LevelIsHeld /\ BaselineIsProven /\ DropIsFollowed /\ NothingBefore

LEMMA LevelsAre ==
    /\ Levels \subseteq Nat
    /\ \E n \in Nat : Levels = 0 .. n
    /\ \A h \in Heights, l \in Nat : l <= h + Band => l \in Levels
<1>1. PICK b \in Nat : \A g \in Heights : g <= b
  BY FiniteIsBounded
<1>2. \E h \in Heights : \A g \in Heights : g <= h
  BY <1>1, GreatestNat
<1> DEFINE top == CHOOSE h \in Heights : \A g \in Heights : g <= h
<1>3. top \in Heights /\ \A g \in Heights : g <= top
  BY <1>2
<1>4. Levels = 0 .. top + Band
  BY DEF Levels
<1> HIDE DEF top
<1>5. top \in Nat
  BY <1>3
<1>6. top + Band \in Nat
  BY <1>5
<1>7. ASSUME NEW h \in Heights, NEW l \in Nat, l <= h + Band PROVE l \in Levels
  <2>1. h \in Nat /\ h <= top
    BY <1>3
  <2> QED
    BY <1>4, <1>5, <1>7, <2>1
<1> QED
  BY <1>4, <1>6, <1>7

LEMMA LaterGrows ==
    ASSUME NEW a \in Int, NEW b \in Int, a >= Never, b >= Never, a <= b,
           NEW dt \in Nat, NEW limit \in Nat
    PROVE  /\ Later(a, dt, limit) <= Later(b, dt, limit)
           /\ Later(a, dt, limit) >= Never
           /\ Later(a, dt, limit) <= limit
           /\ a # Never => Later(a, dt, limit) \in Nat
BY DEF Later, Never, Smaller

LEMMA LaterStays ==
    ASSUME NEW a \in Int, a >= Never, NEW dt \in Nat, NEW limit \in Nat
    PROVE  /\ Later(a, dt, limit) \in Int
           /\ Later(a, dt, limit) >= Never
           /\ Later(a, dt, limit) <= limit
           /\ a # Never => Later(a, dt, limit) \in Nat
BY DEF Later, Never, Smaller

(* What the history notes of an observation.                               *)
LEMMA NotedAges ==
    ASSUME NEW kind, NEW h, NEW dt, Noted(kind, h, dt), NEW l \in Levels
    PROVE  /\ held'[l] = IF ~(h >= l - Band) THEN Never
                         ELSE IF Interrupted(dt) \/ held[l] = Never THEN 0
                         ELSE Later(held[l], dt, Steady)
           /\ low'[l] = IF ~(h <= l) THEN Never
                        ELSE IF Interrupted(dt) \/ low[l] = Never THEN 0
                        ELSE Later(low[l], dt, Confirm)
BY DEF Noted, Interrupted

LEMMA NotedLevel ==
    ASSUME Histories, NEW kind, NEW h \in Heights, NEW dt \in Nat, Noted(kind, h, dt),
           held' \in [Levels -> Int]
    PROVE  /\ proven' \in Levels \cup {None}
           /\ \A l \in Levels : held'[l] >= Steady => l <= proven'
           /\ kind = "SETTLED" => h + Band \div 2 <= proven'
           /\ (kind # "SETTLED" /\ ~Interrupted(dt)) => proven <= proven'
<1> DEFINE carried == IF kind = "SETTLED" THEN h + Band \div 2
                      ELSE IF Interrupted(dt) THEN None ELSE proven
           shown == {l \in Levels : held'[l] >= Steady} \cup {carried}
<1>1. proven' = CHOOSE l \in shown : \A m \in shown : m <= l
  BY DEF Noted, Interrupted
<1>2. carried \in Levels \cup {None}
  <2>1. h \in Nat /\ h + Band \div 2 \in Nat /\ h + Band \div 2 <= h + Band
    OBVIOUS
  <2>2. h + Band \div 2 \in Levels
    BY <2>1, LevelsAre
  <2> QED
    BY <2>2 DEF Histories
<1> HIDE DEF carried
<1>3. shown \in SUBSET (Levels \cup {None}) /\ carried \in shown
  BY <1>2
<1>4. \E l \in shown : \A m \in shown : m <= l
  <2>1. PICK n \in Nat : Levels = 0 .. n
    BY LevelsAre
  <2> DEFINE levels == shown \ {None}
  <2>2. levels \in SUBSET Nat /\ \A l \in levels : l <= n
    <3>1. ASSUME NEW l \in levels PROVE l \in Levels
      BY <1>3, <3>1
    <3>2. ASSUME NEW l \in levels PROVE l \in Nat /\ l <= n
      BY <2>1, <3>1
    <3> HIDE DEF levels
    <3> QED
      BY <3>2
  <2>3. CASE levels = {}
    <3>1. shown = {None}
      BY <1>3, <2>3
    <3> QED
      BY <3>1 DEF None
  <2>4. CASE levels # {}
    <3> HIDE DEF levels
    <3>1. PICK m \in levels : \A x \in levels : x <= m
      BY <2>2, <2>4, GreatestNat
    <3>2. m \in shown /\ m \in Nat
      BY <2>2, <3>1 DEF levels
    <3>3. ASSUME NEW x \in shown PROVE x <= m
      BY <3>1, <3>2 DEF levels, None
    <3> QED
      BY <3>2, <3>3
  <2> QED
    BY <2>3, <2>4
<1>5. proven' \in shown /\ \A m \in shown : m <= proven'
  BY <1>1, <1>4
<1>6. proven' \in Levels \cup {None} /\ carried <= proven'
  BY <1>3, <1>5
<1>7. \A l \in Levels : held'[l] >= Steady => l <= proven'
  BY <1>5
<1> QED
  BY <1>6, <1>7 DEF carried

(* The parts of the tracker that an observation meets. *)
LEMMA AgedParts ==
    ASSUME NEW t \in Row, NEW dt \in Nat
    PROVE  /\ Aged(t, dt).run = [t.run EXCEPT !.since = Later(@, dt, Steady)]
           /\ Aged(t, dt).reference = [t.reference EXCEPT !.since = Later(@, dt, Steady)]
           /\ Aged(t, dt).candidate = Later(t.candidate, dt, Confirm)
           /\ Aged(t, dt).baseline = t.baseline
           /\ Aged(t, dt).phase = t.phase
BY DEF Aged, Row

LEMMA BrokenParts ==
    ASSUME NEW t \in Row
    PROVE  /\ Broken(t).run = NoRun
           /\ Broken(t).reference = NoReference
           /\ Broken(t).candidate = Never
           /\ Broken(t).phase \in {"BASELINING", "COLLECTING"}
BY DEF Broken, Row

LEMMA NewParts ==
    /\ NewTracker.run = NoRun
    /\ NewTracker.reference = NoReference
    /\ NewTracker.candidate = Never
    /\ NewTracker.phase = "BASELINING"
BY DEF NewTracker

LEMMA FlatParts ==
    ASSUME NEW t \in Row, NEW h \in Nat
    PROVE  /\ Flat(t, h).run =
                IF t.run.since = Never \/ Larger(t.run.max, h) - Smaller(t.run.min, h) > Band
                THEN RunFrom(h)
                ELSE [since |-> t.run.since, min |-> Smaller(t.run.min, h),
                      max |-> Larger(t.run.max, h)]
           /\ Flat(t, h).reference = t.reference
           /\ Flat(t, h).candidate = t.candidate
           /\ Flat(t, h).baseline = t.baseline
           /\ Flat(t, h).phase = t.phase
BY DEF Flat, Row

LEMMA ResumedParts ==
    ASSUME Shape, scope # None, NEW dt \in Nat
    PROVE  /\ Resumed(dt) \in Row
           /\ Interrupted(dt) => /\ Resumed(dt).run = NoRun
                                 /\ Resumed(dt).reference = NoReference
                                 /\ Resumed(dt).candidate = Never
                                 /\ Resumed(dt).phase \in {"BASELINING", "COLLECTING"}
           /\ ~Interrupted(dt) => tracker \in Row /\ tracker # NoRow /\ Resumed(dt) = Aged(tracker, dt)
<1>1. scope \in Nat
  BY DEF Shape
<1>2. CASE tracker = NoRow \/ tracker.scope # scope
  <2>1. Resumed(dt) = NewTracker /\ Interrupted(dt)
    BY <1>2 DEF Resumed, Interrupted
  <2> QED
    BY <1>1, <2>1, NewRow, NewParts
<1>3. CASE ~(tracker = NoRow \/ tracker.scope # scope)
  <2>1. tracker \in Row /\ tracker # NoRow
    BY <1>3 DEF Shape
  <2>2. CASE dt > MaxGap
    BY <1>3, <2>1, <2>2, BrokenRow, BrokenParts DEF Resumed, Interrupted
  <2>3. CASE ~(dt > MaxGap)
    BY <1>3, <2>1, <2>3, AgedRow DEF Resumed, Interrupted
  <2> QED
    BY <2>2, <2>3
<1> QED
  BY <1>2, <1>3

(* The run goes on with the observation, and the history of its levels.    *)
LEMMA SeenRun ==
    ASSUME Shape, Histories, RunIsHeld, scope # None, NEW kind,
           NEW h \in Heights, NEW dt \in 1 .. MaxGap + 1, Noted(kind, h, dt)
    PROVE  /\ RunHeld(Seen(h, dt).run, held')
           /\ Seen(h, dt).run.since # Never
           /\ Seen(h, dt).run.min <= h /\ h <= Seen(h, dt).run.max
<1> DEFINE r == Resumed(dt)
           s == Seen(h, dt)
           run == [since |-> r.run.since, min |-> Smaller(r.run.min, h),
                   max |-> Larger(r.run.max, h)]
<1>1. r \in Row /\ h \in Nat /\ dt \in Nat
  BY ResumedParts
<1>2. s.run = IF r.run.since = Never \/ Larger(r.run.max, h) - Smaller(r.run.min, h) > Band
              THEN RunFrom(h) ELSE run
  BY <1>1, FlatParts DEF Seen
<1>3. CASE s.run = RunFrom(h)
  <2>1. \A l \in Levels : l - Band <= h => 0 <= held'[l]
    <3>1. ASSUME NEW l \in Levels, l - Band <= h PROVE 0 <= held'[l]
      <4>1. l \in Nat
        BY LevelsAre
      <4>2. held'[l] = IF Interrupted(dt) \/ held[l] = Never THEN 0
                       ELSE Later(held[l], dt, Steady)
        BY <1>1, <3>1, <4>1, NotedAges
      <4>3. held[l] \in Int /\ held[l] >= Never
        BY DEF Histories
      <4> QED
        BY <1>1, <4>2, <4>3, LaterGrows
    <3> QED
      BY <3>1
  <2>2. s.run.since = 0 /\ s.run.min = h /\ s.run.max = h
    BY <1>3 DEF RunFrom
  <2> QED
    BY <1>1, <2>1, <2>2 DEF RunHeld, Never
<1>4. CASE s.run # RunFrom(h)
  <2>1. s.run = run /\ r.run.since # Never
        /\ Larger(r.run.max, h) - Smaller(r.run.min, h) <= Band
    <3>1. r.run.min \in Int /\ r.run.max \in Int
      BY <1>1 DEF Row, Run
    <3> QED
      BY <1>1, <1>2, <1>4, <3>1 DEF Larger, Smaller
  <2>2. ~Interrupted(dt) /\ tracker \in Row /\ tracker # NoRow /\ r = Aged(tracker, dt)
    BY <1>1, <2>1, ResumedParts DEF NoRun
  <2>3. /\ r.run.since = Later(tracker.run.since, dt, Steady)
        /\ r.run.min = tracker.run.min /\ r.run.max = tracker.run.max
    <3>1. tracker.run \in Run
      BY <2>2 DEF Row
    <3>2. r.run = [tracker.run EXCEPT !.since = Later(@, dt, Steady)]
      BY <1>1, <2>2, AgedParts
    <3> QED
      BY <3>1, <3>2 DEF Run
  <2>4. tracker.run.since # Never
    BY <2>1, <2>3 DEF Later
  <2>5. /\ tracker.run.since \in Nat /\ tracker.run.min \in Heights /\ tracker.run.max \in Heights
        /\ tracker.run.min <= tracker.run.max
        /\ \A l \in Levels : l - Band <= tracker.run.min => tracker.run.since <= held[l]
    BY <2>2, <2>4 DEF RunIsHeld, RunHeld
  <2>6. /\ s.run.since = Later(tracker.run.since, dt, Steady)
        /\ s.run.min = Smaller(tracker.run.min, h) /\ s.run.max = Larger(tracker.run.max, h)
    BY <2>1, <2>3
  <2>7. /\ s.run.since \in Nat /\ s.run.min \in Heights /\ s.run.max \in Heights
        /\ s.run.min <= h /\ h <= s.run.max /\ s.run.min <= s.run.max
        /\ s.run.min <= tracker.run.min
        /\ s.run.max - s.run.min <= Band
    <3>1. s.run.since \in Nat
      <4>1. /\ tracker.run.since \in Int /\ tracker.run.since >= Never
            /\ tracker.run.since <= tracker.run.since
        BY <2>5 DEF Never
      <4>2. Later(tracker.run.since, dt, Steady) \in Nat
        BY <1>1, <2>4, <4>1, LaterGrows
      <4> QED
        BY <2>6, <4>2
    <3>2. tracker.run.min \in Nat /\ tracker.run.max \in Nat
      BY <2>5
    <3> QED
      BY <1>1, <2>1, <2>3, <2>5, <2>6, <3>1, <3>2 DEF Larger, Smaller
  <2>8. ASSUME NEW l \in Levels, l - Band <= s.run.min PROVE s.run.since <= held'[l]
    <3>1. l \in Nat /\ held[l] \in Int /\ held[l] >= Never
      BY LevelsAre DEF Histories
    <3>2. s.run.min \in Nat /\ tracker.run.min \in Nat
      BY <2>5, <2>7
    <3>3. l - Band <= tracker.run.min /\ h >= l - Band
      BY <1>1, <2>7, <2>8, <3>1, <3>2
    <3>4. tracker.run.since <= held[l] /\ held[l] # Never
      BY <2>5, <3>1, <3>3 DEF Never
    <3>5. held'[l] = Later(held[l], dt, Steady)
      BY <2>2, <3>3, <3>4, NotedAges
    <3>6. tracker.run.since \in Int /\ tracker.run.since >= Never
      BY <2>5 DEF Never
    <3>7. Later(tracker.run.since, dt, Steady) <= Later(held[l], dt, Steady)
      BY <1>1, <3>1, <3>4, <3>6, LaterGrows
    <3> QED
      BY <2>6, <3>5, <3>7
  <2> QED
    BY <2>7, <2>8 DEF RunHeld, Never
<1> QED
  BY <1>3, <1>4

(* The candidate for the baseline goes on with the observation. *)
LEMMA SeenLevel ==
    ASSUME Shape, Histories, LevelIsHeld, scope # None, NEW kind,
           NEW h \in Heights, NEW dt \in 1 .. MaxGap + 1, Noted(kind, h, dt)
    PROVE  /\ Seen(h, dt).phase = "COLLECTING" => Seen(h, dt).reference.since = Never
           /\ LevelHeld(Reference(h, dt), held')
           /\ Reference(h, dt).since # Never
           /\ Reference(h, dt).level - Band <= h
<1> DEFINE r == Resumed(dt).reference
           now == Reference(h, dt)
<1>1. Resumed(dt) \in Row /\ h \in Nat /\ dt \in Nat
  BY ResumedParts
<1>2. Seen(h, dt).reference = r /\ Seen(h, dt).phase = Resumed(dt).phase
  BY <1>1, FlatParts DEF Seen
<1>3. now = IF r.since = Never \/ h < r.peak - Band THEN ReferenceFrom(h)
            ELSE [r EXCEPT !.peak = Larger(@, h)]
  BY <1>2 DEF Reference, Referred
<1>4. r \in Candidate
  BY <1>1 DEF Row
<1>5. (r.since = Never \/ Resumed(dt).phase # "COLLECTING")
  <2>1. CASE Interrupted(dt)
    BY <1>1, <2>1, ResumedParts DEF NoReference
  <2>2. CASE ~Interrupted(dt)
    <3>1. tracker \in Row /\ tracker # NoRow /\ Resumed(dt) = Aged(tracker, dt)
      BY <1>1, <2>2, ResumedParts
    <3>2. /\ Resumed(dt).phase = tracker.phase
          /\ r = [tracker.reference EXCEPT !.since = Later(@, dt, Steady)]
          /\ tracker.reference \in Candidate
      <4>1. tracker.reference \in Candidate
        BY <3>1 DEF Row
      <4>2. /\ Aged(tracker, dt).phase = tracker.phase
            /\ Aged(tracker, dt).reference =
                  [tracker.reference EXCEPT !.since = Later(@, dt, Steady)]
        BY <1>1, <3>1, AgedParts
      <4> QED
        BY <3>1, <4>1, <4>2
    <3>3. r.since = Later(tracker.reference.since, dt, Steady)
      BY <3>2 DEF Candidate
    <3> QED
      BY <3>1, <3>2, <3>3 DEF LevelIsHeld, Later
  <2> QED
    BY <2>1, <2>2
<1>6. ASSUME r.since # Never, ~(h < r.peak - Band)
      PROVE  LevelHeld(r, held') /\ r.level - Band <= h
  <2>1. tracker \in Row /\ tracker # NoRow /\ Resumed(dt) = Aged(tracker, dt) /\ ~Interrupted(dt)
    BY <1>1, <1>6, ResumedParts DEF NoReference
  <2> DEFINE q == tracker.reference
  <2>2. q \in Candidate /\ r = [q EXCEPT !.since = Later(@, dt, Steady)]
    <3>1. q \in Candidate
      BY <2>1 DEF Row
    <3>2. Aged(tracker, dt).reference =
             [tracker.reference EXCEPT !.since = Later(@, dt, Steady)]
      BY <1>1, <2>1, AgedParts
    <3>3. r = Aged(tracker, dt).reference
      BY <2>1
    <3> QED
      BY <3>1, <3>2, <3>3
  <2>3. r.since = Later(q.since, dt, Steady) /\ r.level = q.level /\ r.peak = q.peak
    BY <2>2 DEF Candidate
  <2>4. q.since # Never
    BY <1>6, <2>3 DEF Later
  <2>5. /\ q.since \in Nat /\ q.level \in Heights /\ q.peak \in Heights /\ q.level <= q.peak
        /\ \A l \in Levels : l <= q.level => q.since <= held[l]
    BY <2>1, <2>4 DEF LevelIsHeld, LevelHeld
  <2>6. q.level \in Nat /\ q.peak \in Nat
    BY <2>5
  <2>7. r.level - Band <= h
    BY <1>1, <1>6, <2>3, <2>5, <2>6
  <2>8. q.since \in Int /\ q.since >= Never /\ q.since <= q.since
    BY <2>5 DEF Never
  <2>9. Later(q.since, dt, Steady) \in Nat
    BY <1>1, <2>4, <2>8, LaterGrows
  <2>10. ASSUME NEW l \in Levels, l <= r.level PROVE r.since <= held'[l]
    <3>1. l \in Nat /\ held[l] \in Int /\ held[l] >= Never
      BY LevelsAre DEF Histories
    <3>2. q.since <= held[l] /\ held[l] # Never
      BY <2>3, <2>5, <2>10, <3>1 DEF Never
    <3>3. h >= l - Band
      BY <1>1, <2>3, <2>6, <2>7, <2>10, <3>1
    <3>4. held'[l] = Later(held[l], dt, Steady)
      BY <2>1, <3>2, <3>3, NotedAges
    <3>5. Later(q.since, dt, Steady) <= Later(held[l], dt, Steady)
      BY <1>1, <2>8, <3>1, <3>2, LaterGrows
    <3> QED
      BY <2>3, <3>4, <3>5
  <2> HIDE DEF r, q
  <2> QED
    BY <2>3, <2>5, <2>7, <2>9, <2>10 DEF LevelHeld
<1>7. CASE r.since = Never \/ h < r.peak - Band
  <2>1. now.since = 0 /\ now.level = h /\ now.peak = h
    BY <1>3, <1>7 DEF ReferenceFrom
  <2>2. ASSUME NEW l \in Levels, l <= h PROVE 0 <= held'[l]
    <3>1. l \in Nat /\ held[l] \in Int /\ held[l] >= Never
      BY LevelsAre DEF Histories
    <3>2. h >= l - Band
      BY <1>1, <2>2, <3>1
    <3>3. held'[l] = IF Interrupted(dt) \/ held[l] = Never THEN 0
                     ELSE Later(held[l], dt, Steady)
      BY <3>2, NotedAges
    <3> QED
      BY <1>1, <3>1, <3>3, LaterGrows
  <2>3. LevelHeld(now, held') /\ now.since # Never /\ now.level - Band <= h
    BY <1>1, <2>1, <2>2 DEF LevelHeld, Never
  <2> QED
    BY <1>2, <1>5, <2>3
<1>8. CASE ~(r.since = Never \/ h < r.peak - Band)
  <2>1. LevelHeld(r, held') /\ r.level - Band <= h /\ now = [r EXCEPT !.peak = Larger(@, h)]
    BY <1>3, <1>6, <1>8
  <2>2. now.since = r.since /\ now.level = r.level /\ now.peak = Larger(r.peak, h)
    BY <1>4, <2>1 DEF Candidate
  <2>3. /\ r.since \in Nat /\ r.level \in Heights /\ r.peak \in Heights /\ r.level <= r.peak
        /\ \A l \in Levels : l <= r.level => r.since <= held'[l]
    BY <1>8, <2>1 DEF LevelHeld
  <2>4. now.peak \in Heights /\ now.level <= now.peak
    <3>1. r.level \in Nat /\ r.peak \in Nat
      BY <2>3
    <3> QED
      BY <1>1, <2>2, <2>3, <3>1 DEF Larger
  <2>5. LevelHeld(now, held')
    BY <2>2, <2>3, <2>4 DEF LevelHeld
  <2> QED
    BY <1>2, <1>5, <1>8, <2>1, <2>2, <2>5
<1> QED
  BY <1>7, <1>8

(* What supports a baseline has been held long enough, and there is no     *)
(* drop below it now.                                                      *)
LEMMA SupportIsHeld ==
    ASSUME Shape, Histories, LevelIsHeld, scope # None, NEW kind,
           NEW h \in Heights, NEW dt \in 1 .. MaxGap + 1, Noted(kind, h, dt),
           held' \in [Levels -> Int]
    PROVE  /\ LevelHeld(NextReference(Reference(h, dt), h), held')
           /\ Supported(Reference(h, dt)) # None =>
                /\ Supported(Reference(h, dt)) \in Levels
                /\ Supported(Reference(h, dt)) <= proven'
                /\ Supported(Reference(h, dt)) - Band <= h
<1> DEFINE r == Reference(h, dt)
<1>1. LevelHeld(r, held') /\ r.since # Never /\ r.level - Band <= h
  BY SeenLevel
<1>2. /\ r.since \in Nat /\ r.level \in Heights
      /\ \A l \in Levels : l <= r.level => r.since <= held'[l]
  BY <1>1 DEF LevelHeld
<1>3. h \in Nat /\ dt \in Nat /\ r.level \in Nat
  <2>1. h \in Nat /\ dt \in Nat
    OBVIOUS
  <2>2. r.level \in Heights
    BY <1>2
  <2> HIDE DEF r
  <2>3. r.level \in Nat
    BY <2>2
  <2> QED
    BY <2>1, <2>3
<1>4. r.level \in Levels
  <2>1. r.level \in Heights /\ r.level <= r.level + Band
    BY <1>2, <1>3
  <2> QED
    BY <1>3, <2>1, LevelsAre
<1>5. LevelHeld(NextReference(r, h), held')
  <2>1. CASE r.since < Steady
    BY <1>1, <2>1 DEF NextReference
  <2>2. CASE ~(r.since < Steady)
    <3>1. NextReference(r, h) = ReferenceFrom(h)
      BY <2>2 DEF NextReference
    <3>2. ASSUME NEW l \in Levels, l <= h PROVE 0 <= held'[l]
      <4>1. l \in Nat /\ held[l] \in Int /\ held[l] >= Never
        BY LevelsAre DEF Histories
      <4>2. h >= l - Band
        BY <1>3, <3>2, <4>1
      <4>3. held'[l] = IF Interrupted(dt) \/ held[l] = Never THEN 0
                       ELSE Later(held[l], dt, Steady)
        BY <4>2, NotedAges
      <4> QED
        BY <1>3, <4>1, <4>3, LaterGrows
    <3> QED
      BY <1>3, <3>1, <3>2 DEF LevelHeld, ReferenceFrom
  <2> QED
    BY <2>1, <2>2
<1>6. ASSUME Supported(r) # None
      PROVE  Supported(r) \in Levels /\ Supported(r) <= proven' /\ Supported(r) - Band <= h
  <2>1. Supported(r) = r.level /\ r.since >= Steady
    BY <1>2, <1>6 DEF Supported
  <2>2. held'[r.level] \in Int /\ held'[r.level] >= Steady
    BY <1>2, <1>3, <1>4, <2>1
  <2>3. r.level <= proven'
    BY <1>3, <1>4, <2>2, NotedLevel
  <2> QED
    BY <1>1, <1>4, <2>1, <2>3
<1> QED
  BY <1>5, <1>6

(* So has the middle of the run. *)
LEMMA MiddleIsHeld ==
    ASSUME Shape, Histories, RunIsHeld, scope # None, NEW kind,
           NEW h \in Heights, NEW dt \in 1 .. MaxGap + 1, Noted(kind, h, dt),
           held' \in [Levels -> Int],
           NEW t \in Row, t.run = Seen(h, dt).run
    PROVE  /\ Midpoint(t) \in Levels
           /\ Midpoint(t) - Band <= h
           /\ Midpoint(t) <= h + Band \div 2
           /\ StableLongEnough(t) => Midpoint(t) <= proven'
<1> DEFINE r == t.run
           m == Midpoint(t)
<1>1. RunHeld(r, held') /\ r.since # Never /\ r.min <= h /\ h <= r.max
  BY SeenRun
<1>2. /\ r.since \in Nat /\ r.min \in Heights /\ r.max \in Heights
      /\ r.min <= r.max /\ r.max - r.min <= Band
      /\ \A l \in Levels : l - Band <= r.min => r.since <= held'[l]
  BY <1>1 DEF RunHeld
<1>3. h \in Nat /\ dt \in Nat /\ r.min \in Nat /\ r.max \in Nat
  <2>1. h \in Nat /\ dt \in Nat
    OBVIOUS
  <2>2. r.min \in Heights /\ r.max \in Heights
    BY <1>2
  <2> HIDE DEF r
  <2>3. r.min \in Nat /\ r.max \in Nat
    BY <2>2
  <2> QED
    BY <2>1, <2>3
<1>4. m = (r.min + r.max) \div 2
  BY DEF Midpoint
<1> HIDE DEF r, m
<1>5. m \in Nat /\ m <= r.min + Band /\ m <= h + Band \div 2 /\ m - Band <= r.min
  BY <1>1, <1>2, <1>3, <1>4
<1>6. m <= h + Band
  BY <1>1, <1>3, <1>5
<1>7. m \in Levels
  BY <1>5, <1>6, LevelsAre
<1>8. ASSUME r.since >= Steady PROVE m <= proven'
  <2>1. held'[m] \in Int /\ held'[m] >= Steady
    BY <1>2, <1>5, <1>7, <1>8
  <2> QED
    BY <1>3, <1>7, <2>1, NotedLevel
<1> QED
  BY <1>3, <1>5, <1>6, <1>7, <1>8 DEF r, m, StableLongEnough

LEMMA NotedHistories ==
    ASSUME Histories, LowGrows, NEW kind, NEW h \in Heights, NEW dt \in Nat,
           Noted(kind, h, dt)
    PROVE  Histories' /\ LowGrows'
<1>1. \A l \in Levels : held[l] \in Int /\ low[l] \in Int /\ held[l] >= Never /\ low[l] >= Never
  BY DEF Histories
<1>2. ASSUME NEW l \in Levels
      PROVE  /\ held'[l] \in Int /\ held'[l] >= Never
             /\ low'[l] \in Int /\ low'[l] >= Never /\ low'[l] <= Confirm
  <2>1. /\ Later(held[l], dt, Steady) \in Int /\ Later(held[l], dt, Steady) >= Never
        /\ Later(low[l], dt, Confirm) \in Int /\ Later(low[l], dt, Confirm) >= Never
        /\ Later(low[l], dt, Confirm) <= Confirm
    BY <1>1, LaterStays
  <2> QED
    BY <2>1, NotedAges DEF Never
<1>3. held' \in [Levels -> Int] /\ low' \in [Levels -> Int]
  <2>1. DOMAIN held' = Levels /\ DOMAIN low' = Levels
    BY DEF Noted
  <2>2. held' = [l \in Levels |-> held'[l]] /\ low' = [l \in Levels |-> low'[l]]
    BY DEF Noted
  <2> QED
    BY <1>2, <2>2
<1>4. proven' \in Levels \cup {None}
  BY <1>3, NotedLevel
<1>5. Levels' = Levels
  BY DEF Levels
<1>6. Histories'
  BY <1>2, <1>3, <1>4, <1>5 DEF Histories
<1>7. ASSUME NEW l \in Levels, NEW m \in Levels, l <= m
      PROVE  low'[l] <= low'[m]
  <2>1. l \in Nat /\ m \in Nat /\ h \in Nat
    BY LevelsAre
  <2>2. CASE h <= l
    <3>1. h <= m
      BY <1>7, <2>1, <2>2
    <3>2. low[l] <= low[m]
      BY <1>7 DEF LowGrows
    <3>3. Later(low[l], dt, Confirm) <= Later(low[m], dt, Confirm)
      BY <1>1, <3>2, LaterGrows
    <3>4. /\ low'[l] = IF Interrupted(dt) \/ low[l] = Never THEN 0 ELSE Later(low[l], dt, Confirm)
          /\ low'[m] = IF Interrupted(dt) \/ low[m] = Never THEN 0 ELSE Later(low[m], dt, Confirm)
      BY <2>2, <3>1, NotedAges
    <3>5. low[m] # Never => Later(low[m], dt, Confirm) \in Nat
      BY <1>1, LaterGrows
    <3>6. low[l] \in Int /\ low[m] \in Int /\ low[l] >= Never
      BY <1>1
    <3> QED
      BY <3>2, <3>3, <3>4, <3>5, <3>6 DEF Never
  <2>3. CASE ~(h <= l)
    <3>1. low'[l] = Never
      BY <2>3, NotedAges
    <3> QED
      BY <1>2, <3>1
  <2> QED
    BY <2>2, <2>3
<1> QED
  BY <1>5, <1>6, <1>7 DEF LowGrows

(* The tracker that watches, with the observation: the baseline is proven  *)
(* and the drop below it is followed.                                      *)
LEMMA WatchfulHeld ==
    ASSUME Shape, HInv, Histories', scope # None, NEW kind, kind # "SETTLED",
           NEW h \in Heights, NEW dt \in 1 .. MaxGap + 1, Noted(kind, h, dt),
           Seen(h, dt).phase \in {"IDLE", "CANDIDATE"}
    PROVE  LET w == Watchful(h, dt) IN
           /\ w.run = Seen(h, dt).run
           /\ w.reference = NextReference(Reference(h, dt), h)
           /\ w.baseline \in Levels /\ w.baseline <= proven'
           /\ w.candidate = IF w.baseline - Drop \in Levels THEN low'[w.baseline - Drop]
                            ELSE Never
<1> DEFINE s == Seen(h, dt)
           p == Prepared(h, dt)
           support == Supported(Reference(h, dt))
           level == Larger(p.baseline, support)
           b == IF h > level /\ StableLongEnough(p) THEN Larger(level, Midpoint(p)) ELSE level
           u == Raised(p, support, h)
           w == Watchful(h, dt)
<1>1. h \in Nat /\ dt \in Nat /\ Levels' = Levels
  BY DEF Levels
<1>2. held' \in [Levels -> Int] /\ low' \in [Levels -> Int] /\ proven' \in Levels \cup {None}
  BY <1>1 DEF Histories
<1>3. Histories /\ RunIsHeld /\ LevelIsHeld /\ BaselineIsProven /\ DropIsFollowed
  BY DEF HInv
<1>4. s \in Row /\ p \in Row /\ support \in Int /\ p.phase = s.phase
  BY SeenRow, PreparedRow
<1>5. /\ p.run = s.run /\ p.baseline = s.baseline /\ p.candidate = s.candidate
      /\ p.reference = NextReference(Reference(h, dt), h)
  <2> DEFINE next == NextReference(Reference(h, dt), h)
  <2>1. p = [s EXCEPT !.reference = next]
    BY DEF Prepared
  <2> HIDE DEF next, s, p
  <2>2. p.run = s.run /\ p.baseline = s.baseline /\ p.candidate = s.candidate
        /\ p.reference = next
    BY <1>4, <2>1 DEF Row
  <2> QED
    BY <2>2 DEF next
<1>6. /\ ~Interrupted(dt) /\ Watching /\ tracker \in Row
      /\ s.baseline = tracker.baseline
      /\ s.candidate = Later(tracker.candidate, dt, Confirm)
  <2>1. Resumed(dt) \in Row /\ Seen(h, dt).phase = Resumed(dt).phase
        /\ s.baseline = Resumed(dt).baseline /\ s.candidate = Resumed(dt).candidate
    BY <1>1, ResumedParts, FlatParts DEF Seen
  <2>2. ~Interrupted(dt) /\ tracker \in Row /\ tracker # NoRow /\ Resumed(dt) = Aged(tracker, dt)
    BY <1>1, <2>1, ResumedParts
  <2>3. /\ Aged(tracker, dt).phase = tracker.phase
        /\ Aged(tracker, dt).baseline = tracker.baseline
        /\ Aged(tracker, dt).candidate = Later(tracker.candidate, dt, Confirm)
    BY <1>1, <2>2, AgedParts
  <2> QED
    BY <2>1, <2>2, <2>3 DEF Watching
<1>7. tracker.baseline \in Levels /\ tracker.baseline <= proven'
  <2>1. proven <= proven'
    BY <1>1, <1>2, <1>3, <1>6, NotedLevel
  <2>2. tracker.baseline \in Levels /\ tracker.baseline <= proven
    BY <1>3, <1>6 DEF BaselineIsProven
  <2>3. proven \in Int /\ proven' \in Int /\ tracker.baseline \in Int
    BY <1>2, <1>3, <2>2, LevelsAre DEF Histories, None
  <2> QED
    BY <2>1, <2>2, <2>3
<1>8. support # None => /\ support \in Levels /\ support <= proven'
                        /\ support - Band <= h
  BY <1>2, <1>3, SupportIsHeld
<1>9. /\ Midpoint(p) \in Levels /\ Midpoint(p) - Band <= h
      /\ StableLongEnough(p) => Midpoint(p) <= proven'
  BY <1>2, <1>3, <1>4, <1>5, MiddleIsHeld
<1>10. tracker.baseline \in Nat /\ (support # None => support \in Nat) /\ Midpoint(p) \in Nat
       /\ proven' \in Int
  BY <1>2, <1>7, <1>8, <1>9, LevelsAre DEF None
<1>11. p.baseline = tracker.baseline
  BY <1>5, <1>6
<1> HIDE DEF p, s, support
<1>12. /\ level \in Levels /\ level <= proven' /\ level \in Nat
       /\ level = tracker.baseline \/ level - Band <= h
  BY <1>7, <1>8, <1>10, <1>11 DEF Larger, None
<1> HIDE DEF level
<1>13. /\ b \in Levels /\ b <= proven' /\ b \in Nat
       /\ b = tracker.baseline \/ b - Band <= h
  BY <1>9, <1>10, <1>12 DEF Larger
<1>14. u.baseline = b /\ u.run = p.run /\ u.reference = p.reference
       /\ u.candidate = p.candidate /\ u \in Row
  <2>1. u = [p EXCEPT !.baseline = b]
    BY DEF Raised, level
  <2>2. u \in Row
    BY <1>1, <1>4, RaisedRow
  <2> HIDE DEF b, u
  <2> QED
    BY <1>4, <2>1, <2>2 DEF Row
<1> HIDE DEF b, u
<1>15. w = Watched(u, h)
  BY DEF Watchful, u, p, support
<1>16. w.run = u.run /\ w.reference = u.reference /\ w.baseline = b
       /\ w.candidate = IF b - h < Drop THEN Never
                        ELSE IF u.candidate = Never THEN 0 ELSE u.candidate
  <2> HIDE DEF w
  <2> QED
    BY <1>14, <1>15 DEF Watched, Row
<1>17. w.candidate = IF b - Drop \in Levels THEN low'[b - Drop] ELSE Never
  <2>1. CASE b - h < Drop
    <3>1. w.candidate = Never
      BY <1>16, <2>1
    <3>2. ASSUME b - Drop \in Levels PROVE low'[b - Drop] = Never
      <4>1. ~(h <= b - Drop)
        BY <1>1, <1>13, <2>1
      <4> QED
        BY <3>2, <4>1, NotedAges
    <3> QED
      BY <3>1, <3>2
  <2>2. CASE ~(b - h < Drop)
    <3>1. b = tracker.baseline /\ h <= b - Drop /\ b - Drop \in Nat /\ b - Drop <= b
      BY <1>1, <1>13, <2>2
    <3>2. b - Drop \in Levels
      <4>1. PICK n \in Nat : Levels = 0 .. n
        BY LevelsAre
      <4>2. b <= n
        BY <1>13, <4>1
      <4> QED
        BY <1>13, <3>1, <4>1, <4>2
    <3>3. tracker.candidate = low[b - Drop]
      BY <1>3, <1>6, <3>1, <3>2 DEF DropIsFollowed
    <3>4. low'[b - Drop] = IF low[b - Drop] = Never THEN 0 ELSE Later(low[b - Drop], dt, Confirm)
      BY <1>6, <3>1, <3>2, NotedAges
    <3>5. u.candidate = Later(tracker.candidate, dt, Confirm)
      BY <1>5, <1>6, <1>14
    <3>6. low[b - Drop] \in Int /\ low[b - Drop] >= Never
      BY <1>3, <3>2 DEF Histories
    <3>7. u.candidate = Never <=> low[b - Drop] = Never
      <4>1. CASE low[b - Drop] = Never
        BY <3>3, <3>5, <4>1 DEF Later
      <4>2. CASE low[b - Drop] # Never
        <5>1. Later(low[b - Drop], dt, Confirm) \in Nat
          BY <1>1, <3>6, <4>2, LaterStays
        <5> QED
          BY <3>3, <3>5, <4>2, <5>1 DEF Never
      <4> QED
        BY <4>1, <4>2
    <3> QED
      BY <1>16, <2>2, <3>2, <3>3, <3>4, <3>5, <3>7
  <2> QED
    BY <2>1, <2>2
<1>18. w.run = s.run /\ w.reference = NextReference(Reference(h, dt), h)
  BY <1>5, <1>14, <1>16
<1> QED
  BY <1>13, <1>16, <1>17, <1>18 DEF s

-----------------------------------------------------------------------------
(* The steps again, with what they leave of the heights. *)

Sustains ==
    Recorded("DETECTED") => proven' - Drop \in Levels /\ low'[proven' - Drop] >= Confirm

HGood == HInv' /\ Sustains

LEMMA HInitially == Init => HInv
BY DEF Init, HInv, Histories, LowGrows, RunIsHeld, LevelIsHeld, BaselineIsProven,
       DropIsFollowed, NothingBefore, Watching, Never, None

(* Below a baseline that is not far above the height there is no drop.     *)
LEMMA NoDrop ==
    ASSUME NEW kind, NEW h \in Heights, NEW dt, Noted(kind, h, dt),
           NEW b \in Nat, b - Band <= h, b - Drop \in Levels
    PROVE  low'[b - Drop] = Never
<1>1. ~(h <= b - Drop)
  <2>1. h \in Nat
    OBVIOUS
  <2> QED
    BY <2>1
<1> QED
  BY <1>1, NotedAges

LEMMA SeenBaselining ==
    ASSUME Shape, NothingBefore, scope # None, NEW h \in Heights, NEW dt \in 1 .. MaxGap + 1,
           Seen(h, dt).phase = "BASELINING"
    PROVE  Seen(h, dt).candidate = Never
<1>1. Resumed(dt) \in Row /\ h \in Nat /\ dt \in Nat
  BY ResumedParts
<1>2. Seen(h, dt).phase = Resumed(dt).phase /\ Seen(h, dt).candidate = Resumed(dt).candidate
  BY <1>1, FlatParts DEF Seen
<1>3. CASE Interrupted(dt)
  BY <1>1, <1>2, <1>3, ResumedParts
<1>4. CASE ~Interrupted(dt)
  <2>1. tracker \in Row /\ tracker # NoRow /\ Resumed(dt) = Aged(tracker, dt)
    BY <1>1, <1>4, ResumedParts
  <2>2. Resumed(dt).phase = tracker.phase
        /\ Resumed(dt).candidate = Later(tracker.candidate, dt, Confirm)
    <3>1. /\ Aged(tracker, dt).phase = tracker.phase
          /\ Aged(tracker, dt).candidate = Later(tracker.candidate, dt, Confirm)
      BY <1>1, <2>1, AgedParts
    <3> QED
      BY <2>1, <3>1
  <2> QED
    BY <1>2, <2>1, <2>2 DEF NothingBefore, Later
<1> QED
  BY <1>3, <1>4

LEMMA BaselinesHeld ==
    ASSUME CInv, HInv, scope # None,
           NEW h \in Heights, NEW dt \in 1 .. MaxGap + 1, Baselines(h, dt)
    PROVE  HGood
<1> DEFINE p == Prepared(h, dt)
           support == Supported(Reference(h, dt))
           t == Baselined(p, support)
<1>1. /\ Shape /\ HInv /\ Histories /\ LowGrows /\ RunIsHeld /\ LevelIsHeld /\ NothingBefore
      /\ Seen(h, dt).phase = "BASELINING" /\ Noted("none", h, dt)
      /\ tracker' = t /\ log' = log
  BY DEF CInv, HInv, Baselines
<1>2. h \in Nat /\ dt \in Nat /\ Levels' = Levels
  BY DEF Levels
<1>3. Histories' /\ LowGrows'
  BY <1>1, <1>2, NotedHistories
<1>4. held' \in [Levels -> Int] /\ proven' \in Levels \cup {None}
  BY <1>2, <1>3 DEF Histories
<1>5. p \in Row /\ p.phase = "BASELINING" /\ support \in Int
  BY <1>1, PreparedRow
<1>6. /\ p.run = Seen(h, dt).run /\ p.candidate = Never
      /\ p.reference = NextReference(Reference(h, dt), h)
  <2> DEFINE next == NextReference(Reference(h, dt), h)
             s == Seen(h, dt)
  <2>1. p = [s EXCEPT !.reference = next]
    BY DEF Prepared
  <2>2. s \in Row /\ s.candidate = Never
    BY <1>1, SeenRow, SeenBaselining
  <2> HIDE DEF next, s, p
  <2>3. p.run = s.run /\ p.candidate = s.candidate /\ p.reference = next
    BY <2>1, <2>2 DEF Row
  <2> QED
    BY <2>2, <2>3 DEF next, s
<1>7. RunHeld(p.run, held') /\ LevelHeld(p.reference, held')
  BY <1>1, <1>4, <1>6, SeenRun, SupportIsHeld
<1>8. support # None => support \in Levels /\ support <= proven' /\ support - Band <= h
  BY <1>1, <1>4, SupportIsHeld
<1>9. /\ Midpoint(p) \in Levels /\ Midpoint(p) - Band <= h
      /\ StableLongEnough(p) => Midpoint(p) <= proven'
  BY <1>1, <1>4, <1>5, <1>6, MiddleIsHeld
<1> HIDE DEF p, support
<1>10. /\ t \in Row /\ t.run = p.run /\ t.reference = p.reference /\ t.candidate = p.candidate
       /\ \/ t.phase = "BASELINING"
          \/ /\ t.phase = "IDLE" /\ t.baseline \in Levels /\ t.baseline <= proven'
             /\ t.baseline - Band <= h
  <2>1. t \in Row
    BY <1>5, BaselinedRow
  <2>2. CASE StableLongEnough(p)
    <3> DEFINE m == Midpoint(p)
    <3>1. t = [p EXCEPT !.baseline = m, !.phase = "IDLE"]
      BY <2>2 DEF Baselined
    <3> HIDE DEF m, t
    <3>2. t.run = p.run /\ t.reference = p.reference /\ t.candidate = p.candidate
          /\ t.phase = "IDLE" /\ t.baseline = m
      BY <1>5, <3>1 DEF Row
    <3> QED
      BY <1>9, <2>1, <2>2, <3>2 DEF m
  <2>3. CASE ~StableLongEnough(p) /\ support # None
    <3>1. t = [p EXCEPT !.baseline = support, !.phase = "IDLE"]
      BY <2>3 DEF Baselined
    <3> HIDE DEF t
    <3>2. t.run = p.run /\ t.reference = p.reference /\ t.candidate = p.candidate
          /\ t.phase = "IDLE" /\ t.baseline = support
      BY <1>5, <3>1 DEF Row
    <3> QED
      BY <1>8, <2>1, <2>3, <3>2
  <2>4. CASE ~StableLongEnough(p) /\ support = None
    BY <1>5, <2>4 DEF Baselined
  <2> QED
    BY <2>2, <2>3, <2>4
<1> HIDE DEF t
<1>11. tracker' # NoRow => RunIsHeld' /\ LevelIsHeld'
  BY <1>1, <1>2, <1>7, <1>10 DEF RunIsHeld, LevelIsHeld, RunHeld, LevelHeld
<1>12. BaselineIsProven'
  BY <1>1, <1>2, <1>10 DEF BaselineIsProven, Watching
<1>13. DropIsFollowed'
  <2>1. ASSUME Watching'
        PROVE  /\ t.candidate = IF t.baseline - Drop \in Levels
                                THEN low'[t.baseline - Drop] ELSE Never
               /\ t.candidate < Confirm
    <3>1. t.baseline \in Levels /\ t.baseline - Band <= h /\ t.candidate = Never
      BY <1>1, <1>6, <1>10, <2>1 DEF Watching
    <3>2. t.baseline \in Nat
      BY <3>1, LevelsAre
    <3>3. t.baseline - Drop \in Levels => low'[t.baseline - Drop] = Never
      BY <1>1, <3>1, <3>2, NoDrop
    <3> QED
      BY <3>1, <3>3 DEF Never
  <2> QED
    BY <1>1, <1>2, <2>1 DEF DropIsFollowed
<1>14. NothingBefore' /\ RunIsHeld' /\ LevelIsHeld'
  BY <1>1, <1>6, <1>10, <1>11 DEF NothingBefore, RunIsHeld, LevelIsHeld
<1>15. Sustains
  BY <1>1 DEF Sustains, Recorded
<1> QED
  BY <1>3, <1>12, <1>13, <1>14, <1>15 DEF HGood, HInv

LEMMA WatchesHeld ==
    ASSUME CInv, HInv, scope # None,
           NEW h \in Heights, NEW dt \in 1 .. MaxGap + 1, Watches(h, dt)
    PROVE  HGood
<1> DEFINE w == Watchful(h, dt)
<1>1. /\ Shape /\ HInv /\ Histories /\ LowGrows /\ RunIsHeld /\ LevelIsHeld
      /\ Seen(h, dt).phase \in {"IDLE", "CANDIDATE"} /\ Noted("none", h, dt)
      /\ tracker' = w /\ log' = log /\ ~(w.candidate >= Confirm)
  BY DEF CInv, HInv, Watches, Confirmed
<1>2. h \in Nat /\ dt \in Nat /\ Levels' = Levels
  BY DEF Levels
<1>3. Histories' /\ LowGrows'
  BY <1>1, <1>2, NotedHistories
<1>4. held' \in [Levels -> Int]
  BY <1>2, <1>3 DEF Histories
<1>5. w \in Row /\ w.phase \in {"IDLE", "CANDIDATE"}
  BY <1>1, WatchfulRow
<1>6. /\ w.run = Seen(h, dt).run
      /\ w.reference = NextReference(Reference(h, dt), h)
      /\ w.baseline \in Levels /\ w.baseline <= proven'
      /\ w.candidate = IF w.baseline - Drop \in Levels THEN low'[w.baseline - Drop] ELSE Never
  BY <1>1, <1>3, WatchfulHeld
<1>7. RunHeld(w.run, held') /\ LevelHeld(w.reference, held')
  BY <1>1, <1>4, <1>6, SeenRun, SupportIsHeld
<1>8. w.candidate \in Int
  BY <1>5 DEF Row
<1> HIDE DEF w
<1>9. RunIsHeld' /\ LevelIsHeld'
  BY <1>1, <1>2, <1>5, <1>7 DEF RunIsHeld, LevelIsHeld, RunHeld, LevelHeld
<1>10. BaselineIsProven' /\ DropIsFollowed' /\ NothingBefore'
  BY <1>1, <1>2, <1>5, <1>6, <1>8 DEF BaselineIsProven, DropIsFollowed, NothingBefore
<1>11. Sustains
  BY <1>1 DEF Sustains, Recorded
<1> QED
  BY <1>3, <1>9, <1>10, <1>11 DEF HGood, HInv

(* A new run, as at a detection. *)
LEMMA FirstOfRun ==
    ASSUME Histories, NEW kind, NEW h \in Heights, NEW dt \in Nat, Noted(kind, h, dt)
    PROVE  RunHeld(RunFrom(h), held')
<1>1. ASSUME NEW l \in Levels, l - Band <= h PROVE 0 <= held'[l]
  <2>1. l \in Nat /\ h \in Nat /\ held[l] \in Int /\ held[l] >= Never
    BY LevelsAre DEF Histories
  <2>2. h >= l - Band
    BY <1>1, <2>1
  <2>3. held'[l] = IF Interrupted(dt) \/ held[l] = Never THEN 0 ELSE Later(held[l], dt, Steady)
    BY <2>2, NotedAges
  <2> QED
    BY <2>1, <2>3, LaterStays
<1>2. RunFrom(h).since = 0 /\ RunFrom(h).min = h /\ RunFrom(h).max = h
  BY DEF RunFrom
<1>3. h \in Nat
  OBVIOUS
<1> QED
  BY <1>1, <1>2, <1>3 DEF RunHeld

LEMMA DetectsHeld ==
    ASSUME CInv, HInv, scope # None,
           NEW h \in Heights, NEW dt \in 1 .. MaxGap + 1, Detects(h, dt)
    PROVE  HGood
<1> DEFINE w == Watchful(h, dt)
<1>1. /\ Shape /\ HInv /\ Histories /\ LowGrows
      /\ Seen(h, dt).phase \in {"IDLE", "CANDIDATE"} /\ Noted("DETECTED", h, dt)
      /\ tracker' = Detected(w, h) /\ w.candidate >= Confirm
  BY DEF CInv, HInv, Detects, Confirmed
<1>2. h \in Nat /\ dt \in Nat /\ Levels' = Levels
  BY DEF Levels
<1>3. Histories' /\ LowGrows'
  BY <1>1, <1>2, NotedHistories
<1>4. w \in Row
  BY <1>1, WatchfulRow
<1>5. /\ w.baseline \in Levels /\ w.baseline <= proven'
      /\ w.candidate = IF w.baseline - Drop \in Levels THEN low'[w.baseline - Drop] ELSE Never
  BY <1>1, <1>3, WatchfulHeld
<1> HIDE DEF w
<1>6. RunHeld(RunFrom(h), held')
  BY <1>1, <1>2, FirstOfRun
<1>7. LevelHeld(NoReference, held')
  BY DEF LevelHeld, NoReference
<1>8. /\ tracker'.run = RunFrom(h) /\ tracker'.reference = NoReference
      /\ tracker'.phase = "COLLECTING"
  BY <1>1, <1>4 DEF Detected, Row
<1>9. RunIsHeld' /\ LevelIsHeld'
  BY <1>2, <1>6, <1>7, <1>8 DEF RunIsHeld, LevelIsHeld, RunHeld, LevelHeld, NoReference
<1>10. BaselineIsProven' /\ DropIsFollowed' /\ NothingBefore'
  BY <1>8 DEF BaselineIsProven, DropIsFollowed, NothingBefore, Watching
<1>11. Sustains
  <2>1. w.baseline - Drop \in Levels /\ low'[w.baseline - Drop] >= Confirm
    BY <1>1, <1>5 DEF Never
  <2>2. PICK n \in Nat : Levels = 0 .. n
    BY LevelsAre
  <2>3. proven' \in Levels /\ w.baseline \in Nat
    BY <1>2, <1>3, <1>5, <2>2 DEF Histories, None
  <2>4. proven' - Drop \in Levels /\ w.baseline - Drop <= proven' - Drop
    <3>1. w.baseline - Drop >= 0 /\ proven' \in Nat /\ proven' <= n
      BY <2>1, <2>2, <2>3
    <3>2. w.baseline \in Nat /\ w.baseline <= proven'
      BY <1>5, <2>3
    <3>3. \A b, q \in Nat : b <= q /\ q <= n /\ b - Drop >= 0 =>
                              b - Drop <= q - Drop /\ q - Drop \in 0 .. n
      BY <2>2
    <3>4. w.baseline - Drop <= proven' - Drop /\ proven' - Drop \in 0 .. n
      BY <3>1, <3>2, <3>3
    <3> QED
      BY <2>2, <3>4
  <2>5. low'[w.baseline - Drop] <= low'[proven' - Drop]
    BY <1>2, <1>3, <2>1, <2>4 DEF LowGrows
  <2>6. low'[w.baseline - Drop] \in Int /\ low'[proven' - Drop] \in Int
    BY <1>2, <1>3, <2>1, <2>4 DEF Histories
  <2> QED
    BY <2>1, <2>4, <2>5, <2>6 DEF Sustains
<1> QED
  BY <1>3, <1>9, <1>10, <1>11 DEF HGood, HInv

(* In an episode. *)
LEMMA ProgressedHeld ==
    ASSUME CInv, HInv, scope # None, NEW kind \in {"none", "SETTLED"},
           NEW h \in Heights, NEW dt \in 1 .. MaxGap + 1, Noted(kind, h, dt),
           Progressed(Seen(h, dt), h).phase = "COLLECTING"
    PROVE  LET t == Progressed(Seen(h, dt), h) IN
           /\ t \in Row /\ Histories' /\ LowGrows'
           /\ t.run = Seen(h, dt).run /\ RunHeld(t.run, held')
           /\ t.reference.since = Never
<1> DEFINE s == Seen(h, dt)
           t == Progressed(s, h)
<1>1. /\ Shape /\ QuietIsSeen /\ Histories /\ LowGrows /\ RunIsHeld /\ LevelIsHeld
      /\ h \in Nat /\ dt \in Nat
  BY DEF CInv, HInv
<1>2. s \in Row
  BY <1>1, SeenRow
<1>3. t \in Row /\ t.phase = s.phase
  BY <1>1, <1>2, ProgressedRow
<1>4. Histories' /\ LowGrows'
  BY <1>1, NotedHistories
<1>5. RunHeld(s.run, held')
  BY <1>1, SeenRun
<1>6. s.reference.since = Never
  BY <1>1, <1>3, SeenLevel
<1> HIDE DEF s
<1>7. t.run = s.run /\ t.reference = s.reference
  BY <1>2 DEF Progressed, Row
<1> HIDE DEF t
<1> QED
  BY <1>3, <1>4, <1>5, <1>6, <1>7 DEF s, t

LEMMA CollectsHeld ==
    ASSUME CInv, HInv, scope # None,
           NEW h \in Heights, NEW dt \in 1 .. MaxGap + 1, Collects(h, dt)
    PROVE  HGood
<1> DEFINE t == Progressed(Seen(h, dt), h)
<1>1. tracker' = t /\ t.phase = "COLLECTING" /\ Noted("none", h, dt) /\ log' = log
  BY DEF Collects
<1>2. t \in Row /\ Histories' /\ LowGrows' /\ RunHeld(t.run, held') /\ t.reference.since = Never
  BY <1>1, ProgressedHeld
<1> HIDE DEF t
<1>3. Levels' = Levels
  BY DEF Levels
<1>4. RunIsHeld' /\ LevelIsHeld'
  BY <1>1, <1>2, <1>3 DEF RunIsHeld, LevelIsHeld, RunHeld, LevelHeld
<1>5. BaselineIsProven' /\ DropIsFollowed' /\ NothingBefore'
  BY <1>1 DEF BaselineIsProven, DropIsFollowed, NothingBefore, Watching
<1>6. Sustains
  BY <1>1 DEF Sustains, Recorded
<1> QED
  BY <1>2, <1>4, <1>5, <1>6 DEF HGood, HInv

LEMMA SettlesHeld ==
    ASSUME CInv, HInv, scope # None,
           NEW h \in Heights, NEW dt \in 1 .. MaxGap + 1, Settles(h, dt)
    PROVE  HGood
<1> DEFINE t == Progressed(Seen(h, dt), h)
           m == Midpoint(t)
<1>1. /\ tracker' = Settled(t) /\ t.phase = "COLLECTING" /\ Noted("SETTLED", h, dt)
      /\ log' = Append(log, Transition("SETTLED", t.episode))
      /\ Shape /\ Histories /\ RunIsHeld /\ log \in Seq(Transitions)
  BY DEF Settles, CInv, HInv, Shape
<1>2. /\ t \in Row /\ Histories' /\ LowGrows' /\ RunHeld(t.run, held')
      /\ t.run = Seen(h, dt).run
  BY <1>1, ProgressedHeld
<1>3. Levels' = Levels /\ h \in Nat /\ dt \in Nat
  BY DEF Levels
<1>4. held' \in [Levels -> Int]
  BY <1>2, <1>3 DEF Histories
<1>5. m \in Levels /\ m - Band <= h /\ m <= h + Band \div 2
  BY <1>1, <1>2, <1>4, MiddleIsHeld
<1>6. h + Band \div 2 <= proven'
  BY <1>1, <1>3, <1>4, NotedLevel
<1> HIDE DEF t
<1>7. /\ tracker'.phase = "IDLE" /\ tracker'.baseline = m /\ tracker'.candidate = Never
      /\ tracker'.run = t.run /\ tracker'.reference = NoReference
  BY <1>1, <1>2 DEF Settled, Row
<1> HIDE DEF m
<1>8. m \in Nat /\ proven' \in Int
  BY <1>2, <1>3, <1>5, LevelsAre DEF Histories, None
<1>9. m <= proven'
  <2>1. Band \div 2 \in Nat
    OBVIOUS
  <2> QED
    BY <1>3, <1>5, <1>6, <1>8, <2>1
<1>10. RunIsHeld' /\ LevelIsHeld'
  BY <1>2, <1>3, <1>7 DEF RunIsHeld, LevelIsHeld, RunHeld, LevelHeld, NoReference
<1>11. BaselineIsProven' /\ NothingBefore'
  BY <1>3, <1>5, <1>7, <1>9 DEF BaselineIsProven, NothingBefore
<1>12. DropIsFollowed'
  <2>1. m - Drop \in Levels => low'[m - Drop] = Never
    BY <1>1, <1>5, <1>8, NoDrop
  <2> QED
    BY <1>3, <1>7, <2>1 DEF DropIsFollowed, Never
<1>13. Sustains
  <2> DEFINE e == Transition("SETTLED", t.episode)
  <2>1. e.kind = "SETTLED"
    BY DEF Transition
  <2>2. log' = Append(log, e)
    BY <1>1
  <2> HIDE DEF e
  <2>3. Len(log') = Len(log) + 1 /\ log'[Len(log) + 1] = e
    BY <1>1, <2>2
  <2> QED
    BY <2>1, <2>3 DEF Sustains, Recorded
<1> QED
  BY <1>2, <1>10, <1>11, <1>12, <1>13 DEF HGood, HInv

LEMMA InvalidHeld ==
    ASSUME CInv, HInv, Invalid
    PROVE  HGood
<1>1. /\ tracker \in Row /\ tracker' = Broken(tracker) /\ log' = log
      /\ held' = [l \in Levels |-> Never] /\ low' = [l \in Levels |-> Never] /\ proven' = None
  BY DEF CInv, Shape, Invalid, Forgotten
<1>2. /\ tracker'.run = NoRun /\ tracker'.reference = NoReference /\ tracker'.candidate = Never
      /\ tracker'.phase \in {"BASELINING", "COLLECTING"}
  BY <1>1, BrokenParts
<1>3. Levels' = Levels
  BY DEF Levels
<1>4. Histories' /\ LowGrows'
  BY <1>1, <1>3 DEF Histories, LowGrows, Never
<1>5. RunIsHeld' /\ LevelIsHeld'
  BY <1>2 DEF RunIsHeld, LevelIsHeld, RunHeld, LevelHeld, NoRun, NoReference
<1>6. BaselineIsProven' /\ DropIsFollowed' /\ NothingBefore'
  BY <1>2 DEF BaselineIsProven, DropIsFollowed, NothingBefore, Watching
<1>7. Sustains
  BY <1>1 DEF Sustains, Recorded
<1> QED
  BY <1>4, <1>5, <1>6, <1>7 DEF HGood, HInv

LEMMA UnseenHeld ==
    ASSUME HInv, UNCHANGED <<tracker, log, held, low, proven>>
    PROVE  HGood
<1>1. Levels' = Levels
  BY DEF Levels
<1> QED
  BY <1>1 DEF HInv, HGood, Histories, LowGrows, RunIsHeld, LevelIsHeld, RunHeld, LevelHeld,
              BaselineIsProven, DropIsFollowed, NothingBefore, Watching, Sustains, Recorded

LEMMA NextHeld ==
    ASSUME CInv, HInv, [Next]_vars
    PROVE  HGood
<1>1. ASSUME NEW h \in Heights, NEW dt \in 1 .. MaxGap + 1, Process(h, dt)
      PROVE  HGood
  BY <1>1, BaselinesHeld, WatchesHeld, DetectsHeld, CollectsHeld, SettlesHeld DEF Process
<1>2. CASE Invalid
  BY <1>2, InvalidHeld
<1>3. ASSUME NEW s \in Scopes \cup {None}, Rescope(s)
      PROVE  HGood
  BY <1>3, UnseenHeld DEF Rescope, history
<1>4. CASE UNCHANGED vars
  BY <1>4, UnseenHeld DEF vars
<1> QED
  BY <1>1, <1>2, <1>3, <1>4 DEF Next

-----------------------------------------------------------------------------
(* The invariant of the tracker, its history and the log: a collection in  *)
(* progress rests on a detection that is in the log and not settled.       *)
THEOREM Invariant == Spec => []CInv
<1>1. CInv /\ [Next]_vars => CInv'
  BY NextGood DEF Good
<1> QED
  BY Initially, <1>1, PTL DEF Spec

(* Settlements pair with detections of their scope, one each, whatever the *)
(* heights, outages and changes of configuration (process_collection_source). *)
THEOREM Pairing == Spec => []SettlementsPair
<1>1. CInv => SettlementsPair
  BY DEF CInv, Shape, Paired, OpenIsDetected, Collecting, SettlementsPair, Detections
<1> QED
  BY Invariant, <1>1, PTL

(* The time of an outage is never quiet time (invalidate). *)
THEOREM NoOutageIsQuiet == Spec => OutagesAreNotQuiet
<1>1. CInv /\ [Next]_vars => [Recorded("SETTLED") => since' >= Settle]_vars
  BY NextGood DEF Good, SettlesQuietly
<1> QED
  BY Invariant, <1>1, PTL DEF Spec, OutagesAreNotQuiet

(* An open episode is neither lost nor exchanged by an outage (invalidate). *)
THEOREM Remembering == Spec => EpisodesAreRemembered
<1>1. CInv /\ [Next]_vars =>
        [(tracker # NoRow /\ tracker.phase = "COLLECTING") =>
         \/ tracker'.scope # tracker.scope
         \/ tracker'.phase = "COLLECTING" /\ tracker'.episode = tracker.episode
         \/ log' = Append(log, [kind |-> "SETTLED", episode |-> tracker.episode,
                                scope |-> tracker.scope])]_vars
  BY NextGood DEF Good, Remembers, Collecting
<1> QED
  BY Invariant, <1>1, PTL DEF Spec, EpisodesAreRemembered

(* The invariant of the tracker against the heights it was shown.          *)
THEOREM HeightsAreFollowed == Spec => [](CInv /\ HInv)
<1>1. CInv /\ HInv /\ [Next]_vars => HInv'
  BY NextHeld DEF HGood
<1> QED
  BY Invariant, HInitially, <1>1, PTL DEF Spec

(* Only a drop below a level that had been held, seen without a break for  *)
(* CONFIRM_SECONDS, is detected: a spike never raises the baseline that it *)
(* is measured from (sustained_reference, _advance_idle_or_candidate).     *)
THEOREM DetectionsSustained == Spec => DetectionsAreSustained
<1>1. CInv /\ HInv /\ [Next]_vars =>
        [Recorded("DETECTED") =>
           /\ proven' - Drop \in Levels
           /\ low'[proven' - Drop] >= Confirm]_vars
  BY NextHeld DEF HGood, Sustains
<1> QED
  BY HeightsAreFollowed, <1>1, PTL DEF Spec, DetectionsAreSustained

(* And every such drop is: while none is open, no height has been that far *)
(* below the baseline for CONFIRM_SECONDS, although the baseline may have  *)
(* risen after the drop began.                                             *)
THEOREM NoneMissed == Spec => []NoDropIsMissed
<1>1. HInv => NoDropIsMissed
  BY DEF HInv, DropIsFollowed, Watching, NoDropIsMissed
<1> QED
  BY HeightsAreFollowed, <1>1, PTL

-----------------------------------------------------------------------------
(* Active health alerts. The start time kept for a condition never lies    *)
(* before the moment since which what was seen of it is steady, in the row *)
(* (StartsAreSteady) as in what a request has read of it.                  *)

HealthShape ==
    /\ beat \in Nat
    /\ report # NoReport => report \in [what : Reports, age : Int]
    /\ reading # NoReading => reading \in [what : Readings, age : Int]
    /\ steady \in [Kinds -> 0 .. MaxLasted]
    /\ starts # NoStarts =>
          /\ starts = [placed |-> starts.placed, age |-> starts.age, entries |-> starts.entries]
          /\ starts.age \in Nat
          /\ \A e \in starts.entries : e.lasted \in 0 .. MaxLasted /\ Kind(e.what) \in Kinds
    /\ view # NoView =>
          /\ view = [placed |-> view.placed, age |-> view.age, items |-> view.items]
          /\ view.placed = placed /\ view.age \in 0 .. MaxReading
          /\ \A i \in view.items : i.steady \in 0 .. MaxLasted

(* Of an outage that a heartbeat has ended no later one takes the start.   *)
OutagesAreNumbered ==
    starts # NoStarts =>
      \A e \in starts.entries : Kind(e.what) = "SILENT" => e.what.scope[2] \in 0 .. beat

(* A condition that could be found now. *)
Present(c) == Kind(c) \in Kinds /\ (Kind(c) = "SILENT" => c.scope[2] = beat)

StartsAreSteady ==
    starts # NoStarts /\ starts.age < StartLimit =>
      \A e \in starts.entries :
        Present(e.what) => Longer(e.lasted, starts.age) <= steady[Kind(e.what)]

(* What the answer may say, whichever entry of the row it takes. *)
ViewIsSteady ==
    view # NoView /\ RowApplies =>
      \A i \in view.items, e \in starts.entries :
        e.what = i.what => Longer(e.lasted, starts.age - view.age) <= i.steady

HealthInv == HealthShape /\ OutagesAreNumbered /\ StartsAreSteady /\ ViewIsSteady

LEMMA StartLimitNat == HealthAssumption => StartLimit \in Nat
BY DEF HealthAssumption, StartLimit

LEMMA LongerBounds ==
    ASSUME HealthAssumption, NEW n \in Nat, NEW m \in Nat
    PROVE  /\ Longer(n, m) \in 0 .. MaxLasted
           /\ n <= MaxLasted => Longer(n, 0) = n
           /\ \A k \in Nat : n <= k => Longer(n, m) <= Longer(k, m)
           /\ Longer(n, m + 1) <= Longer(Longer(n, m), 1)
BY DEF HealthAssumption, Longer

LEMMA ConditionsArePresent ==
    ASSUME NEW state, NEW enabled,
           NEW c \in HealthConditions(Snapshot) \cup FillConditions(Snapshot, state, enabled)
    PROVE  Present(c)
<1> DEFINE s == Snapshot
<1>1. s.beat = beat /\ s.data \in {"NO_DATA", "UNKNOWN", "STALE", "UNAVAILABLE", "FRESH"}
  BY DEF Snapshot, DataState
<1> HIDE DEF s
<1>2. ASSUME NEW component \in {"EDGE", "LIDAR"}, NEW x
      PROVE  Present(Signature(s, component, x))
  BY <1>1 DEF Present, Signature, Kind, Kinds
<1>3. ASSUME NEW component \in {"FILL", "MEASUREMENT"}, NEW x, x # "STATUS_UNKNOWN"
      PROVE  Present(Signature(s, component, x))
  BY <1>3 DEF Present, Signature, Kind, Kinds
<1>4. CASE c \in FillConditions(s, state, enabled)
  <2>1. c = Signature(s, "FILL", state) /\ state \in {"CRITICAL", "WARNING"}
    BY <1>4 DEF FillConditions, Where
  <2> QED
    BY <1>3, <2>1
<1>5. CASE c \in HealthConditions(s)
  <2>1. \/ \E x : c = Signature(s, "EDGE", x)
        \/ \E x : c = Signature(s, "LIDAR", x)
        \/ c = Signature(s, "MEASUREMENT", s.data)
    BY <1>5 DEF HealthConditions, Where
  <2> QED
    BY <1>1, <1>2, <1>3, <2>1
<1> QED
  BY <1>4, <1>5 DEF s

LEMMA HealthInitially == HealthAssumption /\ HealthInit => HealthInv
<1> SUFFICES ASSUME HealthAssumption, HealthInit PROVE HealthInv
  OBVIOUS
<1> QED
  BY DEF HealthAssumption, HealthInit, HealthInv, HealthShape, OutagesAreNumbered, StartsAreSteady,
         ViewIsSteady, RowApplies

(* What the worker enters for the conditions it finds. *)
LEMMA RecordKeeps ==
    ASSUME HealthAssumption, HealthInv, NEW conditions, \A c \in conditions : Present(c),
           RecordStarts(conditions), UNCHANGED device, UNCHANGED view
    PROVE  HealthInv'
<1>1. HealthShape /\ OutagesAreNumbered /\ StartsAreSteady /\ ViewIsSteady
  BY DEF HealthInv
<1>2. StartLimit \in Nat /\ MaxLasted \in Nat
  BY StartLimitNat DEF HealthAssumption
<1>3. /\ beat' = beat /\ report' = report /\ reading' = reading /\ placed' = placed /\ view' = view
  BY DEF device
<1>4. /\ starts'.placed = placed /\ starts'.age = 0
      /\ \A e \in starts'.entries : e.what \in conditions /\ e.lasted = Lasted(e.what)
  BY DEF RecordStarts
<1>0. starts' = [placed |-> starts'.placed, age |-> starts'.age, entries |-> starts'.entries]
  BY DEF RecordStarts
<1>5. ASSUME NEW k \in Kinds
      PROVE  steady'[k] = IF \E c \in conditions \cap FoundBefore : Kind(c) = k THEN steady[k] ELSE 0
  BY DEF RecordStarts
<1>6. steady' \in [Kinds -> 0 .. MaxLasted]
  BY <1>1, <1>2 DEF RecordStarts, HealthShape
<1>7. ASSUME NEW c \in conditions
      PROVE  \/ Lasted(c) = 0
             \/ /\ starts # NoStarts /\ starts.placed = placed /\ starts.age < StartLimit
                /\ \E e \in starts.entries : e.what = c /\ Lasted(c) = Longer(e.lasted, starts.age)
  <2> DEFINE e == CHOOSE e \in starts.entries : e.what = c
  <2>1. CASE Continuous /\ \E d \in starts.entries : d.what = c
    <3>1. e \in starts.entries /\ e.what = c /\ Lasted(c) = Longer(e.lasted, starts.age)
      BY <2>1 DEF Lasted
    <3> HIDE DEF e
    <3> QED
      BY <2>1, <3>1 DEF Continuous
  <2>2. CASE ~(Continuous /\ \E d \in starts.entries : d.what = c)
    BY <2>2 DEF Lasted
  <2> QED
    BY <2>1, <2>2
<1>8. ASSUME NEW c \in conditions PROVE Lasted(c) \in 0 .. MaxLasted
  <2>1. ASSUME NEW e \in starts.entries, starts # NoStarts
        PROVE  Longer(e.lasted, starts.age) \in 0 .. MaxLasted
    <3>1. e.lasted \in Nat /\ starts.age \in Nat
      BY <1>1, <2>1 DEF HealthShape
    <3> QED
      BY <3>1, LongerBounds
  <2> QED
    BY <1>2, <1>7, <2>1
<1>9. HealthShape'
  <2>1. \A e \in starts'.entries : e.lasted \in 0 .. MaxLasted /\ Kind(e.what) \in Kinds
    BY <1>4, <1>8 DEF Present
  <2> QED
    BY <1>0, <1>1, <1>3, <1>4, <1>6, <2>1 DEF HealthShape, Kind
<1>10. OutagesAreNumbered'
  BY <1>1, <1>3, <1>4 DEF HealthShape, OutagesAreNumbered, Present, Kind
<1>11. StartsAreSteady'
  <2> SUFFICES ASSUME NEW e \in starts'.entries
               PROVE  Longer(e.lasted, 0) <= steady'[Kind(e.what)]
    BY <1>4 DEF StartsAreSteady, Kind
  <2> DEFINE c == e.what
             k == Kind(c)
  <2>1. c \in conditions /\ e.lasted = Lasted(c) /\ k \in Kinds /\ Present(c)
    BY <1>4 DEF Present
  <2>2. Longer(e.lasted, 0) = Lasted(c)
    BY <1>2, <1>8, <2>1 DEF Longer
  <2>3. steady'[k] \in 0 .. MaxLasted
    BY <1>6, <2>1
  <2>4. CASE Lasted(c) = 0
    BY <2>2, <2>3, <2>4
  <2>5. CASE Lasted(c) # 0
    <3>1. PICK d \in starts.entries : d.what = c /\ Lasted(c) = Longer(d.lasted, starts.age)
      BY <1>7, <2>1, <2>5
    <3>2. starts # NoStarts /\ starts.age < StartLimit
      BY <1>7, <2>1, <2>5
    <3>3. Longer(d.lasted, starts.age) <= steady[k]
      BY <1>1, <2>1, <3>1, <3>2 DEF StartsAreSteady
    <3>4. c \in conditions \cap FoundBefore
      BY <2>1, <3>1, <3>2 DEF FoundBefore
    <3>5. steady'[k] = steady[k]
      BY <1>5, <2>1, <3>4
    <3> QED
      BY <2>2, <3>1, <3>3, <3>5
  <2> QED
    BY <2>4, <2>5
<1>12. ViewIsSteady'
  <2> SUFFICES ASSUME view # NoView, RowApplies', NEW i \in view.items, NEW e \in starts'.entries,
                      e.what = i.what
               PROVE  Longer(e.lasted, starts'.age - view.age) <= i.steady
    BY <1>3 DEF ViewIsSteady
  <2>1. view.age = 0 /\ view.placed = placed /\ i.steady \in 0 .. MaxLasted
    BY <1>1, <1>3, <1>4 DEF HealthShape, RowApplies
  <2> DEFINE c == e.what
  <2>2. c \in conditions /\ e.lasted = Lasted(c)
    BY <1>4
  <2>3. Longer(e.lasted, starts'.age - view.age) = Lasted(c)
    BY <1>2, <1>4, <1>8, <2>1, <2>2 DEF Longer
  <2>4. CASE Lasted(c) = 0
    BY <2>1, <2>3, <2>4
  <2>5. CASE Lasted(c) # 0
    <3>1. PICK d \in starts.entries : d.what = c /\ Lasted(c) = Longer(d.lasted, starts.age)
      BY <1>7, <2>2, <2>5
    <3>2. starts # NoStarts /\ starts.age < StartLimit /\ starts.placed = placed /\ starts.age \in Nat
      BY <1>1, <1>7, <2>2, <2>5 DEF HealthShape
    <3>3. RowApplies /\ starts.age - view.age = starts.age
      BY <2>1, <3>2 DEF RowApplies
    <3>4. Longer(d.lasted, starts.age) <= i.steady
      BY <1>1, <3>1, <3>3 DEF ViewIsSteady
    <3> QED
      BY <2>3, <3>1, <3>4
  <2> QED
    BY <2>4, <2>5
<1> QED
  BY <1>9, <1>10, <1>11, <1>12 DEF HealthInv

LEMMA EvaluateKeeps ==
    ASSUME HealthAssumption, HealthInv, Evaluate
    PROVE  HealthInv'
<1> DEFINE found(state) == HealthConditions(Snapshot) \cup FillConditions(Snapshot, state, preAlert)
<1>1. UNCHANGED device /\ UNCHANGED view
  BY DEF Evaluate
<1>2. PICK conditions :
         /\ RecordStarts(conditions)
         /\ \E state : conditions \subseteq found(state)
  <2>1. CASE \E state : RecordStarts(found(state))
    BY <2>1
  <2>2. CASE RecordStarts(HealthConditions(Snapshot) \cup {})
    <3>1. HealthConditions(Snapshot) \cup {} \subseteq found("NORMAL")
      OBVIOUS
    <3> HIDE DEF found
    <3> QED
      BY <2>2, <3>1
  <2>3. \/ \E state : RecordStarts(found(state))
        \/ RecordStarts(HealthConditions(Snapshot) \cup {})
    BY DEF Evaluate
  <2> HIDE DEF found
  <2> QED
    BY <2>1, <2>2, <2>3
<1>3. \A c \in conditions : Present(c)
  BY <1>2, ConditionsArePresent
<1> QED
  BY <1>1, <1>2, <1>3, RecordKeeps

LEMMA ViewKeeps ==
    ASSUME HealthAssumption, HealthInv, View
    PROVE  HealthInv'
<1>1. HealthShape /\ OutagesAreNumbered /\ StartsAreSteady
  BY DEF HealthInv
<1>2. /\ UNCHANGED device /\ UNCHANGED <<rating, starts, steady>>
      /\ view'.placed = placed /\ view'.age = 0
      /\ \A i \in view'.items : Present(i.what) /\ i.steady = steady[Kind(i.what)]
  BY ConditionsArePresent DEF View
<1>0. view' = [placed |-> view'.placed, age |-> view'.age, items |-> view'.items]
  BY DEF View
<1>3. MaxReading \in Nat /\ StartLimit \in Nat
  BY StartLimitNat DEF HealthAssumption
<1>4. HealthShape'
  BY <1>0, <1>1, <1>2, <1>3 DEF HealthShape, device, Kind, Present
<1>5. OutagesAreNumbered' /\ StartsAreSteady'
  BY <1>1, <1>2 DEF OutagesAreNumbered, StartsAreSteady, device, Kind, Present
<1>6. ViewIsSteady'
  <2> SUFFICES ASSUME RowApplies', NEW i \in view'.items, NEW e \in starts.entries, e.what = i.what
               PROVE  Longer(e.lasted, starts.age - view'.age) <= i.steady
    BY <1>2 DEF ViewIsSteady
  <2>1. starts # NoStarts /\ starts.age < StartLimit /\ starts.age - view'.age = starts.age
    BY <1>1, <1>2, <1>3 DEF RowApplies, HealthShape
  <2> QED
    BY <1>1, <1>2, <2>1 DEF StartsAreSteady
<1> QED
  BY <1>4, <1>5, <1>6 DEF HealthInv

LEMMA ReceiveKeeps ==
    ASSUME HealthAssumption, HealthInv, NEW r \in Reports, ReceiveEdgeStatus(r)
    PROVE  HealthInv'
<1>1. HealthShape /\ OutagesAreNumbered /\ StartsAreSteady /\ ViewIsSteady
  BY DEF HealthInv
<1>2. /\ UNCHANGED <<placed, reading, starts, view>>
      /\ beat' = beat + 1 /\ steady' = [steady EXCEPT !["SILENT"] = 0]
      /\ report' = [what |-> r, age |-> -r.ahead]
  BY DEF ReceiveEdgeStatus
<1>3. MaxLasted \in Nat /\ r.ahead \in Int
  BY DEF HealthAssumption
<1>4. HealthShape'
  <2>0. beat' \in Nat /\ 0 \in 0 .. MaxLasted
    BY <1>1, <1>2, <1>3 DEF HealthShape
  <2>1. steady' \in [Kinds -> 0 .. MaxLasted]
    BY <1>1, <1>2, <2>0 DEF HealthShape
  <2>2. report' \in [what : Reports, age : Int]
    BY <1>2, <1>3
  <2> QED
    BY <1>1, <1>2, <2>0, <2>1, <2>2 DEF HealthShape, Kind
<1>5. OutagesAreNumbered'
  BY <1>1, <1>2 DEF HealthShape, OutagesAreNumbered, Kind
<1>6. StartsAreSteady'
  <2> SUFFICES ASSUME starts # NoStarts, starts.age < StartLimit, NEW e \in starts.entries,
                      Present(e.what)'
               PROVE  Longer(e.lasted, starts.age) <= steady'[Kind(e.what)]
    BY <1>2 DEF StartsAreSteady, Kind
  <2>1. Kind(e.what) # "SILENT"
    BY <1>1, <1>2 DEF HealthShape, OutagesAreNumbered, Present, Kind
  <2>2. steady'[Kind(e.what)] = steady[Kind(e.what)]
    BY <1>1, <1>2, <2>1 DEF HealthShape
  <2> QED
    BY <1>1, <2>1, <2>2 DEF StartsAreSteady, Present, HealthShape
<1>7. ViewIsSteady'
  BY <1>1, <1>2 DEF ViewIsSteady, RowApplies
<1> QED
  BY <1>4, <1>5, <1>6, <1>7 DEF HealthInv

LEMMA TickKeeps ==
    ASSUME HealthAssumption, HealthInv, HealthTick
    PROVE  HealthInv'
<1>1. HealthShape /\ OutagesAreNumbered /\ StartsAreSteady /\ ViewIsSteady
  BY DEF HealthInv
<1>2. /\ StartLimit \in Nat /\ MaxReading \in Nat /\ MaxLasted \in Nat
      /\ StatusTTL \in Nat /\ AssessmentTTL \in Nat
  BY StartLimitNat DEF HealthAssumption
<1>3. UNCHANGED <<placed, beat, preAlert>>
  BY DEF HealthTick
<1>4. \A a \in Int, limit \in Nat : Older(a, limit) \in Int
  BY DEF Older
<1>5. /\ report' # NoReport => report' \in [what : Reports, age : Int]
      /\ reading' # NoReading => reading' \in [what : Readings, age : Int]
  <2>1. ASSUME report # NoReport PROVE report' \in [what : Reports, age : Int]
    <3> DEFINE a == Older(report.age, StatusTTL + AssessmentTTL)
    <3>1. report \in [what : Reports, age : Int]
      BY <1>1, <2>1 DEF HealthShape
    <3>2. a \in Int
      BY <1>2, <1>4, <3>1
    <3>3. report' = [report EXCEPT !.age = a]
      BY <2>1 DEF HealthTick
    <3> HIDE DEF a
    <3> QED
      BY <3>1, <3>2, <3>3
  <2>2. ASSUME reading # NoReading PROVE reading' \in [what : Readings, age : Int]
    <3> DEFINE a == Older(reading.age, AssessmentTTL)
    <3>1. reading \in [what : Readings, age : Int]
      BY <1>1, <2>2 DEF HealthShape
    <3>2. a \in Int
      BY <1>2, <1>4, <3>1
    <3>3. reading' = [reading EXCEPT !.age = a]
      BY <2>2 DEF HealthTick
    <3> HIDE DEF a
    <3> QED
      BY <3>1, <3>2, <3>3
  <2>3. /\ report = NoReport => report' = NoReport
        /\ reading = NoReading => reading' = NoReading
    BY DEF HealthTick
  <2> QED
    BY <2>1, <2>2, <2>3
<1>6. ASSUME starts' # NoStarts
      PROVE  /\ starts # NoStarts /\ starts'.placed = starts.placed
             /\ starts'.entries = starts.entries
             /\ starts'.age = Older(starts.age, StartLimit + MaxReading)
             /\ starts' = [placed |-> starts'.placed, age |-> starts'.age, entries |-> starts'.entries]
  <2> DEFINE a == Older(starts.age, StartLimit + MaxReading)
  <2>1. starts # NoStarts /\ starts' = [starts EXCEPT !.age = a]
    BY <1>6 DEF HealthTick
  <2>2. starts = [placed |-> starts.placed, age |-> starts.age, entries |-> starts.entries]
    BY <1>1, <2>1 DEF HealthShape
  <2> HIDE DEF a
  <2>3. starts' = [placed |-> starts.placed, age |-> a, entries |-> starts.entries]
    BY <2>1, <2>2
  <2> QED
    BY <2>1, <2>3 DEF a
<1>7. ASSUME view' # NoView
      PROVE  /\ view # NoView /\ view'.placed = view.placed
             /\ view'.items = view.items /\ view'.age = view.age + 1 /\ view.age < MaxReading
             /\ view' = [placed |-> view'.placed, age |-> view'.age, items |-> view'.items]
  <2> DEFINE a == view.age + 1
  <2>1. view # NoView /\ view.age < MaxReading /\ view' = [view EXCEPT !.age = a]
    BY <1>7 DEF HealthTick
  <2>2. view = [placed |-> view.placed, age |-> view.age, items |-> view.items]
    BY <1>1, <2>1 DEF HealthShape
  <2> HIDE DEF a
  <2>3. view' = [placed |-> view.placed, age |-> a, items |-> view.items]
    BY <2>1, <2>2
  <2> QED
    BY <2>1, <2>3 DEF a
<1>8. starts # NoStarts => starts.age \in Nat /\ Older(starts.age, StartLimit + MaxReading) \in Nat
  BY <1>1, <1>2 DEF HealthShape, Older
<1>9. \A n \in 0 .. MaxLasted : Longer(n, 1) \in 0 .. MaxLasted
  BY <1>2 DEF Longer
<1>10. steady' \in [Kinds -> 0 .. MaxLasted]
  BY <1>1, <1>2, <1>9 DEF HealthTick, HealthShape
<1>11. HealthShape'
  <2>1. starts' # NoStarts =>
           /\ starts'.age \in Nat
           /\ \A e \in starts'.entries : e.lasted \in 0 .. MaxLasted /\ Kind(e.what) \in Kinds
    BY <1>1, <1>6, <1>8 DEF HealthShape
  <2>2. view' # NoView =>
           /\ view'.placed = placed /\ view'.age \in 0 .. MaxReading
           /\ \A i \in view'.items : i.steady \in 0 .. MaxLasted
    BY <1>1, <1>2, <1>7 DEF HealthShape
  <2> QED
    BY <1>1, <1>3, <1>5, <1>6, <1>7, <1>10, <2>1, <2>2 DEF HealthShape, Kind
<1>12. OutagesAreNumbered'
  BY <1>1, <1>3, <1>6 DEF OutagesAreNumbered, Kind
<1>13. StartsAreSteady'
  <2> SUFFICES ASSUME starts' # NoStarts, starts'.age < StartLimit, NEW e \in starts'.entries,
                      Present(e.what)
               PROVE  Longer(e.lasted, starts'.age) <= steady'[Kind(e.what)]
    BY <1>3 DEF StartsAreSteady, Present, Kind
  <2> DEFINE k == Kind(e.what)
  <2>1. starts'.age = starts.age + 1 /\ starts.age < StartLimit /\ starts.age \in Nat
    BY <1>2, <1>6, <1>8 DEF Older
  <2>2. e \in starts.entries /\ k \in Kinds /\ e.lasted \in Nat
    BY <1>1, <1>2, <1>6 DEF Present, HealthShape
  <2>3. Longer(e.lasted, starts.age) <= steady[k] /\ steady[k] \in 0 .. MaxLasted
    BY <1>1, <1>6, <2>1, <2>2 DEF StartsAreSteady, HealthShape
  <2>4. steady'[k] = Longer(steady[k], 1)
    BY <1>2, <1>6, <1>8, <2>1, <2>2 DEF HealthTick
  <2> HIDE DEF k
  <2> QED
    BY <1>2, <2>1, <2>2, <2>3, <2>4 DEF Longer, k
<1>14. ViewIsSteady'
  <2> SUFFICES ASSUME view' # NoView, RowApplies', NEW i \in view'.items, NEW e \in starts'.entries,
                      e.what = i.what
               PROVE  Longer(e.lasted, starts'.age - view'.age) <= i.steady
    BY DEF ViewIsSteady
  <2>1. starts' # NoStarts /\ starts'.placed = view'.placed
    BY DEF RowApplies
  <2>2. 0 <= starts'.age - view'.age /\ starts'.age - view'.age < StartLimit
    BY DEF RowApplies, StartLimit
  <2>3. starts.age \in Nat /\ view.age \in 0 .. MaxReading
    BY <1>1, <1>6, <1>7, <2>1 DEF HealthShape
  <2>4. starts'.age - view'.age = starts.age - view.age
    BY <1>2, <1>6, <1>7, <2>1, <2>2, <2>3 DEF Older
  <2>5. RowApplies
    BY <1>6, <1>7, <2>1, <2>2, <2>4 DEF RowApplies
  <2> QED
    BY <1>1, <1>6, <1>7, <2>1, <2>4, <2>5 DEF ViewIsSteady
<1> QED
  BY <1>11, <1>12, <1>13, <1>14 DEF HealthInv

LEMMA OtherSteps ==
    ASSUME HealthAssumption, HealthInv,
           \/ \E m \in Readings : ReceiveReading(m)
           \/ \E p \in Pits : Assign(p)
           \/ SetPolicy \/ Answer \/ UNCHANGED healthVars
    PROVE  HealthInv'
<1>1. HealthShape /\ OutagesAreNumbered /\ StartsAreSteady /\ ViewIsSteady
  BY DEF HealthInv
<1>2. UNCHANGED <<report, beat, starts, steady>>
  BY DEF ReceiveReading, Assign, SetPolicy, Answer, healthVars, device
<1>3. view' = NoView \/ (view' = view /\ placed' = placed)
  BY DEF ReceiveReading, Assign, SetPolicy, Answer, healthVars, device
<1>4. reading' = reading \/ reading' \in [what : Readings, age : Int]
  BY DEF ReceiveReading, Assign, SetPolicy, Answer, healthVars, device
<1>5. HealthShape'
  BY <1>1, <1>2, <1>3, <1>4 DEF HealthShape, Kind
<1>6. OutagesAreNumbered' /\ StartsAreSteady'
  BY <1>1, <1>2 DEF OutagesAreNumbered, StartsAreSteady, Present, Kind
<1>7. ViewIsSteady'
  BY <1>1, <1>2, <1>3 DEF ViewIsSteady, RowApplies
<1> QED
  BY <1>5, <1>6, <1>7 DEF HealthInv

(* The rules themselves: what is listed as checked and well was so.        *)
LEMMA AllClear == HealthAssumption /\ HealthShape => AllClearIsEvidenced
<1> SUFFICES ASSUME HealthAssumption, HealthShape, NEW k \in Checked(Snapshot),
                    k \notin {c.component : c \in HealthConditions(Snapshot)}
             PROVE  /\ heard < StatusTTL /\ report.age < StatusTTL
                    /\ k = "EDGE" => report.what.overall \in {"HEALTHY", "DEGRADED"}
                    /\ k = "LIDAR" => /\ report.what.sensor = "FRESH"
                                      /\ report.age + report.what.scanLag \in 0 .. AssessmentTTL - 1
                    /\ k = "MEASUREMENT" => /\ reading.age \in 0 .. AssessmentTTL - 1
                                            /\ reading.what.scope = report.what.scope
  BY DEF AllClearIsEvidenced
<1> DEFINE s == Snapshot
<1>1. /\ s.report = report /\ s.reporting = Reporting /\ s.data = DataState
  BY DEF Snapshot
<1>2. FreshStatus(s)
  BY DEF Checked
<1>3. /\ heard < StatusTTL /\ report.age < StatusTTL
      /\ report \in [what : Reports, age : Int]
  BY <1>1, <1>2 DEF FreshStatus, Reporting, HealthShape
<1>4. AssessmentTTL \in Nat /\ report.what.scanLag \in Int
  BY <1>3 DEF HealthAssumption
<1>5. \A component, x : Signature(s, component, x).component = component
  BY DEF Signature
<1>6. \A c \in HealthConditions(s) : c.component # k
  OBVIOUS
<1> HIDE DEF s
<1>7. CASE k = "EDGE"
  <2>1. ~EdgeAlarm(s)
    BY <1>2, <1>5, <1>6, <1>7 DEF HealthConditions, Where
  <2> QED
    BY <1>1, <1>3, <1>7, <2>1 DEF EdgeAlarm
<1>8. CASE k = "LIDAR"
  <2>1. ~SensorPreparing(s)
    BY <1>2, <1>8 DEF Checked, Where, s
  <2>2. ~(SensorState(s) # "FRESH" /\ ~SensorPreparing(s))
    BY <1>2, <1>5, <1>6, <1>8 DEF HealthConditions, Where
  <2>3. SensorState(s) = "FRESH"
    BY <2>1, <2>2
  <2> QED
    BY <1>1, <1>3, <1>4, <1>8, <2>3 DEF SensorState
<1>9. CASE k = "MEASUREMENT"
  <2>1. ~s.warming
    BY <1>2, <1>9 DEF Checked, Where, s
  <2>2. ~(s.data # "FRESH" /\ ~s.warming)
    BY <1>2, <1>5, <1>6, <1>9 DEF HealthConditions, Where
  <2>3. DataState = "FRESH"
    BY <1>1, <2>1, <2>2
  <2>4. reading # NoReading /\ reading.age \in Int
    BY <2>3 DEF DataState, HealthShape
  <2> QED
    BY <1>3, <1>4, <1>9, <2>3, <2>4 DEF DataState
<1> QED
  BY <1>3, <1>7, <1>8, <1>9 DEF Checked, Where

(* Of what the list of alarms says: the start time record_starts kept for  *)
(* an alarm is of this very condition, and a component without an alarm    *)
(* was reported well a moment ago; for any reports, clocks and limits.     *)
THEOREM AlarmsEvidenced == HealthSpec => []AlarmsAreEvidenced
<1>1. HealthInit => HealthInv
  BY HealthAssumption, HealthInitially
<1>2. HealthInv /\ [HealthNext]_healthVars => HealthInv'
  <2> SUFFICES ASSUME HealthInv, [HealthNext]_healthVars PROVE HealthInv'
    OBVIOUS
  <2> QED
    BY HealthAssumption, EvaluateKeeps, ViewKeeps, ReceiveKeeps, TickKeeps, OtherSteps DEF HealthNext
<1>3. HealthInv => AlarmsAreEvidenced
  <2> SUFFICES ASSUME HealthInv PROVE StartsAreContinuous /\ AllClearIsEvidenced
    BY DEF AlarmsAreEvidenced
  <2>1. AllClearIsEvidenced
    BY HealthAssumption, AllClear DEF HealthInv
  <2>2. ASSUME view # NoView, NEW i \in view.items PROVE Since(i.what) <= i.steady
    <3>1. i.steady \in Nat
      BY <2>2, HealthAssumption DEF HealthInv, HealthShape, HealthAssumption
    <3> DEFINE e == CHOOSE e \in starts.entries : e.what = i.what
    <3>2. CASE RowApplies /\ \E d \in starts.entries : d.what = i.what
      <4>1. e \in starts.entries /\ e.what = i.what
        BY <3>2
      <4>2. Since(i.what) = Longer(e.lasted, starts.age - view.age)
        BY <3>2 DEF Since
      <4> HIDE DEF e
      <4> QED
        BY <2>2, <3>2, <4>1, <4>2 DEF HealthInv, ViewIsSteady
    <3>3. CASE ~(RowApplies /\ \E d \in starts.entries : d.what = i.what)
      BY <3>1, <3>3 DEF Since, Unknown
    <3> QED
      BY <3>2, <3>3
  <2> QED
    BY <2>1, <2>2 DEF StartsAreContinuous
<1> QED
  BY <1>1, <1>2, <1>3, PTL DEF HealthSpec

HIDE CollectionAssumption DEF CollectionAssumption

-----------------------------------------------------------------------------
(***************************************************************************)
(* HeightWindow.  First the seconds of a window.                           *)
(***************************************************************************)

LEMMA WindowNumbers ==
    /\ Second \in Nat /\ Second > 0 /\ Size \in Nat /\ Size > 0
    /\ NoAnchor \notin Int
    /\ Duration \in Nat /\ Duration > 0 /\ HalfSecond \in Nat
    /\ Duration = Size * Second
<1>1. Second \in Nat /\ Second > 0 /\ Size \in Nat /\ Size > 0 /\ NoAnchor \notin Int
  BY WindowAssumption
<1>2. Duration = Size * Second
  BY DEF Duration
<1>3. Duration \in Nat /\ Duration > 0
  BY <1>1, <1>2
<1>4. HalfSecond \in Nat
  BY <1>1 DEF HalfSecond
<1> QED
  BY <1>1, <1>2, <1>3, <1>4

LEMMA QuotientBounds ==
    ASSUME NEW x \in Int, NEW d \in Nat, d > 0
    PROVE  x \div d \in Int /\ d * (x \div d) <= x /\ x < d * (x \div d) + d
OBVIOUS

LEMMA LargerProduct ==
    ASSUME NEW d \in Nat, NEW q \in Int, NEW r \in Int, q <= r
    PROVE  d * q <= d * r /\ d * (r - q) = d * r - d * q
OBVIOUS

(* Observations a second apart lie in different seconds, later ones in no  *)
(* earlier second, and n seconds lie apart only what is nearly n apart.    *)
LEMMA Seconds ==
    ASSUME NEW x \in Int, NEW y \in Int, NEW d \in Nat, d > 0
    PROVE  /\ x \div d \in Int /\ y \div d \in Int
           /\ x <= y => x \div d <= y \div d
           /\ x + d <= y => x \div d < y \div d
           /\ \A n \in Int : n <= y \div d - x \div d => d * (n - 1) + 1 <= y - x
<1> DEFINE q == x \div d
           r == y \div d
<1>1. q \in Int /\ d * q <= x /\ x < d * q + d
  BY QuotientBounds
<1>2. r \in Int /\ d * r <= y /\ y < d * r + d
  BY QuotientBounds
<1> HIDE DEF q, r
<1>3. x <= y => q <= r
  <2>1. SUFFICES ASSUME x <= y, r + 1 <= q PROVE FALSE
    BY <1>1, <1>2
  <2>2. d * (r + 1) <= d * q /\ d * (r + 1) = d * r + d
    BY <1>1, <1>2, <2>1, LargerProduct
  <2> DEFINE a == d * q
             b == d * r
  <2>3. a \in Int /\ b \in Int
    BY <1>1, <1>2
  <2>4. b + d <= a /\ a <= x /\ y < b + d
    BY <1>1, <1>2, <2>2
  <2> HIDE DEF a, b
  <2> QED
    BY <2>1, <2>3, <2>4
<1>4. x + d <= y => q < r
  <2>1. SUFFICES ASSUME x + d <= y, r <= q PROVE FALSE
    BY <1>1, <1>2
  <2>2. d * r <= d * q
    BY <1>1, <1>2, <2>1, LargerProduct
  <2> DEFINE a == d * q
             b == d * r
  <2>3. a \in Int /\ b \in Int
    BY <1>1, <1>2
  <2>4. b <= a /\ a <= x /\ y < b + d
    BY <1>1, <1>2, <2>2
  <2> HIDE DEF a, b
  <2> QED
    BY <2>1, <2>3, <2>4
<1>5. ASSUME NEW n \in Int, n <= r - q PROVE d * (n - 1) + 1 <= y - x
  <2>1. q + n <= r
    BY <1>1, <1>2, <1>5
  <2>2. d * (q + n) <= d * r /\ d * (q + n) = d * q + d * n /\ d * (n - 1) = d * n - d
    BY <1>1, <1>2, <2>1, LargerProduct
  <2> DEFINE a == d * q
             b == d * r
             c == d * n
             e == d * (n - 1)
  <2>3. a \in Int /\ b \in Int /\ c \in Int /\ e \in Int
    BY <1>1, <1>2
  <2>4. a + c <= b /\ e = c - d /\ b <= y /\ x < a + d
    BY <1>1, <1>2, <2>2
  <2> HIDE DEF a, b, c, e
  <2>5. e + 1 <= y - x
    BY <2>3, <2>4
  <2> QED
    BY <2>5 DEF e
<1> QED
  BY <1>1, <1>2, <1>3, <1>4, <1>5 DEF q, r

-----------------------------------------------------------------------------
(* Positions in their order.                                               *)

IsAscending(q, set) ==
    q \in [1 .. Cardinality(set) -> set] /\ \A i, j \in DOMAIN q : i < j => q[i] < q[j]

LEMMA OrderExists ==
    ASSUME NEW S \in SUBSET Nat, IsFiniteSet(S)
    PROVE  \E q \in [1 .. Cardinality(S) -> S] : \A i, j \in DOMAIN q : i < j => q[i] < q[j]
<1> DEFINE n == Cardinality(S)
           B(i) == {j \in S : j < i}
           p == [k \in 1 .. n |-> CHOOSE i \in S : Cardinality(B(i)) = k - 1]
<1>1. n \in Nat
  BY FS_CardinalityType
<1>2. ASSUME NEW k \in 1 .. n PROVE p[k] \in S /\ Cardinality(B(p[k])) = k - 1
  <2>1. k - 1 \in Nat /\ k - 1 < Cardinality(S)
    BY <1>1
  <2>2. \E i \in S : Cardinality(B(i)) = k - 1
    BY <2>1, Ranks
  <2> QED
    BY <2>2
<1>3. ASSUME NEW i \in S PROVE IsFiniteSet(B(i)) /\ Cardinality(B(i)) \in Nat
  <2>1. B(i) \in SUBSET S
    OBVIOUS
  <2> HIDE DEF B
  <2> QED
    BY <2>1, FS_Subset, FS_CardinalityType
<1>4. ASSUME NEW k \in 1 .. n, NEW l \in 1 .. n, k < l PROVE p[k] < p[l]
  <2>1. SUFFICES ASSUME ~(p[k] < p[l]) PROVE FALSE
    OBVIOUS
  <2>2. p[k] \in S /\ p[l] \in S /\ Cardinality(B(p[k])) = k - 1 /\ Cardinality(B(p[l])) = l - 1
    BY <1>2
  <2> HIDE DEF p
  <2>3. p[k] \in Nat /\ p[l] \in Nat /\ \A j \in S : j \in Nat
    BY <2>2
  <2>4. \A j \in S : j < p[l] => j < p[k]
    BY <2>1, <2>3
  <2>5. B(p[l]) \in SUBSET B(p[k])
    BY <2>4
  <2> HIDE DEF B
  <2>6. Cardinality(B(p[l])) <= Cardinality(B(p[k]))
    BY <1>3, <2>2, <2>5, FS_Subset
  <2> QED
    BY <1>1, <1>4, <2>2, <2>6
<1>5. p \in [1 .. n -> S]
  BY <1>2
<1>6. DOMAIN p = 1 .. n
  BY <1>5
<1> HIDE DEF p, n
<1>7. \A i, j \in DOMAIN p : i < j => p[i] < p[j]
  BY <1>4, <1>6
<1> QED
  BY <1>5, <1>7 DEF n

(* A set of positions in its order holds each of them once.                *)
LEMMA OrderOf ==
    ASSUME NEW N \in Nat, NEW S \in SUBSET (1 .. N)
    PROVE  /\ IsFiniteSet(S) /\ Cardinality(S) \in Nat
           /\ InOrder(S) \in [1 .. Cardinality(S) -> S]
           /\ \A i, j \in 1 .. Cardinality(S) : i < j => InOrder(S)[i] < InOrder(S)[j]
           /\ \A x \in S : \E i \in 1 .. Cardinality(S) : InOrder(S)[i] = x
<1> DEFINE n == Cardinality(S)
           q == InOrder(S)
<1>1. IsFiniteSet(S)
  <2>1. 1 \in Int /\ N \in Int
    OBVIOUS
  <2>2. IsFiniteSet(1 .. N)
    BY <2>1, FS_Interval
  <2> QED
    BY <2>2, FS_Subset
<1>2. n \in Nat
  BY <1>1, FS_CardinalityType
<1>3. S \in SUBSET Nat
  OBVIOUS
<1>4. q \in [1 .. n -> S] /\ \A i, j \in DOMAIN q : i < j => q[i] < q[j]
  <2>1. \E s \in [1 .. n -> S] : \A i, j \in DOMAIN s : i < j => s[i] < s[j]
    BY <1>1, <1>3, OrderExists
  <2> QED
    BY <2>1 DEF InOrder
<1> HIDE DEF q
<1>5. \A i, j \in 1 .. n : i < j => q[i] < q[j]
  BY <1>4
<1>6. q \in Injection(1 .. n, S)
  <2>1. ASSUME NEW i \in 1 .. n, NEW j \in 1 .. n, q[i] = q[j] PROVE i = j
    <3>1. q[i] \in Nat /\ q[j] \in Nat /\ i \in Int /\ j \in Int
      <4>1. q[i] \in S /\ q[j] \in S /\ i \in Int /\ j \in Int
        BY <1>2, <1>4, <2>1
      <4> QED
        BY <1>3, <4>1
    <3>2. i < j \/ j < i \/ i = j
      BY <3>1
    <3> QED
      BY <1>5, <2>1, <3>1, <3>2
  <2> QED
    BY <1>4, <2>1 DEF Injection, IsInjective
<1>7. Cardinality(1 .. n) = n
  BY <1>2, FS_Interval
<1>8. q \in Surjection(1 .. n, S)
  BY <1>1, <1>6, <1>7, FS_Injection
<1>9. \A x \in S : \E i \in 1 .. n : q[i] = x
  BY <1>8 DEF Surjection
<1> QED
  BY <1>1, <1>2, <1>4, <1>5, <1>9 DEF q

(* Numbers that ascend, and the last ones of them if these follow each     *)
(* other without a gap.                                                    *)
LEMMA Ascent ==
    ASSUME NEW n \in Nat \ {0}, NEW q, \A i \in 1 .. n : q[i] \in Int,
           \A i, j \in 1 .. n : i < j => q[i] < q[j]
    PROVE  \A k \in 1 .. n : q[1] + (k - 1) <= q[k]
<1> DEFINE T == {k \in Nat : k \in 1 .. n /\ ~(q[1] + (k - 1) <= q[k])}
<1>1. SUFFICES ASSUME T # {} PROVE FALSE
  OBVIOUS
<1>2. PICK k \in T : \A l \in T : k <= l
  <2>1. T \in SUBSET Nat
    OBVIOUS
  <2> HIDE DEF T
  <2> QED
    BY <1>1, <2>1, SmallestNat
<1>3. k \in 1 .. n /\ ~(q[1] + (k - 1) <= q[k])
  OBVIOUS
<1>4. k # 1
  BY <1>3
<1>5. k - 1 \in 1 .. n /\ k - 1 < k /\ k - 1 \notin T
  <2>1. k - 1 \in 1 .. n /\ k - 1 < k /\ ~(k <= k - 1)
    BY <1>3, <1>4
  <2> HIDE DEF T
  <2> QED
    BY <1>2, <2>1
<1>6. q[1] + (k - 2) <= q[k - 1] /\ q[k - 1] < q[k]
  <2>1. q[1] + ((k - 1) - 1) <= q[k - 1]
    BY <1>5
  <2> QED
    BY <1>3, <1>5, <2>1
<1>7. q[1] \in Int /\ q[k - 1] \in Int /\ q[k] \in Int
  BY <1>3, <1>5
<1> HIDE DEF T
<1> QED
  BY <1>3, <1>6, <1>7

Enumerates(q, n, S, N) ==
    /\ n \in Nat /\ N \in Nat
    /\ \A i \in 1 .. n : q[i] \in S
    /\ \A x \in S : x \in 1 .. N /\ \E i \in 1 .. n : q[i] = x
    /\ \A i, j \in 1 .. n : i < j => q[i] < q[j]

LEMMA LastOnes ==
    ASSUME NEW n \in Nat, NEW N \in Nat, NEW q, NEW S, NEW r \in Nat, Enumerates(q, n, S, N),
           \A k \in 0 .. r - 1 : N - k \in S
    PROVE  \A k \in 0 .. r - 1 : n - k \in 1 .. n /\ q[n - k] = N - k
<1>0. /\ n \in Nat /\ N \in Nat
      /\ \A i \in 1 .. n : q[i] \in S
      /\ \A x \in S : x \in 1 .. N /\ \E i \in 1 .. n : q[i] = x
      /\ \A i, j \in 1 .. n : i < j => q[i] < q[j]
  BY DEF Enumerates
<1> DEFINE T == {k \in Nat : k \in 0 .. r - 1 /\ ~(n - k \in 1 .. n /\ q[n - k] = N - k)}
<1>1. SUFFICES ASSUME T # {} PROVE FALSE
  <2>1. SUFFICES ASSUME NEW k \in 0 .. r - 1, ~(n - k \in 1 .. n /\ q[n - k] = N - k) PROVE T # {}
    OBVIOUS
  <2>2. k \in T
    BY <2>1
  <2> QED
    BY <2>2
<1>2. PICK k \in T : \A l \in T : k <= l
  <2>1. T \in SUBSET Nat
    OBVIOUS
  <2> HIDE DEF T
  <2> QED
    BY <1>1, <2>1, SmallestNat
<1>3. k \in 0 .. r - 1 /\ ~(n - k \in 1 .. n /\ q[n - k] = N - k)
  OBVIOUS
<1>4. PICK j \in 1 .. n : q[j] = N - k
  BY <1>0, <1>3
<1>5. \A i \in 1 .. n : q[i] \in 1 .. N
  BY <1>0
<1>6. CASE k = 0
  <2>1. j = n
    <3>1. SUFFICES ASSUME j < n PROVE FALSE
      BY <1>0, <1>4
    <3>2. q[j] < q[n] /\ q[n] \in 1 .. N
      BY <1>0, <1>5, <3>1
    <3> QED
      BY <1>0, <1>4, <1>6, <3>2
  <2> QED
    BY <1>0, <1>3, <1>4, <1>6, <2>1
<1>7. CASE k # 0
  <2>1. k - 1 \in 0 .. r - 1 /\ k - 1 \notin T
    <3>1. k - 1 \in 0 .. r - 1 /\ ~(k <= k - 1)
      BY <1>0, <1>3, <1>7
    <3> HIDE DEF T
    <3> QED
      BY <1>0, <1>2, <3>1
  <2>2. n - (k - 1) \in 1 .. n /\ q[n - (k - 1)] = N - (k - 1)
    BY <1>0, <2>1
  <2>3. j < n - (k - 1)
    <3>1. SUFFICES ASSUME n - (k - 1) <= j PROVE FALSE
      BY <1>0, <1>3, <1>4
    <3>2. q[n - (k - 1)] <= q[j]
      <4>1. CASE n - (k - 1) = j
        BY <1>0, <1>4, <1>5, <4>1
      <4>2. CASE n - (k - 1) < j
        <5>1. q[n - (k - 1)] < q[j]
          BY <1>0, <1>4, <2>2, <4>2
        <5> QED
          BY <1>0, <1>4, <1>5, <2>2, <5>1
      <4> QED
        BY <1>0, <1>3, <1>4, <3>1, <4>1, <4>2
    <3> QED
      BY <1>0, <1>3, <1>4, <2>2, <3>2
  <2>4. n - k \in 1 .. n /\ j <= n - k
    BY <1>0, <1>3, <1>4, <2>2, <2>3
  <2>5. q[n - k] < q[n - (k - 1)]
    BY <1>0, <1>3, <2>2, <2>4
  <2>6. q[n - k] <= N - k /\ q[n - k] \in Int
    BY <1>0, <1>3, <1>5, <2>2, <2>4, <2>5
  <2>7. j = n - k
    <3>1. SUFFICES ASSUME j < n - k PROVE FALSE
      BY <1>0, <1>3, <1>4, <2>4
    <3>2. q[j] < q[n - k]
      BY <1>0, <1>4, <2>4, <3>1
    <3> QED
      BY <1>0, <1>3, <1>4, <2>6, <3>2
  <2> QED
    BY <1>0, <1>3, <1>4, <2>4, <2>7
<1> QED
  BY <1>0, <1>6, <1>7

-----------------------------------------------------------------------------
(* What is selected of observations in the order of their times.           *)

Comes(before, N) ==
    /\ N \in Nat /\ N > 0 /\ before \in [1 .. N -> Int] /\ before[N] = 0
    /\ \A i, j \in 1 .. N : i < j => before[j] < before[i]

LEMMA CurrentOnes ==
    ASSUME NEW before, NEW N, Comes(before, N)
    PROVE  /\ Current(before) \subseteq 1 .. N /\ N \in Current(before)
           /\ \A i \in Current(before) : before[i] \in Int /\ 0 <= before[i] /\ before[i] <= Duration - 1
           /\ \A i \in 1 .. N : before[i] \in Int /\ 0 <= before[i]
           /\ \A i \in 1 .. N : before[i] <= Duration - 1 => i \in Current(before)
<1>1. N \in 1 .. N /\ DOMAIN before = 1 .. N
  BY DEF Comes
<1>2. ASSUME NEW i \in 1 .. N PROVE before[i] \in Int /\ 0 <= before[i]
  <2>1. i = N \/ i < N
    BY DEF Comes
  <2> QED
    BY <1>1, <2>1 DEF Comes
<1>3. 0 \in 0 .. Duration - 1
  BY WindowNumbers
<1> QED
  BY <1>1, <1>2, <1>3, WindowNumbers DEF Current, Comes

LEMMA AnchorIsNear ==
    ASSUME NEW before, NEW N, Comes(before, N), NEW anchor \in Int \union {NoAnchor}
    PROVE  AnchorAfter(before, anchor) \in 0 .. Duration - 1
<1>1. CASE anchor # NoAnchor /\ anchor \in 0 .. Duration - 1
  BY <1>1 DEF AnchorAfter
<1>2. CASE ~(anchor # NoAnchor /\ anchor \in 0 .. Duration - 1)
  <2> DEFINE least == CHOOSE i \in Current(before) : \A j \in Current(before) : i <= j
  <2>1. Current(before) \in SUBSET Nat /\ Current(before) # {}
    BY CurrentOnes DEF Comes
  <2>2. least \in Current(before)
    BY <2>1, SmallestNat
  <2>3. AnchorAfter(before, anchor) = before[least]
    BY <1>2 DEF AnchorAfter
  <2> HIDE DEF least
  <2> QED
    BY <2>2, <2>3, CurrentOnes, WindowNumbers
<1> QED
  BY <1>1, <1>2

LEMMA SlotsAscend ==
    ASSUME NEW before, NEW N, Comes(before, N), NEW anchor \in Int \union {NoAnchor},
           NEW i \in 1 .. N, NEW j \in 1 .. N
    PROVE  /\ Slot(before, anchor, i) \in Int /\ Slot(before, anchor, j) \in Int
           /\ i <= j => Slot(before, anchor, i) <= Slot(before, anchor, j)
           /\ before[j] + Second <= before[i] => Slot(before, anchor, i) < Slot(before, anchor, j)
           /\ \A n \in Int : n <= Slot(before, anchor, j) - Slot(before, anchor, i) =>
                  Second * (n - 1) + 1 <= before[i] - before[j]
<1> DEFINE a == AnchorAfter(before, anchor)
           x == a - before[i] + HalfSecond
           y == a - before[j] + HalfSecond
<1>1. a \in Int /\ HalfSecond \in Int /\ Second \in Nat /\ Second > 0
  BY AnchorIsNear, WindowNumbers
<1>2. before[i] \in Int /\ before[j] \in Int
  BY CurrentOnes
<1>3. i <= j => before[j] <= before[i]
  <2>1. i < j \/ i = j \/ ~(i <= j)
    BY DEF Comes
  <2> QED
    BY <1>2, <2>1 DEF Comes
<1>4. Slot(before, anchor, i) = x \div Second /\ Slot(before, anchor, j) = y \div Second
  BY DEF Slot
<1> HIDE DEF a
<1>5. x \in Int /\ y \in Int /\ y - x = before[i] - before[j]
  BY <1>1, <1>2
<1>6. (i <= j => x <= y) /\ (before[j] + Second <= before[i] => x + Second <= y)
  BY <1>1, <1>2, <1>3
<1> HIDE DEF x, y
<1>7. /\ x \div Second \in Int /\ y \div Second \in Int
      /\ x <= y => x \div Second <= y \div Second
      /\ x + Second <= y => x \div Second < y \div Second
      /\ \A n \in Int : n <= y \div Second - x \div Second => Second * (n - 1) + 1 <= y - x
  BY <1>1, <1>5, Seconds
<1> QED
  BY <1>4, <1>5, <1>6, <1>7

LEMMA SelectedOnes ==
    ASSUME NEW before, NEW N, Comes(before, N), NEW anchor \in Int \union {NoAnchor}
    PROVE  /\ Selected(before, anchor) \in SUBSET (1 .. N) /\ N \in Selected(before, anchor)
           /\ Selected(before, anchor) \subseteq Current(before)
           /\ Cardinality(Selected(before, anchor)) <= Size
           /\ \A i, j \in Selected(before, anchor) :
                  i < j => Slot(before, anchor, i) < Slot(before, anchor, j)
<1> DEFINE L == LatestOfSlots(before, anchor)
           S == Selected(before, anchor)
           After(i) == {j \in L : j >= i}
<1>1. N \in Nat /\ N > 0 /\ N \in 1 .. N
  BY DEF Comes
<1>2. Current(before) \subseteq 1 .. N /\ N \in Current(before)
  BY CurrentOnes
<1>3. L \subseteq Current(before) /\ N \in L
  <2>1. \A j \in Current(before) : ~(j > N)
    BY <1>1, <1>2
  <2> QED
    BY <1>2, <2>1 DEF LatestOfSlots
<1>4. S = {i \in L : Cardinality(After(i)) <= Size}
  BY DEF Selected
<1>5. \A i, j \in L : i < j => Slot(before, anchor, i) < Slot(before, anchor, j)
  <2>1. ASSUME NEW i \in L, NEW j \in L, i < j PROVE Slot(before, anchor, i) < Slot(before, anchor, j)
    <3>1. i \in 1 .. N /\ j \in 1 .. N /\ i <= j /\ j > i
      BY <1>1, <1>2, <1>3, <2>1
    <3>2. Slot(before, anchor, j) # Slot(before, anchor, i)
      BY <1>3, <3>1 DEF LatestOfSlots
    <3>3. /\ Slot(before, anchor, i) \in Int /\ Slot(before, anchor, j) \in Int
          /\ Slot(before, anchor, i) <= Slot(before, anchor, j)
      BY <3>1, SlotsAscend
    <3> QED
      BY <3>2, <3>3
  <2> QED
    BY <2>1
<1>6. IsFiniteSet(L)
  <2>1. L \in SUBSET (1 .. N) /\ 1 \in Int /\ N \in Int
    BY <1>1, <1>2, <1>3
  <2>2. IsFiniteSet(1 .. N)
    BY <2>1, FS_Interval
  <2> HIDE DEF L
  <2> QED
    BY <2>1, <2>2, FS_Subset
<1> HIDE DEF L, S
<1>7. ASSUME NEW i \in L PROVE IsFiniteSet(After(i)) /\ Cardinality(After(i)) \in Nat
  <2>1. After(i) \in SUBSET L
    OBVIOUS
  <2> HIDE DEF After
  <2> QED
    BY <1>6, <2>1, FS_Subset, FS_CardinalityType
<1>8. N \in S
  <2>1. After(N) = {N}
    <3>1. \A j \in L : j >= N => j = N
      BY <1>1, <1>2, <1>3
    <3>2. N >= N
      BY <1>1
    <3> QED
      BY <1>3, <3>1, <3>2
  <2> HIDE DEF After
  <2>2. Cardinality(After(N)) = 1
    BY <2>1, FS_Singleton
  <2> QED
    BY <1>3, <1>4, <2>2, WindowNumbers
<1>9. S \subseteq L /\ S \in SUBSET (1 .. N)
  BY <1>2, <1>3, <1>4
<1>10. Cardinality(S) <= Size
  <2>1. PICK i \in S : \A j \in S : i <= j
    <3>1. S \in SUBSET Nat /\ S # {}
      BY <1>8, <1>9
    <3> QED
      BY <3>1, SmallestNat
  <2>2. i \in L /\ Cardinality(After(i)) <= Size
    BY <1>4
  <2>3. S \in SUBSET After(i)
    <3>1. ASSUME NEW j \in S PROVE j \in L /\ j >= i
      <4>1. j \in L /\ j \in Nat /\ i \in Nat /\ i <= j
        BY <1>9, <2>1
      <4> QED
        BY <4>1
    <3> QED
      BY <3>1
  <2> HIDE DEF After
  <2>4. IsFiniteSet(S) /\ Cardinality(S) <= Cardinality(After(i))
    BY <1>7, <2>2, <2>3, FS_Subset
  <2>5. Cardinality(S) \in Nat /\ Cardinality(After(i)) \in Nat
    BY <1>7, <2>2, <2>4, FS_CardinalityType
  <2> QED
    BY <2>2, <2>4, <2>5, WindowNumbers
<1> QED
  BY <1>3, <1>5, <1>8, <1>9, <1>10 DEF S

(* Observations exactly a second apart are all selected. *)
LEMMA SteadyOnes ==
    ASSUME NEW before, NEW N, Comes(before, N), NEW anchor \in Int \union {NoAnchor},
           NEW r \in Nat, r <= Size, r <= N, \A k \in 0 .. r - 1 : before[N - k] = Second * k
    PROVE  \A k \in 0 .. r - 1 : N - k \in Selected(before, anchor)
<1> DEFINE L == LatestOfSlots(before, anchor)
<1>1. N \in Nat /\ N > 0
  BY DEF Comes
<1>2. ASSUME NEW k \in 0 .. r - 1 PROVE N - k \in 1 .. N /\ N - k \in Current(before)
  <2>1. N - k \in 1 .. N /\ before[N - k] = Second * k
    BY <1>1
  <2>2. k <= Size - 1
    BY WindowNumbers
  <2>3. Second * k <= Second * (Size - 1) /\ Second * (Size - 1) = Second * Size - Second
    BY <2>2, WindowNumbers, LargerProduct
  <2> DEFINE a == Second * k
             b == Second * Size
  <2>4. a \in Int /\ b \in Int /\ Duration = b
    BY WindowNumbers
  <2>5. a <= b - Second
    BY <2>3
  <2> HIDE DEF a, b
  <2>6. a <= Duration - 1
    BY <2>4, <2>5, WindowNumbers
  <2>7. before[N - k] <= Duration - 1
    BY <2>1, <2>6 DEF a
  <2> QED
    BY <2>1, <2>7, CurrentOnes
<1>3. ASSUME NEW k \in 0 .. r - 1 PROVE N - k \in L
  <2>1. ASSUME NEW j \in Current(before), j > N - k
        PROVE  Slot(before, anchor, j) # Slot(before, anchor, N - k)
    <3>1. j \in 1 .. N /\ N - k \in 1 .. N
      BY <1>2, CurrentOnes
    <3>2. N - j \in 0 .. r - 1 /\ N - (N - j) = j /\ (N - j) + 1 <= k
      BY <1>1, <2>1, <3>1
    <3>3. before[j] = Second * (N - j) /\ before[N - k] = Second * k
      BY <3>2
    <3>4. Second * ((N - j) + 1) <= Second * k /\ Second * ((N - j) + 1) = Second * (N - j) + Second
      BY <1>1, <3>1, <3>2, WindowNumbers, LargerProduct
    <3>5. before[j] + Second <= before[N - k]
      BY <3>3, <3>4
    <3>6. /\ Slot(before, anchor, N - k) \in Int /\ Slot(before, anchor, j) \in Int
          /\ Slot(before, anchor, N - k) < Slot(before, anchor, j)
      BY <3>1, <3>5, SlotsAscend
    <3> QED
      BY <3>6
  <2> QED
    BY <1>2, <2>1 DEF LatestOfSlots
<1>4. L \subseteq 1 .. N
  BY CurrentOnes DEF LatestOfSlots
<1> HIDE DEF L
<1>5. ASSUME NEW k \in 0 .. r - 1 PROVE Cardinality({j \in L : j >= N - k}) <= Size
  <2> DEFINE A == {j \in L : j >= N - k}
  <2>1. A \in SUBSET (N - k .. N)
    <3>1. \A j \in L : j \in Int /\ j <= N
      BY <1>1, <1>4
    <3>2. N - k \in Int
      BY <1>1
    <3> QED
      BY <1>1, <3>1, <3>2
  <2>2. N - k \in Int /\ N \in Int /\ ~(N - k > N)
    BY <1>1
  <2>3. IsFiniteSet(N - k .. N) /\ Cardinality(N - k .. N) = N - (N - k) + 1
    BY <2>2, FS_Interval
  <2> HIDE DEF A
  <2>4. Cardinality(A) <= Cardinality(N - k .. N) /\ IsFiniteSet(A)
    BY <2>1, <2>3, FS_Subset
  <2>5. Cardinality(A) \in Nat
    BY <2>4, FS_CardinalityType
  <2>6. Cardinality(A) <= Size
    BY <1>1, <2>3, <2>4, <2>5, WindowNumbers
  <2> QED
    BY <2>6 DEF A
<1> QED
  BY <1>3, <1>5 DEF L, Selected

-----------------------------------------------------------------------------
(* What a scan adds to the frames of a sensor.                             *)

(* Scans in the order they were made, of the last seconds, as far apart as *)
(* their number tells.                                                     *)
IsStretch(frames) ==
    /\ frames \in Seq(Frames) /\ Len(frames) <= Size
    /\ \A i, j \in 1 .. Len(frames) : i < j => frames[j].age < frames[i].age
    /\ frames # <<>> => frames[1].age - Last(frames).age <= Duration - 1
    /\ Len(frames) = Size => Second * (Size - 2) + 1 <= frames[1].age - Last(frames).age

(* The last r were made a second apart. *)
IsSteady(frames, r) ==
    /\ r \in Nat /\ r <= Size /\ r <= Len(frames)
    /\ \A k \in 0 .. r - 1 : frames[Len(frames) - k].age = Last(frames).age + Second * k

FrameOf(scan) == [age |-> scan.age, heights |-> Kept(scan)]
WithScan(old, scan) == Append(old, FrameOf(scan))
BeforeScan(old, scan) ==
    [i \in DOMAIN WithScan(old, scan) |-> WithScan(old, scan)[i].age - scan.age]
ChosenOf(old, scan, anchor) == InOrder(Selected(BeforeScan(old, scan), anchor))
FramesAfter(old, scan, anchor) ==
    [i \in DOMAIN ChosenOf(old, scan, anchor) |-> WithScan(old, scan)[ChosenOf(old, scan, anchor)[i]]]

LEMMA FrameOfScan ==
    ASSUME NEW scan \in Scans
    PROVE  FrameOf(scan) \in Frames /\ FrameOf(scan).age = scan.age /\ scan.age \in Nat
           /\ Kept(scan) \in KeptLists
<1>1. scan.age \in Nat /\ scan.basis \in Bases /\ scan.heights \in HeightLists
  BY DEF Scans
<1>2. Kept(scan) = Kept([age |-> 0, basis |-> scan.basis, heights |-> scan.heights])
  BY DEF Kept
<1>3. Kept(scan) \in KeptLists
  BY <1>1, <1>2 DEF KeptLists
<1> QED
  BY <1>1, <1>3 DEF FrameOf, Frames

LEMMA ScansCome ==
    ASSUME NEW old, IsStretch(old), NEW scan \in Scans, old # <<>> => scan.age < Last(old).age
    PROVE  /\ WithScan(old, scan) \in Seq(Frames)
           /\ Len(WithScan(old, scan)) = Len(old) + 1 /\ Len(old) \in Nat
           /\ WithScan(old, scan)[Len(old) + 1] = FrameOf(scan)
           /\ \A i \in 1 .. Len(old) : WithScan(old, scan)[i] = old[i]
           /\ DOMAIN BeforeScan(old, scan) = 1 .. Len(old) + 1
           /\ \A i \in 1 .. Len(old) + 1 :
                  BeforeScan(old, scan)[i] = WithScan(old, scan)[i].age - scan.age
           /\ Comes(BeforeScan(old, scan), Len(old) + 1)
<1> DEFINE new == WithScan(old, scan)
           N == Len(old) + 1
           before == BeforeScan(old, scan)
<1>1. old \in Seq(Frames) /\ FrameOf(scan) \in Frames /\ FrameOf(scan).age = scan.age /\ scan.age \in Nat
  BY FrameOfScan DEF IsStretch
<1>2. /\ new \in Seq(Frames) /\ Len(new) = N /\ Len(old) \in Nat /\ DOMAIN new = 1 .. N
      /\ new[N] = FrameOf(scan) /\ \A i \in 1 .. Len(old) : new[i] = old[i]
  BY <1>1 DEF WithScan
<1>3. DOMAIN before = 1 .. N /\ \A i \in 1 .. N : before[i] = new[i].age - scan.age
  BY <1>2 DEF BeforeScan
<1>4. \A i \in 1 .. N : new[i].age \in Nat
  <2>1. \A i \in 1 .. N : new[i] \in Frames
    BY <1>2
  <2> QED
    BY <2>1 DEF Frames
<1> HIDE DEF new
<1>5. ASSUME NEW i \in 1 .. N, NEW j \in 1 .. N, i < j PROVE new[j].age < new[i].age
  <2>1. CASE j = N
    <3>1. old # <<>> /\ i \in 1 .. Len(old) /\ Len(old) \in 1 .. Len(old)
      BY <1>1, <1>2, <1>5, <2>1
    <3>2. scan.age < old[Len(old)].age
      BY <3>1 DEF Last
    <3>3. old[Len(old)].age <= old[i].age
      <4>1. i = Len(old) \/ i < Len(old)
        BY <1>2, <3>1
      <4>2. old[i].age \in Nat /\ old[Len(old)].age \in Nat
        BY <1>2, <1>4, <3>1
      <4> QED
        BY <3>1, <4>1, <4>2 DEF IsStretch
    <3>4. new[i] = old[i] /\ new[j].age = scan.age /\ old[i].age \in Nat /\ old[Len(old)].age \in Nat
      BY <1>1, <1>2, <1>4, <2>1, <3>1
    <3> QED
      BY <1>1, <3>2, <3>3, <3>4
  <2>2. CASE j # N
    <3>1. i \in 1 .. Len(old) /\ j \in 1 .. Len(old)
      BY <1>2, <1>5, <2>2
    <3> QED
      BY <1>2, <1>5, <3>1 DEF IsStretch
  <2> QED
    BY <2>1, <2>2
<1>6. before = [i \in 1 .. N |-> new[i].age - scan.age]
  BY <1>2 DEF BeforeScan, new
<1> HIDE DEF before
<1>7. \A i \in 1 .. N : before[i] = new[i].age - scan.age /\ before[i] \in Int
  BY <1>1, <1>3, <1>4
<1>8. before \in [1 .. N -> Int]
  BY <1>1, <1>4, <1>6
<1>9. before[N] = 0
  BY <1>1, <1>2, <1>7
<1>10. ASSUME NEW i \in 1 .. N, NEW j \in 1 .. N, i < j PROVE before[j] < before[i]
  <2>1. new[j].age < new[i].age
    BY <1>5, <1>10
  <2>2. new[i].age \in Nat /\ new[j].age \in Nat
    BY <1>4
  <2> HIDE DEF N
  <2> QED
    BY <1>1, <1>7, <2>1, <2>2
<1>11. Comes(before, N)
  BY <1>2, <1>8, <1>9, <1>10 DEF Comes
<1> QED
  BY <1>2, <1>3, <1>11 DEF new, before

(* Of the frames with the scan, the chosen ones in their order. *)
LEMMA ChosenOnes ==
    ASSUME NEW old, IsStretch(old), NEW scan \in Scans, old # <<>> => scan.age < Last(old).age,
           NEW anchor \in Int \union {NoAnchor}
    PROVE  LET N == Len(old) + 1
               new == WithScan(old, scan)
               before == BeforeScan(old, scan)
               S == Selected(before, anchor)
               n == Cardinality(S)
               q == ChosenOf(old, scan, anchor)
               after == FramesAfter(old, scan, anchor)
           IN  /\ N \in Nat /\ N > 0 /\ n \in Nat /\ n > 0 /\ n <= Size
               /\ Enumerates(q, n, S, N) /\ q[n] = N
               /\ after \in Seq(Frames) /\ Len(after) = n /\ \A i \in 1 .. n : after[i] = new[q[i]]
               /\ \A i \in 1 .. n : before[q[i]] = after[i].age - scan.age
<1> DEFINE N == Len(old) + 1
           new == WithScan(old, scan)
           before == BeforeScan(old, scan)
           S == Selected(before, anchor)
           n == Cardinality(S)
           q == ChosenOf(old, scan, anchor)
           after == FramesAfter(old, scan, anchor)
<1>1. /\ new \in Seq(Frames) /\ Len(new) = N /\ Len(old) \in Nat /\ new[N] = FrameOf(scan)
      /\ \A i \in 1 .. Len(old) : new[i] = old[i]
      /\ \A i \in 1 .. N : before[i] = new[i].age - scan.age
      /\ Comes(before, N)
  BY ScansCome
<1>2. scan.age \in Nat /\ FrameOf(scan).age = scan.age
  BY FrameOfScan
<1> HIDE DEF new, before
<1>3. /\ S \in SUBSET (1 .. N) /\ N \in S /\ S \subseteq Current(before) /\ n <= Size
      /\ \A i, j \in S : i < j => Slot(before, anchor, i) < Slot(before, anchor, j)
  BY <1>1, SelectedOnes
<1>4. N \in Nat /\ N > 0
  BY <1>1
<1> HIDE DEF S
<1>5. /\ n \in Nat /\ InOrder(S) \in [1 .. n -> S]
      /\ \A i, j \in 1 .. n : i < j => InOrder(S)[i] < InOrder(S)[j]
      /\ \A x \in S : \E i \in 1 .. n : InOrder(S)[i] = x
  BY <1>3, <1>4, OrderOf
<1>6. q = InOrder(S)
  BY DEF ChosenOf, S, before
<1> HIDE DEF q, n
<1>7. n \in Nat /\ n > 0 /\ \A i \in 1 .. n : q[i] \in S /\ q[i] \in 1 .. N
  <2>1. n # 0
    BY <1>3, <1>5
  <2>2. \A i \in 1 .. n : q[i] \in S
    BY <1>5, <1>6
  <2>3. \A i \in 1 .. n : q[i] \in 1 .. N
    BY <1>3, <2>2
  <2>4. n \in Nat /\ n > 0
    BY <1>5, <2>1
  <2> QED
    BY <2>2, <2>3, <2>4
<1>8. \A i, j \in 1 .. n : i < j => q[i] < q[j]
  BY <1>5, <1>6
<1>9. q[n] = N
  <2>1. PICK i \in 1 .. n : q[i] = N
    BY <1>3, <1>5, <1>6
  <2>2. ~(i < n)
    <3>1. SUFFICES ASSUME i < n PROVE FALSE
      OBVIOUS
    <3>2. q[i] < q[n] /\ q[n] \in 1 .. N
      BY <1>7, <1>8, <3>1
    <3> QED
      BY <1>4, <2>1, <3>2
  <2> QED
    BY <1>7, <2>1, <2>2
<1>10. after = [i \in 1 .. n |-> new[q[i]]]
  BY <1>5, <1>6 DEF FramesAfter, q, new
<1> HIDE DEF after
<1>11. after \in Seq(Frames) /\ Len(after) = n /\ \A i \in 1 .. n : after[i] = new[q[i]]
  <2>1. \A i \in 1 .. n : new[q[i]] \in Frames
    BY <1>1, <1>7
  <2> QED
    BY <1>7, <1>10, <2>1
<1>12. \A i \in 1 .. n : before[q[i]] = after[i].age - scan.age
  BY <1>1, <1>7, <1>11
<1>13. \A x \in S : x \in 1 .. N /\ \E i \in 1 .. n : q[i] = x
  BY <1>3, <1>5, <1>6
<1>14. Enumerates(q, n, S, N)
  BY <1>4, <1>7, <1>8, <1>13 DEF Enumerates
<1> QED
  BY <1>3, <1>4, <1>7, <1>9, <1>11, <1>12, <1>14 DEF new, before, S, n, q, after

LEMMA FramesLeft ==
    ASSUME NEW old, IsStretch(old), NEW scan \in Scans, old # <<>> => scan.age < Last(old).age,
           NEW anchor \in Int \union {NoAnchor}
    PROVE  LET after == FramesAfter(old, scan, anchor)
           IN  /\ IsStretch(after) /\ after # <<>> /\ Last(after) = FrameOf(scan)
               /\ after[1].age <= IF old = <<>> THEN scan.age ELSE old[1].age
               /\ IsSteady(after, 1)
<1> DEFINE N == Len(old) + 1
           new == WithScan(old, scan)
           before == BeforeScan(old, scan)
           S == Selected(before, anchor)
           n == Cardinality(S)
           q == ChosenOf(old, scan, anchor)
           after == FramesAfter(old, scan, anchor)
<1>1. /\ new \in Seq(Frames) /\ Len(new) = N /\ Len(old) \in Nat /\ new[N] = FrameOf(scan)
      /\ \A i \in 1 .. Len(old) : new[i] = old[i]
      /\ \A i \in 1 .. N : before[i] = new[i].age - scan.age
      /\ Comes(before, N)
  BY ScansCome
<1>2. scan.age \in Nat /\ FrameOf(scan).age = scan.age
  BY FrameOfScan
<1>3. /\ S \subseteq Current(before) /\ n <= Size
      /\ \A i, j \in S : i < j => Slot(before, anchor, i) < Slot(before, anchor, j)
  BY <1>1, SelectedOnes
<1>4. /\ N \in Nat /\ N > 0 /\ n \in Nat /\ n > 0 /\ n <= Size
      /\ Enumerates(q, n, S, N) /\ q[n] = N
      /\ after \in Seq(Frames) /\ Len(after) = n /\ \A i \in 1 .. n : after[i] = new[q[i]]
      /\ \A i \in 1 .. n : before[q[i]] = after[i].age - scan.age
  BY ChosenOnes
<1> HIDE DEF new, before, S, q, n, after
<1>6. S \subseteq 1 .. N
  BY <1>1, SelectedOnes DEF S
<1>7. n \in Nat /\ n > 0 /\ \A i \in 1 .. n : q[i] \in S /\ q[i] \in 1 .. N
  BY <1>4, <1>6 DEF Enumerates
<1>8. \A i, j \in 1 .. n : i < j => q[i] < q[j]
  BY <1>4 DEF Enumerates
<1>9. q[n] = N
  BY <1>4
<1>11. after \in Seq(Frames) /\ Len(after) = n /\ \A i \in 1 .. n : after[i] = new[q[i]]
  BY <1>4
<1>12. Last(after) = FrameOf(scan) /\ after[n] = FrameOf(scan) /\ after # <<>>
  BY <1>1, <1>7, <1>9, <1>11 DEF Last
<1>13. \A i \in 1 .. n : /\ after[i].age \in Nat /\ after[i].age - scan.age = before[q[i]]
                         /\ before[q[i]] \in Int /\ 0 <= before[q[i]] /\ before[q[i]] <= Duration - 1
  <2>1. \A i \in 1 .. n : after[i].age \in Nat
    <3>1. \A i \in 1 .. n : after[i] \in Frames
      BY <1>11
    <3> QED
      BY <3>1 DEF Frames
  <2>2. \A i \in 1 .. n : q[i] \in Current(before)
    BY <1>3, <1>7
  <2>3. \A i \in Current(before) : before[i] \in Int /\ 0 <= before[i] /\ before[i] <= Duration - 1
    BY <1>1, CurrentOnes
  <2>4. \A i \in 1 .. n : before[q[i]] = after[i].age - scan.age
    BY <1>1, <1>7, <1>11
  <2> QED
    BY <2>1, <2>2, <2>3, <2>4
<1>14. ASSUME NEW i \in 1 .. n, NEW j \in 1 .. n, i < j PROVE after[j].age < after[i].age
  <2>1. q[i] \in 1 .. N /\ q[j] \in 1 .. N /\ q[i] < q[j]
    BY <1>7, <1>8, <1>14
  <2>2. before[q[j]] < before[q[i]]
    BY <1>1, <2>1 DEF Comes
  <2> QED
    BY <1>2, <1>13, <2>2
<1>15. 1 \in 1 .. n /\ n \in 1 .. n
  BY <1>7
<1>16. after[1].age - Last(after).age <= Duration - 1
  BY <1>2, <1>12, <1>13, <1>15
<1>17. ASSUME n = Size PROVE Second * (Size - 2) + 1 <= after[1].age - Last(after).age
  <2> DEFINE slot == [i \in 1 .. n |-> Slot(before, anchor, q[i])]
  <2>1. \A i \in 1 .. n : slot[i] \in Int
    <3>1. \A i \in 1 .. N : Slot(before, anchor, i) \in Int
      BY <1>1, SlotsAscend
    <3> QED
      BY <1>7, <3>1
  <2>2. \A i, j \in 1 .. n : i < j => slot[i] < slot[j]
    BY <1>3, <1>7, <1>8
  <2>3. slot[1] = Slot(before, anchor, q[1]) /\ slot[n] = Slot(before, anchor, q[n])
    BY <1>15
  <2> HIDE DEF slot
  <2>4. slot[1] + (n - 1) <= slot[n]
    <3>1. n \in Nat \ {0}
      BY <1>7
    <3>2. \A k \in 1 .. n : slot[1] + (k - 1) <= slot[k]
      BY ONLY <3>1, <2>1, <2>2, Ascent
    <3> QED
      BY <1>15, <3>2
  <2>5. n - 1 <= Slot(before, anchor, q[n]) - Slot(before, anchor, q[1])
    BY <1>7, <1>15, <2>1, <2>3, <2>4
  <2>6. n - 1 \in Int /\ q[1] \in 1 .. N /\ q[n] \in 1 .. N
    BY <1>7, <1>15
  <2>7. Second * ((n - 1) - 1) + 1 <= before[q[1]] - before[q[n]]
    BY <1>1, <2>5, <2>6, SlotsAscend
  <2>8. (n - 1) - 1 = Size - 2
    BY <1>7, <1>17
  <2>9. before[q[1]] - before[q[n]] = after[1].age - Last(after).age
    BY <1>2, <1>12, <1>13, <1>15
  <2> QED
    BY <2>7, <2>8, <2>9
<1>18. IsStretch(after)
  BY <1>3, <1>11, <1>14, <1>16, <1>17 DEF IsStretch, n
<1>19. after[1].age <= IF old = <<>> THEN scan.age ELSE old[1].age
  <2>1. q[1] \in 1 .. N /\ after[1] = new[q[1]]
    BY <1>7, <1>11, <1>15
  <2>2. CASE old = <<>>
    <3>1. N = 1 /\ q[1] = N
      BY <2>1, <2>2
    <3> QED
      BY <1>1, <1>2, <2>1, <2>2, <3>1
  <2>3. CASE old # <<>>
    <3>1. 1 \in 1 .. N /\ new[1] = old[1]
      <4>1. old \in Seq(Frames)
        BY DEF IsStretch
      <4> QED
        BY <1>1, <2>3, <4>1
    <3>2. before[q[1]] <= before[1]
      <4>1. q[1] = 1 \/ 1 < q[1]
        BY <1>4, <2>1
      <4>2. before[q[1]] \in Int
        BY <1>13, <1>15
      <4> QED
        BY <1>1, <2>1, <3>1, <4>1, <4>2 DEF Comes
    <3>3. new[1] \in Frames /\ new[1].age \in Nat
      <4>1. new[1] \in Frames
        <5>1. DOMAIN new = 1 .. Len(new)
          BY <1>1
        <5> QED
          BY <1>1, <3>1
      <4> QED
        BY <4>1 DEF Frames
    <3>4. before[1] = new[1].age - scan.age /\ before[q[1]] = after[1].age - scan.age
      BY <1>1, <1>13, <1>15, <3>1
    <3> QED
      BY <1>2, <1>13, <1>15, <2>3, <3>1, <3>2, <3>3, <3>4
  <2> QED
    BY <2>2, <2>3
<1>20. IsSteady(after, 1)
  <2>1. \A k \in 0 .. 1 - 1 : after[Len(after) - k].age = Last(after).age + Second * k
    <3>1. ASSUME NEW k \in 0 .. 1 - 1 PROVE after[Len(after) - k].age = Last(after).age + Second * k
      <4>1. k = 0 /\ Len(after) - k = n /\ Second * k = 0
        BY <1>7, <1>11, WindowNumbers
      <4>2. after[n].age = scan.age /\ Last(after).age = scan.age
        BY <1>2, <1>12
      <4> QED
        BY <1>2, <4>1, <4>2
    <3> QED
      BY <3>1
  <2> QED
    BY <1>7, <1>11, <2>1, WindowNumbers DEF IsSteady
<1> QED
  BY <1>12, <1>18, <1>19, <1>20 DEF after

(* A regular device fills its window, one scan after the other. *)
LEMMA FramesStaySteady ==
    ASSUME NEW old, IsStretch(old), NEW scan \in Scans, old # <<>>,
           Last(old).age = scan.age + Second, NEW anchor \in Int \union {NoAnchor},
           NEW r, IsSteady(old, r)
    PROVE  IsSteady(FramesAfter(old, scan, anchor), IF r = Size THEN Size ELSE r + 1)
<1> DEFINE N == Len(old) + 1
           new == WithScan(old, scan)
           before == BeforeScan(old, scan)
           S == Selected(before, anchor)
           n == Cardinality(S)
           q == ChosenOf(old, scan, anchor)
           after == FramesAfter(old, scan, anchor)
           more == IF r = Size THEN Size ELSE r + 1
<1>1. scan.age \in Nat /\ scan.age < Last(old).age
  BY FrameOfScan, WindowNumbers
<1>2. /\ Len(old) \in Nat /\ \A i \in 1 .. Len(old) : new[i] = old[i]
      /\ \A i \in 1 .. N : before[i] = new[i].age - scan.age
      /\ Comes(before, N)
  BY <1>1, ScansCome
<1>3. /\ N \in Nat /\ N > 0 /\ n \in Nat /\ n > 0 /\ n <= Size
      /\ Enumerates(q, n, S, N) /\ q[n] = N
      /\ after \in Seq(Frames) /\ Len(after) = n
      /\ \A i \in 1 .. n : before[q[i]] = after[i].age - scan.age
  <2>1. old # <<>> => scan.age < Last(old).age
    BY <1>1
  <2> QED
    BY <2>1, ChosenOnes
<1> HIDE DEF new, before, S, q, n, after
<1>4. r \in Nat /\ r <= Size /\ r <= Len(old) /\ more \in Nat /\ more <= Size /\ more <= N /\ more - 1 <= r
  BY <1>2, WindowNumbers DEF IsSteady
<1> HIDE DEF more
<1>5. ASSUME NEW k \in 0 .. more - 1 PROVE before[N - k] = Second * k
  <2>1. CASE k = 0
    BY <1>3, <2>1, <1>2, WindowNumbers DEF Comes
  <2>2. CASE k # 0
    <3>1. k - 1 \in 0 .. r - 1 /\ N - k = Len(old) - (k - 1) /\ N - k \in 1 .. Len(old)
      BY <1>2, <1>4, <2>2
    <3>2. old[N - k].age = Last(old).age + Second * (k - 1)
      BY <3>1 DEF IsSteady
    <3>3. before[N - k] = old[N - k].age - scan.age
      <4> DEFINE i == N - k
      <4>1. i \in 1 .. Len(old) /\ i \in 1 .. N
        BY <1>2, <3>1
      <4> HIDE DEF i, N
      <4>2. before[i] = new[i].age - scan.age /\ new[i] = old[i]
        BY <1>2, <4>1
      <4>3. before[i] = old[i].age - scan.age
        BY <4>2
      <4> QED
        BY <4>3 DEF i
    <3>4. Second * (k - 1) = Second * k - Second /\ Second * k \in Int
      BY <1>4, WindowNumbers, LargerProduct
    <3> DEFINE a == Second * k
               b == Second * (k - 1)
    <3>5. a \in Int /\ b = a - Second /\ old[N - k].age = scan.age + Second + b
      BY <3>2, <3>4
    <3> HIDE DEF a, b
    <3>6. before[N - k] = a
      BY <1>1, <3>3, <3>5, WindowNumbers
    <3> QED
      BY <3>6 DEF a
  <2> QED
    BY <2>1, <2>2
<1>6. \A k \in 0 .. more - 1 : N - k \in S
  BY <1>2, <1>4, <1>5, SteadyOnes DEF S
<1>7. \A k \in 0 .. more - 1 : n - k \in 1 .. n /\ q[n - k] = N - k
  <2> HIDE DEF N
  <2>1. n \in Nat /\ N \in Nat /\ more \in Nat /\ Enumerates(q, n, S, N)
    BY <1>3, <1>4
  <2> QED
    BY ONLY <1>6, <2>1, LastOnes
<1>8. ASSUME NEW k \in 0 .. more - 1 PROVE after[n - k].age = scan.age + Second * k
  <2>1. n - k \in 1 .. n /\ q[n - k] = N - k /\ before[N - k] = Second * k
    BY <1>5, <1>7
  <2>2. Second * k = after[n - k].age - scan.age
    BY <1>3, <2>1
  <2>3. after[n - k].age \in Nat
    <3>1. after[n - k] \in Frames
      BY <1>3, <2>1
    <3> QED
      BY <3>1 DEF Frames
  <2>4. Second * k \in Int
    BY <1>4, WindowNumbers
  <2> DEFINE a == Second * k
  <2> HIDE DEF a
  <2>5. a \in Int /\ a = after[n - k].age - scan.age
    BY <2>2, <2>4 DEF a
  <2>6. after[n - k].age = scan.age + a
    BY <1>1, <2>3, <2>5
  <2> QED
    BY <2>6 DEF a
<1>9. after[n].age = scan.age
  <2>1. n \in 1 .. n /\ after[n] \in Frames
    BY <1>3
  <2>2. before[N] = after[n].age - scan.age /\ before[N] = 0
    BY <1>2, <1>3, <2>1 DEF Comes
  <2>3. after[n].age \in Nat
    BY <2>1 DEF Frames
  <2> QED
    BY <1>1, <2>2, <2>3
<1>10. more <= n
  <2>1. CASE more = 0
    BY <1>3, <2>1
  <2>2. CASE more # 0
    <3>1. more - 1 \in 0 .. more - 1
      BY <1>4, <2>2
    <3>2. n - (more - 1) \in 1 .. n
      BY <1>7, <3>1
    <3> QED
      BY <1>3, <1>4, <3>2
  <2> QED
    BY <2>1, <2>2
<1>11. IsSteady(after, more)
  BY <1>3, <1>4, <1>8, <1>9, <1>10 DEF IsSteady, Last
<1> QED
  BY <1>11 DEF after, more

-----------------------------------------------------------------------------
(* The window of a sensor beside its last scan, the age since when it was  *)
(* not disturbed, and how many scans came a second apart.                  *)

SensorOK(w, scan, f, r) ==
    /\ w \in SensorWindows /\ IsStretch(w.frames)
    /\ IF w.frames = <<>> THEN f = NoAnchor /\ r = 0
       ELSE /\ scan \in Scans /\ ~IsVoid(scan)
            /\ w.basis = scan.basis /\ w.width = Len(Kept(scan)) /\ w.anchor \in Nat
            /\ Last(w.frames) = FrameOf(scan)
            /\ f \in Nat /\ w.frames[1].age <= f /\ IsSteady(w.frames, r)

LEMMA NoFrames ==
    ASSUME NEW w \in SensorWindows, w.frames = <<>>, NEW scan
    PROVE  SensorOK(w, scan, NoAnchor, 0)
<1>1. IsStretch(<<>>)
  BY WindowNumbers DEF IsStretch
<1> QED
  BY <1>1 DEF SensorOK

LEMMA EmptyWindows ==
    /\ EmptyWindow \in SensorWindows /\ EmptyWindow.frames = <<>>
    /\ \A b \in Bases : /\ [EmptyWindow EXCEPT !.basis = b] \in SensorWindows
                        /\ [EmptyWindow EXCEPT !.basis = b].frames = <<>>
    /\ \A scan \in Scans :
          LET w == [EmptyWindow EXCEPT !.basis = scan.basis, !.width = Len(Kept(scan))]
          IN  w \in SensorWindows /\ w.frames = <<>>
<1> DEFINE widths == {0} \union {Len(heights) : heights \in KeptLists}
<1>1. "SPATIAL_BINS" \in Bases /\ 0 \in widths /\ <<>> \in Seq(Frames)
      /\ \A scan \in Scans : scan.basis \in Bases /\ Len(Kept(scan)) \in widths
  <2>1. ASSUME NEW scan \in Scans PROVE scan.basis \in Bases /\ Len(Kept(scan)) \in widths
    BY FrameOfScan DEF Scans
  <2> QED
    BY <2>1 DEF Bases
<1>2. SensorWindows = [basis : Bases, width : widths, frames : Seq(Frames), anchor : Nat \union {NoAnchor}]
  BY DEF SensorWindows
<1> HIDE DEF widths
<1>3. ASSUME NEW b \in Bases
      PROVE  /\ [EmptyWindow EXCEPT !.basis = b] = [EmptyWindow EXCEPT !.basis = b, !.width = 0]
             /\ \A n \in widths :
                    LET w == [EmptyWindow EXCEPT !.basis = b, !.width = n]
                    IN  w \in SensorWindows /\ w.frames = <<>>
  <2>1. ASSUME NEW n \in widths
        PROVE [EmptyWindow EXCEPT !.basis = b, !.width = n] =
                  [basis |-> b, width |-> n, frames |-> <<>>, anchor |-> NoAnchor]
    <3>1. [EmptyWindow EXCEPT !.basis = b, !.width = n] = [[EmptyWindow EXCEPT !.basis = b] EXCEPT !.width = n]
      OBVIOUS
    <3>2. [[basis |-> b, width |-> 0, frames |-> <<>>, anchor |-> NoAnchor] EXCEPT !.width = n] =
              [basis |-> b, width |-> n, frames |-> <<>>, anchor |-> NoAnchor]
      OBVIOUS
    <3>3. [EmptyWindow EXCEPT !.basis = b] =
              [basis |-> b, width |-> 0, frames |-> <<>>, anchor |-> NoAnchor]
      BY DEF EmptyWindow
    <3> QED
      BY <3>1, <3>2, <3>3
  <2>2. [EmptyWindow EXCEPT !.basis = b] =
            [basis |-> b, width |-> 0, frames |-> <<>>, anchor |-> NoAnchor]
    BY DEF EmptyWindow
  <2> QED
    BY <1>1, <1>2, <2>1, <2>2
<1>4. EmptyWindow \in SensorWindows /\ EmptyWindow.frames = <<>>
  BY <1>1, <1>2 DEF EmptyWindow
<1> QED
  BY <1>1, <1>3, <1>4

LEMMA AppendedIs ==
    ASSUME NEW w \in SensorWindows, IsStretch(w.frames), w.frames # <<>> => w.anchor \in Nat,
           NEW scan \in Scans, ~IsVoid(scan), Continues(w, scan) => scan.age < Last(w.frames).age
    PROVE  /\ ~(Continues(w, scan) /\ ~Gap(w, scan)) =>
                  SensorOK(Appended(w, scan), scan, scan.age, 1)
           /\ Continues(w, scan) /\ ~Gap(w, scan) =>
                  \A f \in Nat : w.frames[1].age <= f =>
                      /\ SensorOK(Appended(w, scan), scan, f, 1)
                      /\ \A r : IsSteady(w.frames, r) /\ Last(w.frames).age = scan.age + Second =>
                             SensorOK(Appended(w, scan), scan, f, IF r = Size THEN Size ELSE r + 1)
<1> DEFINE goes == Continues(w, scan) /\ ~Gap(w, scan)
           old == IF goes THEN w.frames ELSE <<>>
           rel == IF old = <<>> THEN NoAnchor ELSE w.anchor - scan.age
           after == FramesAfter(old, scan, rel)
           at == scan.age + AnchorAfter(BeforeScan(old, scan), rel)
           new == Appended(w, scan)
<1>1. new = [basis |-> scan.basis, width |-> Len(Kept(scan)), frames |-> after, anchor |-> at]
  <2> DEFINE anchor == IF old = <<>> THEN NoAnchor ELSE w.anchor
  <2>1. (IF anchor = NoAnchor THEN NoAnchor ELSE anchor - scan.age) = rel
    <3>1. CASE old = <<>>
      BY <3>1
    <3>2. CASE old # <<>>
      <4>1. w.anchor \in Nat /\ w.anchor # NoAnchor
        BY <3>2, WindowNumbers
      <4> QED
        BY <3>2, <4>1
    <3> QED
      BY <3>1, <3>2
  <2> HIDE DEF rel
  <2> QED
    BY <2>1 DEF Appended, FramesAfter, ChosenOf, BeforeScan, WithScan, FrameOf
<1>2. IsStretch(old) /\ (old # <<>> => scan.age < Last(old).age)
  <2>1. IsStretch(<<>>)
    BY WindowNumbers DEF IsStretch
  <2> QED
    BY <2>1
<1>3. scan.age \in Nat /\ scan.basis \in Bases /\ Kept(scan) \in KeptLists
  BY FrameOfScan DEF Scans
<1>4. rel \in Int \union {NoAnchor}
  <2>1. old # <<>> => w.anchor \in Nat
    OBVIOUS
  <2> QED
    BY <1>3, <2>1
<1> HIDE DEF rel
<1>5. /\ IsStretch(after) /\ after # <<>> /\ Last(after) = FrameOf(scan)
      /\ after[1].age <= IF old = <<>> THEN scan.age ELSE old[1].age
      /\ IsSteady(after, 1)
  <2> HIDE DEF old
  <2> QED
    BY <1>2, <1>4, FramesLeft
<1>6. at \in Nat
  <2>1. Comes(BeforeScan(old, scan), Len(old) + 1)
    BY <1>2, ScansCome
  <2>2. AnchorAfter(BeforeScan(old, scan), rel) \in 0 .. Duration - 1
    BY <1>4, <2>1, AnchorIsNear
  <2> HIDE DEF old
  <2> QED
    BY <1>3, <2>2, WindowNumbers
<1> HIDE DEF after, at
<1>7. /\ new \in SensorWindows /\ new.frames = after /\ new.basis = scan.basis
      /\ new.width = Len(Kept(scan)) /\ new.anchor \in Nat
  <2>1. after \in Seq(Frames)
    BY <1>5 DEF IsStretch
  <2>2. Len(Kept(scan)) \in {0} \union {Len(heights) : heights \in KeptLists}
    BY <1>3
  <2> QED
    BY <1>1, <1>3, <1>6, <2>1, <2>2 DEF SensorWindows
<1> HIDE DEF new
<1>8. ASSUME NEW f \in Nat, after[1].age <= f, NEW r, IsSteady(after, r) PROVE SensorOK(new, scan, f, r)
  BY <1>5, <1>7, <1>8 DEF SensorOK
<1>9. after[1].age \in Nat
  <2>1. after \in Seq(Frames) /\ 1 \in DOMAIN after
    BY <1>5 DEF IsStretch
  <2>2. after[1] \in Frames
    BY <2>1
  <2> QED
    BY <2>2 DEF Frames
<1>10. CASE ~goes
  <2>1. old = <<>>
    BY <1>10
  <2>2. after[1].age <= scan.age
    BY <1>5, <2>1
  <2>3. SensorOK(new, scan, scan.age, 1)
    BY <1>3, <1>5, <1>8, <2>2
  <2> QED
    BY <1>10, <2>3 DEF new
<1>11. CASE goes
  <2>1. old = w.frames /\ old # <<>>
    BY <1>11 DEF Continues
  <2> HIDE DEF old
  <2>2. ASSUME NEW f \in Nat, w.frames[1].age <= f PROVE after[1].age <= f
    <3>1. w.frames[1].age \in Nat
      <4>1. w.frames \in Seq(Frames)
        BY DEF IsStretch
      <4>2. w.frames[1] \in Frames
        BY <2>1, <4>1
      <4> QED
        BY <4>2 DEF Frames
    <3> QED
      BY <1>5, <1>9, <2>1, <2>2, <3>1
  <2>3. ASSUME NEW r, IsSteady(w.frames, r), Last(w.frames).age = scan.age + Second
        PROVE  IsSteady(after, IF r = Size THEN Size ELSE r + 1)
    BY <1>2, <1>4, <2>1, <2>3, FramesStaySteady DEF after
  <2>4. ASSUME NEW f \in Nat, w.frames[1].age <= f
        PROVE  /\ SensorOK(new, scan, f, 1)
               /\ \A r : IsSteady(w.frames, r) /\ Last(w.frames).age = scan.age + Second =>
                      SensorOK(new, scan, f, IF r = Size THEN Size ELSE r + 1)
    <3>1. after[1].age <= f
      BY <2>2, <2>4
    <3> QED
      BY <1>5, <1>8, <2>3, <3>1
  <2> QED
    BY <1>11, <2>4 DEF new
<1> QED
  BY <1>10, <1>11 DEF new

(* What breaks the series of a sensor, and how it goes on. *)
Disturbs(last, scan) ==
    last.basis # scan.basis \/ Len(Kept(last)) # Len(Kept(scan)) \/ last.age - scan.age > GapLimit

LEMMA LastFrame ==
    ASSUME NEW w, NEW last, NEW f, NEW r, SensorOK(w, last, f, r), w.frames # <<>>
    PROVE  /\ w \in SensorWindows /\ IsStretch(w.frames) /\ w.anchor \in Nat
           /\ last \in Scans /\ last.age \in Nat /\ Last(w.frames).age = last.age
           /\ Last(w.frames).heights = Kept(last)
           /\ w.basis = last.basis /\ w.width = Len(Kept(last))
           /\ f \in Nat /\ w.frames[1].age <= f /\ IsSteady(w.frames, r)
<1>1. last \in Scans /\ Last(w.frames) = FrameOf(last)
  BY DEF SensorOK
<1>2. FrameOf(last).age = last.age /\ FrameOf(last).heights = Kept(last) /\ last.age \in Nat
  BY <1>1, FrameOfScan DEF FrameOf
<1> QED
  BY <1>1, <1>2 DEF SensorOK

LEMMA SeriesStops ==
    ASSUME NEW w \in SensorWindows, NEW scan \in Scans \union {NoScan}, ~Usable(scan) \/ IsVoid(scan)
    PROVE  SensorOK(Advance(w, scan), scan, NoAnchor, 0)
<1>1. Advance(w, scan) \in SensorWindows /\ Advance(w, scan).frames = <<>>
  <2>1. CASE ~Usable(scan)
    BY <2>1, EmptyWindows DEF Advance
  <2>2. CASE Usable(scan)
    <3>1. Advance(w, scan) = [EmptyWindow EXCEPT !.basis = "RECEIVED_POINTS"]
      BY <2>2 DEF Advance
    <3> QED
      BY <3>1, EmptyWindows DEF Bases
  <2> QED
    BY <2>1, <2>2
<1> QED
  BY <1>1, NoFrames

LEMMA SeriesStarts ==
    ASSUME NEW w \in SensorWindows, NEW scan \in Scans, ~IsVoid(scan), NEW last, NEW f, NEW r,
           w.frames = <<>> \/ (SensorOK(w, last, f, r) /\ Disturbs(last, scan))
    PROVE  SensorOK(Advance(w, scan), scan, scan.age, 1)
<1>1. Usable(scan) /\ scan.age \in Nat
  BY FrameOfScan, HeightAssumption DEF Usable
<1>2. CASE w.frames = <<>>
  <2>1. ~Continues(w, scan)
    BY <1>2 DEF Continues
  <2>2. Advance(w, scan) = Appended(w, scan)
    BY <1>1, <2>1 DEF Advance
  <2>3. IsStretch(w.frames)
    BY <1>2, WindowNumbers DEF IsStretch
  <2> QED
    BY <1>2, <2>1, <2>2, <2>3, AppendedIs
<1>3. CASE w.frames # <<>>
  <2>1. SensorOK(w, last, f, r) /\ Disturbs(last, scan)
    BY <1>3
  <2>2. /\ IsStretch(w.frames) /\ w.anchor \in Nat /\ last.age \in Nat /\ Last(w.frames).age = last.age
        /\ w.basis = last.basis /\ w.width = Len(Kept(last))
    BY <1>3, <2>1, LastFrame
  <2>3. Continues(w, scan) => Gap(w, scan) /\ scan.age < Last(w.frames).age
    <3>1. SUFFICES ASSUME Continues(w, scan) PROVE Gap(w, scan) /\ scan.age < Last(w.frames).age
      OBVIOUS
    <3>2. last.age - scan.age > GapLimit
      BY <2>1, <2>2, <3>1 DEF Continues, Disturbs
    <3>3. GapLimit \in Nat
      BY WindowNumbers DEF GapLimit
    <3> QED
      BY <1>1, <2>2, <3>2, <3>3 DEF Gap
  <2>4. ~(Continues(w, scan) /\ scan.age >= Last(w.frames).age)
    BY <1>1, <2>2, <2>3
  <2>5. Advance(w, scan) = Appended(w, scan)
    BY <1>1, <2>4 DEF Advance
  <2>6. SensorOK(Appended(w, scan), scan, scan.age, 1)
    BY <2>2, <2>3, AppendedIs
  <2> QED
    BY <2>5, <2>6
<1> QED
  BY <1>2, <1>3

LEMMA SeriesGoesOn ==
    ASSUME NEW w, NEW last, NEW f, NEW r, SensorOK(w, last, f, r), w.frames # <<>>,
           NEW scan \in Scans, ~IsVoid(scan), ~Disturbs(last, scan)
    PROVE  LET repeated == last.age = scan.age /\ Kept(last) = Kept(scan)
           IN  /\ repeated => SensorOK(Advance(w, scan), scan, f, r)
               /\ ~repeated /\ scan.age >= last.age => SensorOK(Advance(w, scan), scan, NoAnchor, 0)
               /\ ~repeated /\ ~(scan.age >= last.age) =>
                      SensorOK(Advance(w, scan), scan, f,
                               IF last.age - scan.age = Second
                                 THEN (IF r = Size THEN Size ELSE r + 1) ELSE 1)
<1>1. Usable(scan) /\ scan.age \in Nat
  BY FrameOfScan, HeightAssumption DEF Usable
<1>2. /\ w \in SensorWindows /\ IsStretch(w.frames) /\ w.anchor \in Nat
      /\ last \in Scans /\ last.age \in Nat /\ Last(w.frames).age = last.age
      /\ Last(w.frames).heights = Kept(last)
      /\ w.basis = last.basis /\ w.width = Len(Kept(last))
      /\ f \in Nat /\ w.frames[1].age <= f /\ IsSteady(w.frames, r)
  BY LastFrame
<1>3. Continues(w, scan)
  BY <1>2 DEF Continues, Disturbs
<1>4. ~Gap(w, scan)
  BY <1>2 DEF Gap, Disturbs
<1>5. ASSUME last.age = scan.age, Kept(last) = Kept(scan) PROVE SensorOK(Advance(w, scan), scan, f, r)
  <2>1. scan.age >= Last(w.frames).age /\ scan.age = Last(w.frames).age
    BY <1>1, <1>2, <1>5
  <2>2. Advance(w, scan) = w
    BY <1>1, <1>2, <1>3, <1>5, <2>1 DEF Advance
  <2>3. FrameOf(scan) = FrameOf(last)
    BY <1>5 DEF FrameOf
  <2>4. w.basis = scan.basis /\ w.width = Len(Kept(scan))
    BY <1>3 DEF Continues
  <2> QED
    BY <1>2, <2>2, <2>3, <2>4 DEF SensorOK
<1>6. ASSUME ~(last.age = scan.age /\ Kept(last) = Kept(scan)), scan.age >= last.age
      PROVE  SensorOK(Advance(w, scan), scan, NoAnchor, 0)
  <2>1. Advance(w, scan) = [EmptyWindow EXCEPT !.basis = scan.basis, !.width = Len(Kept(scan))]
    BY <1>1, <1>2, <1>3, <1>6 DEF Advance
  <2>2. Advance(w, scan) \in SensorWindows /\ Advance(w, scan).frames = <<>>
    BY <2>1, EmptyWindows
  <2> QED
    BY <2>2, NoFrames
<1>7. ASSUME ~(scan.age >= last.age)
      PROVE  SensorOK(Advance(w, scan), scan, f,
                      IF last.age - scan.age = Second
                        THEN (IF r = Size THEN Size ELSE r + 1) ELSE 1)
  <2>1. scan.age < Last(w.frames).age
    BY <1>1, <1>2, <1>7
  <2>2. Advance(w, scan) = Appended(w, scan)
    BY <1>1, <1>2, <1>7 DEF Advance
  <2>3. /\ SensorOK(Appended(w, scan), scan, f, 1)
        /\ Last(w.frames).age = scan.age + Second =>
               SensorOK(Appended(w, scan), scan, f, IF r = Size THEN Size ELSE r + 1)
    BY <1>2, <1>3, <1>4, <2>1, AppendedIs
  <2>4. CASE last.age - scan.age = Second
    <3>1. Last(w.frames).age = scan.age + Second
      BY <1>1, <1>2, <2>4
    <3> QED
      BY <2>2, <2>3, <2>4, <3>1
  <2>5. CASE last.age - scan.age # Second
    BY <2>2, <2>3, <2>5
  <2> QED
    BY <2>4, <2>5
<1> QED
  BY <1>5, <1>6, <1>7

-----------------------------------------------------------------------------
(* Time passes for what is stored.                                         *)



LEMMA ScansAge ==
    ASSUME NEW scan \in Scans
    PROVE  /\ AgedScan(scan) \in Scans /\ AgedScan(scan).age = scan.age + 1
           /\ Kept(AgedScan(scan)) = Kept(scan) /\ IsVoid(AgedScan(scan)) = IsVoid(scan)
           /\ AgedScan(scan).basis = scan.basis /\ Usable(scan)
<1>1. Usable(scan)
  BY HeightAssumption DEF Usable
<1>2. AgedScan(scan) = [scan EXCEPT !.age = @ + 1]
  BY <1>1 DEF AgedScan, AgeOfScan
<1>3. scan = [age |-> scan.age, basis |-> scan.basis, heights |-> scan.heights]
      /\ scan.age \in Nat /\ scan.basis \in Bases /\ scan.heights \in HeightLists
  BY DEF Scans
<1>4. AgedScan(scan) = [age |-> scan.age + 1, basis |-> scan.basis, heights |-> scan.heights]
  BY <1>2, <1>3
<1>5. AgedScan(scan) \in Scans /\ AgedScan(scan).age = scan.age + 1
      /\ AgedScan(scan).basis = scan.basis /\ AgedScan(scan).heights = scan.heights
  BY <1>3, <1>4 DEF Scans
<1> QED
  BY <1>1, <1>5 DEF Kept, IsVoid

LEMMA FramesAge ==
    ASSUME NEW frames, IsStretch(frames)
    PROVE  LET aged == [i \in DOMAIN frames |-> AgeOfScan(frames[i])]
           IN  /\ IsStretch(aged) /\ Len(aged) = Len(frames)
               /\ aged = <<>> <=> frames = <<>>
               /\ frames # <<>> => /\ aged[1].age = frames[1].age + 1
                                   /\ Last(aged) = AgeOfScan(Last(frames))
               /\ \A r : IsSteady(frames, r) => IsSteady(aged, r)
<1> DEFINE aged == [i \in DOMAIN frames |-> AgeOfScan(frames[i])]
           n == Len(frames)
<1>1. frames \in Seq(Frames) /\ n \in Nat /\ DOMAIN frames = 1 .. n
  BY DEF IsStretch
<1>2. ASSUME NEW i \in 1 .. n
      PROVE  AgeOfScan(frames[i]) \in Frames /\ AgeOfScan(frames[i]).age = frames[i].age + 1
             /\ frames[i].age \in Nat
  <2>1. frames[i] \in Frames
    BY <1>1
  <2>2. frames[i] = [age |-> frames[i].age, heights |-> frames[i].heights]
        /\ frames[i].age \in Nat /\ frames[i].heights \in KeptLists
    BY <2>1 DEF Frames
  <2>3. AgeOfScan(frames[i]) = [age |-> frames[i].age + 1, heights |-> frames[i].heights]
    BY <2>2 DEF AgeOfScan
  <2> QED
    BY <2>2, <2>3 DEF Frames
<1>3. aged \in Seq(Frames) /\ Len(aged) = n /\ \A i \in 1 .. n : aged[i] = AgeOfScan(frames[i])
  <2>1. aged = [i \in 1 .. n |-> AgeOfScan(frames[i])]
    BY <1>1
  <2> HIDE DEF aged, n
  <2> QED
    BY <1>1, <1>2, <2>1
<1> HIDE DEF aged
<1>4. aged = <<>> <=> frames = <<>>
  BY <1>1, <1>3
<1>5. \A i \in 1 .. n : aged[i].age = frames[i].age + 1 /\ frames[i].age \in Nat
  BY <1>2, <1>3
<1>6. ASSUME frames # <<>>
      PROVE  /\ 1 \in 1 .. n /\ n \in 1 .. n /\ Last(aged) = AgeOfScan(Last(frames))
             /\ Last(aged).age = Last(frames).age + 1 /\ Last(frames).age \in Nat
             /\ aged[1].age = frames[1].age + 1 /\ frames[1].age \in Nat
  <2>1. 1 \in 1 .. n /\ n \in 1 .. n
    BY <1>1, <1>6
  <2> HIDE DEF n
  <2>2. Last(aged) = aged[n] /\ Last(frames) = frames[n]
    BY <1>3 DEF Last, n
  <2> QED
    BY <1>3, <1>5, <2>1, <2>2
<1>7. IsStretch(aged)
  <2>1. \A i, j \in 1 .. n : i < j => aged[j].age < aged[i].age
    BY <1>5 DEF IsStretch
  <2>2. aged # <<>> => aged[1].age - Last(aged).age = frames[1].age - Last(frames).age
    BY <1>4, <1>6
  <2>3. n = Size => aged # <<>>
    BY <1>3, <1>4, WindowNumbers
  <2>4. aged # <<>> => aged[1].age - Last(aged).age <= Duration - 1
    BY <1>4, <2>2 DEF IsStretch
  <2>5. n = Size => Second * (Size - 2) + 1 <= aged[1].age - Last(aged).age
    BY <2>2, <2>3 DEF IsStretch
  <2>6. n <= Size
    BY DEF IsStretch
  <2> QED
    BY <1>3, <2>1, <2>4, <2>5, <2>6 DEF IsStretch
<1>8. ASSUME NEW r, IsSteady(frames, r) PROVE IsSteady(aged, r)
  <2>1. r \in Nat /\ r <= Size /\ r <= n
    BY <1>8 DEF IsSteady
  <2>2. ASSUME NEW k \in 0 .. r - 1 PROVE aged[n - k].age = Last(aged).age + Second * k
    <3>1. n - k \in 1 .. n /\ frames # <<>>
      BY <1>1, <2>1
    <3>2. frames[n - k].age = Last(frames).age + Second * k
      BY <1>8 DEF IsSteady
    <3>3. Second * k \in Nat
      BY <2>1, WindowNumbers
    <3> DEFINE a == Second * k
    <3> HIDE DEF a, n
    <3>4. a \in Nat /\ frames[n - k].age = Last(frames).age + a
      BY <3>2, <3>3 DEF a
    <3>5. aged[n - k].age = Last(aged).age + a
      <4>1. aged[n - k].age = frames[n - k].age + 1
        BY <1>5, <3>1
      <4>2. Last(aged).age = Last(frames).age + 1 /\ Last(frames).age \in Nat
        BY <1>6, <3>1
      <4> QED
        BY ONLY <3>4, <4>1, <4>2
    <3> QED
      BY <3>5 DEF a
  <2> QED
    BY <1>3, <2>1, <2>2 DEF IsSteady
<1> QED
  BY <1>3, <1>4, <1>6, <1>7, <1>8 DEF aged

LEMMA SensorsAge ==
    ASSUME NEW w, NEW scan, NEW f, NEW r, SensorOK(w, scan, f, r)
    PROVE  SensorOK(AgedWindow(w), AgedScan(scan), AgeOfAnchor(f), r)
<1> DEFINE aged == [i \in DOMAIN w.frames |-> AgeOfScan(w.frames[i])]
           at == AgeOfAnchor(w.anchor)
           new == AgedWindow(w)
<1>1. w \in SensorWindows /\ IsStretch(w.frames)
  BY DEF SensorOK
<1> DEFINE widths == {0} \union {Len(heights) : heights \in KeptLists}
<1>2. /\ w = [basis |-> w.basis, width |-> w.width, frames |-> w.frames, anchor |-> w.anchor]
      /\ w.basis \in Bases /\ w.width \in widths /\ w.anchor \in Nat \union {NoAnchor}
  <2>1. w \in [basis : Bases, width : widths, frames : Seq(Frames), anchor : Nat \union {NoAnchor}]
    BY <1>1 DEF SensorWindows
  <2> HIDE DEF widths
  <2> QED
    BY <2>1
<1>3. new = [basis |-> w.basis, width |-> w.width, frames |-> aged, anchor |-> at]
  <2>1. new = [w EXCEPT !.frames = aged, !.anchor = at]
    BY DEF AgedWindow
  <2> HIDE DEF aged, at, new
  <2>2. [w EXCEPT !.frames = aged, !.anchor = at] = [[w EXCEPT !.frames = aged] EXCEPT !.anchor = at]
    BY <1>2
  <2>3. [w EXCEPT !.frames = aged] =
            [basis |-> w.basis, width |-> w.width, frames |-> aged, anchor |-> w.anchor]
    BY <1>2
  <2> QED
    BY <2>1, <2>2, <2>3
<1>4. /\ IsStretch(aged) /\ Len(aged) = Len(w.frames)
      /\ aged = <<>> <=> w.frames = <<>>
      /\ w.frames # <<>> => /\ aged[1].age = w.frames[1].age + 1
                            /\ Last(aged) = AgeOfScan(Last(w.frames))
      /\ \A q : IsSteady(w.frames, q) => IsSteady(aged, q)
  BY <1>1, FramesAge
<1>5. at \in Nat \union {NoAnchor} /\ (w.anchor \in Nat => at \in Nat)
  BY <1>2, WindowNumbers DEF AgeOfAnchor
<1> HIDE DEF aged, at, new
<1>6. /\ new \in SensorWindows /\ new.frames = aged /\ new.basis = w.basis
      /\ new.width = w.width /\ new.anchor = at
  <2>1. aged \in Seq(Frames)
    BY <1>4 DEF IsStretch
  <2>2. new \in [basis : Bases, width : widths, frames : Seq(Frames), anchor : Nat \union {NoAnchor}]
    BY <1>2, <1>3, <1>5, <2>1
  <2> QED
    BY <1>3, <2>2 DEF SensorWindows
<1>7. CASE w.frames = <<>>
  <2>1. f = NoAnchor /\ r = 0 /\ AgeOfAnchor(f) = NoAnchor
    BY <1>7 DEF SensorOK, AgeOfAnchor
  <2> QED
    BY <1>4, <1>6, <1>7, <2>1, NoFrames DEF new
<1>8. CASE w.frames # <<>>
  <2>1. /\ scan \in Scans /\ ~IsVoid(scan) /\ w.basis = scan.basis /\ w.width = Len(Kept(scan))
        /\ w.anchor \in Nat /\ Last(w.frames) = FrameOf(scan)
        /\ f \in Nat /\ w.frames[1].age <= f /\ IsSteady(w.frames, r)
    BY <1>8 DEF SensorOK
  <2>2. /\ AgedScan(scan) \in Scans /\ AgedScan(scan).age = scan.age + 1
        /\ Kept(AgedScan(scan)) = Kept(scan) /\ ~IsVoid(AgedScan(scan))
        /\ AgedScan(scan).basis = scan.basis
    BY <2>1, ScansAge
  <2>3. AgeOfAnchor(f) = f + 1 /\ f + 1 \in Nat
    BY <2>1, WindowNumbers DEF AgeOfAnchor
  <2>4. Last(aged) = FrameOf(AgedScan(scan))
    <3>1. AgeOfScan(FrameOf(scan)) = [age |-> scan.age + 1, heights |-> Kept(scan)]
      BY DEF AgeOfScan, FrameOf
    <3> QED
      BY <1>4, <1>8, <2>1, <2>2, <3>1 DEF FrameOf
  <2>5. aged[1].age <= f + 1
    <3>1. w.frames[1].age \in Nat
      <4>1. w.frames \in Seq(Frames)
        BY <1>1 DEF IsStretch
      <4>2. w.frames[1] \in Frames
        BY <1>8, <4>1
      <4> QED
        BY <4>2 DEF Frames
    <3> QED
      BY <1>4, <1>8, <2>1, <3>1
  <2>6. IsSteady(aged, r) /\ aged # <<>>
    BY <1>4, <1>8, <2>1
  <2>7. SensorOK(new, AgedScan(scan), f + 1, r)
    BY <1>4, <1>5, <1>6, <2>1, <2>2, <2>3, <2>4, <2>5, <2>6 DEF SensorOK
  <2> QED
    BY <2>3, <2>7 DEF new
<1> QED
  BY <1>7, <1>8

-----------------------------------------------------------------------------
(* The inductive invariant.                                                *)

FillShape(row) ==
    row = [settings |-> row.settings, revision |-> row.revision, samples |-> row.samples,
           anchor |-> row.anchor, ready |-> row.ready, value |-> row.value, observed |-> row.observed]

WindowsOK ==
    IF window = NoWindow
      THEN fill = NoFill /\ \A s \in Sensors : first[s] = NoAnchor /\ regular[s] = 0
      ELSE /\ window \in Windows /\ latest \in Pages /\ window.revision = latest.revision
           /\ \A s \in Sensors :
                 SensorOK(window.sensors[s], latest.scans[s], first[s], regular[s])

(* Both sensors measured for long enough when the percentage was made. *)
FillOK ==
    fill # NoFill =>
        /\ FillShape(fill)
        /\ fill.ready => \A s \in Sensors :
              /\ latest.scans[s] \in Scans /\ first[s] \in Nat
              /\ Second * (Size - 2) + 1 <= first[s] - latest.scans[s].age

RequestShape(r) ==
    r = [page |-> r.page, stage |-> r.stage, window |-> r.window, torn |-> r.torn, first |-> r.first]

(* What a request has read was so when it read it. *)
RequestOK ==
    request # NoRequest =>
        /\ RequestShape(request)
        /\ request.stage = "window" /\ request.window # NoWindow =>
              \A s \in Sensors :
                 LET frames == request.window.sensors[s].frames
                 IN  /\ IsStretch(frames)
                     /\ frames # <<>> => request.first[s] # NoAnchor /\ frames[1].age <= request.first[s]

HeightInv ==
    /\ settings \in Settings /\ (latest = NoMeasurement \/ latest \in Pages)
    /\ WindowsOK /\ FillOK /\ RequestOK

LEMMA HeightsBegin == HeightInit => HeightInv
<1> SUFFICES ASSUME HeightInit PROVE HeightInv
  OBVIOUS
<1>1. settings \in Settings
  BY HeightAssumption DEF HeightInit
<1> QED
  BY <1>1 DEF HeightInit, HeightInv, WindowsOK, FillOK, RequestOK

(* A disturbed device keeps nothing that could be shown. *)
LEMMA StatusKeeps ==
    ASSUME HeightInv, NEW st, NEW new \in Settings, ReceiveStatus(st, new)
    PROVE  HeightInv'
<1>1. settings' \in Settings /\ UNCHANGED <<latest, request>>
  BY DEF ReceiveStatus
<1>2. RequestOK'
  BY <1>1 DEF HeightInv, RequestOK
<1>3. CASE Invalidates(st, new # settings)
  <2>1. window' = NoWindow /\ fill' = NoFill
    BY <1>3 DEF ReceiveStatus
  <2>2. ~st.healthy \/ new # settings \/ (latest # NoMeasurement /\ latest.revision # st.revision)
    <3>1. CASE window # NoWindow /\ window.revision # st.revision
      <4>1. latest \in Pages /\ window.revision = latest.revision
        BY <3>1 DEF HeightInv, WindowsOK
      <4> QED
        BY <3>1, <4>1, HeightAssumption
    <3> QED
      BY <1>3, <3>1 DEF Invalidates
  <2>3. \A s \in Sensors : first'[s] = NoAnchor /\ regular'[s] = 0
    BY <2>2 DEF ReceiveStatus, Disturb
  <2> QED
    BY <1>1, <1>2, <2>1, <2>3 DEF HeightInv, WindowsOK, FillOK
<1>4. CASE ~Invalidates(st, new # settings)
  <2>1. UNCHANGED <<window, fill>>
    BY <1>4 DEF ReceiveStatus
  <2>2. CASE UNCHANGED <<first, regular>>
    BY <1>1, <1>2, <2>1, <2>2 DEF HeightInv, WindowsOK, FillOK
  <2>3. CASE ~UNCHANGED <<first, regular>>
    <3>1. Disturb /\ (~st.healthy \/ new # settings \/ (latest # NoMeasurement /\ latest.revision # st.revision))
      BY <2>3 DEF ReceiveStatus
    <3>2. window = NoWindow
      <4>1. SUFFICES ASSUME window # NoWindow PROVE FALSE
        OBVIOUS
      <4>2. window.revision = latest.revision /\ window.revision = st.revision
        BY <1>4, <4>1 DEF HeightInv, WindowsOK, Invalidates
      <4> QED
        BY <1>4, <3>1, <4>2 DEF Invalidates
    <3>3. \A s \in Sensors : first'[s] = NoAnchor /\ regular'[s] = 0
      BY <3>1 DEF Disturb
    <3>4. fill = NoFill
      BY <3>2 DEF HeightInv, WindowsOK
    <3> QED
      BY <1>1, <1>2, <2>1, <3>2, <3>3, <3>4 DEF HeightInv, WindowsOK, FillOK
  <2> QED
    BY <2>2, <2>3
<1> QED
  BY <1>3, <1>4

LEMMA ReaderKeeps ==
    ASSUME HeightInv, ReadPage \/ ReadWindow \/ ShowPage
    PROVE  HeightInv'
<1>1. UNCHANGED <<settings, latest, window, fill, first, regular>>
  BY DEF ReadPage, ReadWindow, ShowPage
<1>2. RequestOK'
  <2>1. CASE ReadPage
    <3>1. request' = [page |-> latest, stage |-> "page", window |-> NoWindow, torn |-> FALSE, first |-> first]
      BY <2>1 DEF ReadPage
    <3> QED
      BY <3>1 DEF RequestOK, RequestShape
  <2>2. CASE ReadWindow
    <3>1. request' = [page |-> request.page, stage |-> "window", window |-> window,
                      torn |-> request.torn, first |-> first]
      <4>1. RequestShape(request)
        BY <2>2 DEF ReadWindow, HeightInv, RequestOK
      <4>2. request' = [request EXCEPT !.stage = "window", !.window = window, !.first = first]
        BY <2>2 DEF ReadWindow
      <4>3. [request EXCEPT !.stage = "window", !.window = window, !.first = first] =
                [[[request EXCEPT !.stage = "window"] EXCEPT !.window = window] EXCEPT !.first = first]
        BY <4>1 DEF RequestShape
      <4>4. [request EXCEPT !.stage = "window"] =
                [page |-> request.page, stage |-> "window", window |-> request.window,
                 torn |-> request.torn, first |-> request.first]
        BY <4>1 DEF RequestShape
      <4>5. [[page |-> request.page, stage |-> "window", window |-> request.window,
              torn |-> request.torn, first |-> request.first] EXCEPT !.window = window] =
                [page |-> request.page, stage |-> "window", window |-> window,
                 torn |-> request.torn, first |-> request.first]
        OBVIOUS
      <4>6. [[page |-> request.page, stage |-> "window", window |-> window,
              torn |-> request.torn, first |-> request.first] EXCEPT !.first = first] =
                [page |-> request.page, stage |-> "window", window |-> window,
                 torn |-> request.torn, first |-> first]
        OBVIOUS
      <4> QED
        BY ONLY <4>2, <4>3, <4>4, <4>5, <4>6, Zenon
    <3>2. RequestShape(request)' /\ request'.window = window /\ request'.first = first
      BY <3>1 DEF RequestShape
    <3>3. ASSUME window # NoWindow, NEW s \in Sensors
          PROVE  /\ IsStretch(window.sensors[s].frames)
                 /\ window.sensors[s].frames # <<>> =>
                        first[s] # NoAnchor /\ window.sensors[s].frames[1].age <= first[s]
      <4>1. SensorOK(window.sensors[s], latest.scans[s], first[s], regular[s])
        BY <3>3 DEF HeightInv, WindowsOK
      <4> QED
        BY <4>1, WindowNumbers DEF SensorOK
    <3> QED
      BY <3>2, <3>3 DEF RequestOK
  <2>3. CASE ShowPage
    BY <2>3 DEF ShowPage, RequestOK
  <2> QED
    BY <2>1, <2>2, <2>3
<1> QED
  BY <1>1, <1>2 DEF HeightInv, WindowsOK, FillOK

LEMMA TimeKeeps ==
    ASSUME HeightInv, HeightTick
    PROVE  HeightInv'
<1>1. settings' = settings /\ request' = NoRequest /\ latest # NoMeasurement
  BY DEF HeightTick
<1>2. latest \in Pages
  BY <1>1 DEF HeightInv
<1>3. latest = [revision |-> latest.revision, matched |-> latest.matched, scans |-> latest.scans]
      /\ latest.revision \in Revisions /\ latest.matched \in BOOLEAN
      /\ latest.scans \in [Sensors -> Scans \union {NoScan}]
  BY <1>2 DEF Pages
<1> DEFINE scans == [s \in Sensors |-> AgedScan(latest.scans[s])]
<1>4. latest' = [revision |-> latest.revision, matched |-> latest.matched, scans |-> scans]
  <2>1. latest' = [latest EXCEPT !.scans = scans]
    BY DEF HeightTick
  <2> HIDE DEF scans
  <2> QED
    BY <1>3, <2>1
<1>5. ASSUME NEW s \in Sensors PROVE AgedScan(latest.scans[s]) \in Scans \union {NoScan}
  <2>1. latest.scans[s] \in Scans \union {NoScan}
    BY <1>3
  <2> QED
    BY <2>1, ScansAge DEF AgedScan, Usable
<1>6. latest' \in Pages /\ latest'.revision = latest.revision
      /\ \A s \in Sensors : latest'.scans[s] = AgedScan(latest.scans[s])
  BY <1>3, <1>4, <1>5 DEF Pages
<1>7. \A s \in Sensors : first'[s] = AgeOfAnchor(first[s]) /\ regular'[s] = regular[s]
  BY DEF HeightTick
<1>8. WindowsOK'
  <2>1. CASE window = NoWindow
    <3>1. window' = NoWindow /\ fill' = NoFill
      BY <2>1 DEF HeightTick, HeightInv, WindowsOK
    <3>2. \A s \in Sensors : first'[s] = NoAnchor /\ regular'[s] = 0
      BY <1>7, <2>1 DEF HeightInv, WindowsOK, AgeOfAnchor
    <3> QED
      BY <3>1, <3>2 DEF WindowsOK
  <2>2. CASE window # NoWindow
    <3>1. window \in Windows /\ window.revision = latest.revision
          /\ \A s \in Sensors : SensorOK(window.sensors[s], latest.scans[s], first[s], regular[s])
      BY <2>2 DEF HeightInv, WindowsOK
    <3>2. window = [settings |-> window.settings, revision |-> window.revision, sensors |-> window.sensors]
          /\ window.settings \in Settings /\ window.revision \in Revisions
          /\ window.sensors \in [Sensors -> SensorWindows]
      BY <3>1 DEF Windows
    <3> DEFINE sensors == [s \in Sensors |-> AgedWindow(window.sensors[s])]
    <3>3. window' = [settings |-> window.settings, revision |-> window.revision, sensors |-> sensors]
      <4>1. window' = [window EXCEPT !.sensors = sensors]
        BY <2>2 DEF HeightTick
      <4> HIDE DEF sensors
      <4> QED
        BY <3>2, <4>1
    <3>4. \A s \in Sensors : SensorOK(AgedWindow(window.sensors[s]), AgedScan(latest.scans[s]),
                                      AgeOfAnchor(first[s]), regular[s])
      BY <3>1, SensorsAge
    <3>5. sensors \in [Sensors -> SensorWindows] /\ \A s \in Sensors : sensors[s] = AgedWindow(window.sensors[s])
      BY <3>4 DEF SensorOK
    <3> HIDE DEF sensors
    <3>6. window' \in Windows /\ window'.revision = window.revision
          /\ \A s \in Sensors : window'.sensors[s] = AgedWindow(window.sensors[s])
      BY <3>2, <3>3, <3>5 DEF Windows
    <3>7. window' # NoWindow
      BY <3>6, HeightAssumption
    <3>8. \A s \in Sensors : SensorOK(window'.sensors[s], latest'.scans[s], first'[s], regular'[s])
      BY <1>6, <1>7, <3>4, <3>6
    <3> QED
      BY <1>6, <3>1, <3>6, <3>7, <3>8 DEF WindowsOK, SensorOK, IsStretch, IsSteady
  <2> QED
    BY <2>1, <2>2
<1>9. FillOK'
  <2>1. CASE fill = NoFill
    BY <2>1 DEF HeightTick, FillOK
  <2>2. CASE fill # NoFill
    <3>1. FillShape(fill)
      BY <2>2 DEF HeightInv, FillOK
    <3>2. PICK samples, anchor, observed :
            fill' = [fill EXCEPT !.samples = samples, !.anchor = anchor, !.observed = observed]
      BY <2>2 DEF HeightTick
    <3>3. [fill EXCEPT !.samples = samples, !.anchor = anchor, !.observed = observed] =
              [[[fill EXCEPT !.samples = samples] EXCEPT !.anchor = anchor] EXCEPT !.observed = observed]
      BY <3>1 DEF FillShape
    <3>4. [fill EXCEPT !.samples = samples] =
              [settings |-> fill.settings, revision |-> fill.revision, samples |-> samples,
               anchor |-> fill.anchor, ready |-> fill.ready, value |-> fill.value, observed |-> fill.observed]
      BY <3>1 DEF FillShape
    <3>5. [[settings |-> fill.settings, revision |-> fill.revision, samples |-> samples,
            anchor |-> fill.anchor, ready |-> fill.ready, value |-> fill.value,
            observed |-> fill.observed] EXCEPT !.anchor = anchor] =
              [settings |-> fill.settings, revision |-> fill.revision, samples |-> samples,
               anchor |-> anchor, ready |-> fill.ready, value |-> fill.value, observed |-> fill.observed]
      OBVIOUS
    <3>6. [[settings |-> fill.settings, revision |-> fill.revision, samples |-> samples,
            anchor |-> anchor, ready |-> fill.ready, value |-> fill.value,
            observed |-> fill.observed] EXCEPT !.observed = observed] =
              [settings |-> fill.settings, revision |-> fill.revision, samples |-> samples,
               anchor |-> anchor, ready |-> fill.ready, value |-> fill.value, observed |-> observed]
      OBVIOUS
    <3>7. fill' = [settings |-> fill.settings, revision |-> fill.revision, samples |-> samples,
                   anchor |-> anchor, ready |-> fill.ready, value |-> fill.value, observed |-> observed]
      BY ONLY <3>2, <3>3, <3>4, <3>5, <3>6, Zenon
    <3>8. FillShape(fill)' /\ fill'.ready = fill.ready
      BY <3>7 DEF FillShape
    <3>9. ASSUME fill.ready, NEW s \in Sensors
          PROVE  /\ latest'.scans[s] \in Scans /\ first'[s] \in Nat
                 /\ Second * (Size - 2) + 1 <= first'[s] - latest'.scans[s].age
      <4>1. /\ latest.scans[s] \in Scans /\ first[s] \in Nat
            /\ Second * (Size - 2) + 1 <= first[s] - latest.scans[s].age
        BY <2>2, <3>9 DEF HeightInv, FillOK
      <4>2. latest'.scans[s] \in Scans /\ latest'.scans[s].age = latest.scans[s].age + 1
            /\ latest.scans[s].age \in Nat
        BY <1>6, <4>1, ScansAge, FrameOfScan
      <4>3. first'[s] = first[s] + 1
        BY <1>7, <4>1, WindowNumbers DEF AgeOfAnchor
      <4>4. first'[s] - latest'.scans[s].age = first[s] - latest.scans[s].age /\ first'[s] \in Nat
        BY <4>1, <4>2, <4>3
      <4> QED
        BY <4>1, <4>2, <4>4
    <3> QED
      BY <3>8, <3>9 DEF FillOK
  <2> QED
    BY <2>1, <2>2
<1> QED
  BY <1>1, <1>6, <1>8, <1>9 DEF HeightInv, RequestOK

LEMMA SettingsKeep ==
    ASSUME HeightInv, NEW new \in Settings, ChangeSettings(new)
    PROVE  HeightInv'
<1>1. settings' \in Settings /\ UNCHANGED <<latest, window, fill, request, first, regular>>
  BY DEF ChangeSettings
<1> QED
  BY <1>1 DEF HeightInv, WindowsOK, FillOK, RequestOK

(* What a measurement makes of the window of one of its sensors agrees     *)
(* with what the history says of that sensor.                              *)
LEMMA SensorReceives ==
    ASSUME HeightInv, NEW m \in Measurements, ReceiveMeasurement(m), NEW s \in Sensors
    PROVE  SensorOK(window'.sensors[s], m.scans[s], first'[s], regular'[s])
<1> DEFINE kept == window # NoWindow /\ window.settings = settings /\ window.revision = m.revision
           w == IF kept THEN window.sensors[s] ELSE EmptyWindow
           scan == m.scans[s]
           last == latest.scans[s]
<1>1. scan \in Scans \union {NoScan}
  BY HeightAssumption DEF Pages
<1>2. window'.sensors[s] = Advance(w, scan)
  <2> DEFINE before == IF kept THEN window.sensors ELSE [t \in Sensors |-> EmptyWindow]
             after == [t \in Sensors |-> Advance(before[t], m.scans[t])]
  <2>1. window' = [settings |-> settings, revision |-> m.revision, sensors |-> after]
    BY DEF ReceiveMeasurement
  <2>2. before[s] = w
    BY Zenon
  <2>3. after[s] = Advance(before[s], m.scans[s])
    BY Zenon
  <2> HIDE DEF after, before, kept, w
  <2> QED
    BY <2>1, <2>2, <2>3
<1>3. kept => /\ latest \in Pages /\ latest # NoMeasurement /\ latest.revision = m.revision
              /\ SensorOK(window.sensors[s], last, first[s], regular[s])
  BY HeightAssumption DEF HeightInv, WindowsOK
<1>4. w \in SensorWindows /\ (~kept => w.frames = <<>>)
  BY <1>3, EmptyWindows DEF SensorOK
<1>5. first'[s] = IF ~Usable(scan) \/ IsVoid(scan) THEN NoAnchor
                  ELSE IF Disturbed(m, s) \/ first[s] = NoAnchor THEN scan.age
                  ELSE IF Repeated(m, s) THEN first[s]
                  ELSE IF scan.age >= last.age THEN NoAnchor
                  ELSE first[s]
  BY DEF ReceiveMeasurement
<1>6. regular'[s] = IF first'[s] = NoAnchor THEN 0
                    ELSE IF Disturbed(m, s) \/ first[s] = NoAnchor THEN 1
                    ELSE IF Repeated(m, s) THEN regular[s]
                    ELSE IF last.age - scan.age = Second
                      THEN IF regular[s] = Size THEN Size ELSE regular[s] + 1
                    ELSE 1
  BY DEF ReceiveMeasurement
<1>7. Disturbed(m, s) <=> \/ latest = NoMeasurement \/ window = NoWindow
                          \/ ~Usable(last) \/ IsVoid(last)
                          \/ window.settings # settings \/ latest.revision # m.revision
                          \/ Disturbs(last, scan)
  BY DEF Disturbed, Disturbs
<1>8. Repeated(m, s) <=> last.age = scan.age /\ Kept(last) = Kept(scan)
  BY DEF Repeated
<1>9. CASE ~Usable(scan) \/ IsVoid(scan)
  <2>1. first'[s] = NoAnchor /\ regular'[s] = 0
    BY <1>5, <1>6, <1>9
  <2>2. SensorOK(Advance(w, scan), scan, NoAnchor, 0)
    <3> HIDE DEF w, scan
    <3> QED
      BY <1>1, <1>4, <1>9, SeriesStops
  <2> QED
    BY <1>2, <2>1, <2>2
<1>10. CASE Usable(scan) /\ ~IsVoid(scan)
  <2>1. scan \in Scans /\ scan.age \in Nat /\ scan.age # NoAnchor
    <3>1. scan \in Scans
      BY <1>1, <1>10 DEF Usable
    <3> QED
      BY <3>1, FrameOfScan, WindowNumbers
  <2>2. CASE Disturbed(m, s) \/ first[s] = NoAnchor
    <3>1. first'[s] = scan.age /\ regular'[s] = 1
      BY <1>5, <1>6, <1>10, <2>1, <2>2
    <3>2. w.frames = <<>> \/ (SensorOK(w, last, first[s], regular[s]) /\ Disturbs(last, scan))
      <4>1. CASE w.frames = <<>>
        BY <4>1
      <4> SUFFICES ASSUME w.frames # <<>>
                   PROVE  SensorOK(w, last, first[s], regular[s]) /\ Disturbs(last, scan)
        BY <4>1
      <4>2. kept
        BY <1>4
      <4>3. w = window.sensors[s] /\ SensorOK(w, last, first[s], regular[s])
        BY <1>3, <4>2
      <4>4. last \in Scans /\ ~IsVoid(last) /\ first[s] # NoAnchor
        BY <4>3, WindowNumbers DEF SensorOK
      <4>5. Usable(last)
        BY <4>4, HeightAssumption DEF Usable
      <4> QED
        BY <1>3, <1>7, <2>2, <4>2, <4>3, <4>4, <4>5
    <3>3. SensorOK(Advance(w, scan), scan, scan.age, 1)
      <4> HIDE DEF w, scan, last
      <4> QED
        BY <1>4, <1>10, <2>1, <3>2, SeriesStarts
    <3> QED
      BY <1>2, <3>1, <3>3
  <2>3. CASE ~(Disturbed(m, s) \/ first[s] = NoAnchor)
    <3>1. kept
      <4>1. window # NoWindow /\ window.settings = settings /\ latest.revision = m.revision
        BY <1>7, <2>3
      <4>2. window.revision = latest.revision
        BY <4>1 DEF HeightInv, WindowsOK
      <4> QED
        BY <4>1, <4>2
    <3>2. w = window.sensors[s] /\ SensorOK(w, last, first[s], regular[s])
      BY <1>3, <3>1
    <3>3. w.frames # <<>> /\ first[s] # NoAnchor /\ ~Disturbs(last, scan)
      BY <1>7, <2>3, <3>2 DEF SensorOK
    <3> DEFINE repeated == last.age = scan.age /\ Kept(last) = Kept(scan)
    <3>4. /\ repeated => SensorOK(Advance(w, scan), scan, first[s], regular[s])
          /\ ~repeated /\ scan.age >= last.age => SensorOK(Advance(w, scan), scan, NoAnchor, 0)
          /\ ~repeated /\ ~(scan.age >= last.age) =>
                 SensorOK(Advance(w, scan), scan, first[s],
                          IF last.age - scan.age = Second
                            THEN (IF regular[s] = Size THEN Size ELSE regular[s] + 1) ELSE 1)
      <4> HIDE DEF w, scan, last
      <4> QED
        BY <1>10, <2>1, <3>2, <3>3, SeriesGoesOn
    <3>5. CASE repeated
      <4>1. first'[s] = first[s] /\ regular'[s] = regular[s]
        BY <1>5, <1>6, <1>8, <1>10, <2>3, <3>5
      <4> QED
        BY <1>2, <3>4, <3>5, <4>1
    <3>6. CASE ~repeated /\ scan.age >= last.age
      <4>1. first'[s] = NoAnchor /\ regular'[s] = 0
        BY <1>5, <1>6, <1>8, <1>10, <2>3, <3>6
      <4> QED
        BY <1>2, <3>4, <3>6, <4>1
    <3>7. CASE ~repeated /\ ~(scan.age >= last.age)
      <4>1. first'[s] = first[s]
        BY <1>5, <1>8, <1>10, <2>3, <3>7
      <4>2. regular'[s] = IF last.age - scan.age = Second
                            THEN (IF regular[s] = Size THEN Size ELSE regular[s] + 1) ELSE 1
        BY <1>6, <1>8, <2>3, <3>7, <4>1
      <4> QED
        BY <1>2, <3>4, <3>7, <4>1, <4>2
    <3> QED
      BY <3>5, <3>6, <3>7
  <2> QED
    BY <2>2, <2>3
<1> QED
  BY <1>9, <1>10

FillRow(st, rv, p, n, r, v, o) ==
    [settings |-> st, revision |-> rv, samples |-> p, anchor |-> n, ready |-> r, value |-> v, observed |-> o]
Entered(row, p, n, r, v) == [row EXCEPT !.samples = p, !.anchor = n, !.ready = r, !.value = v]

LEMMA RowEntered ==
    ASSUME NEW st, NEW rv, NEW p, NEW n, NEW r, NEW v, NEW o, NEW p2, NEW n2, NEW r2, NEW v2
    PROVE  Entered(FillRow(st, rv, p, n, r, v, o), p2, n2, r2, v2) = FillRow(st, rv, p2, n2, r2, v2, o)
<1> DEFINE row(a, b, c, d) == FillRow(st, rv, a, b, c, d, o)
<1>1. Entered(row(p, n, r, v), p2, n2, r2, v2) =
          [[[[row(p, n, r, v) EXCEPT !.samples = p2] EXCEPT !.anchor = n2] EXCEPT !.ready = r2]
              EXCEPT !.value = v2]
  BY DEF Entered, FillRow
<1>2. [row(p, n, r, v) EXCEPT !.samples = p2] = row(p2, n, r, v)
  BY DEF FillRow
<1>3. [row(p2, n, r, v) EXCEPT !.anchor = n2] = row(p2, n2, r, v)
  BY DEF FillRow
<1>4. [row(p2, n2, r, v) EXCEPT !.ready = r2] = row(p2, n2, r2, v)
  BY DEF FillRow
<1>5. [row(p2, n2, r2, v) EXCEPT !.value = v2] = row(p2, n2, r2, v2)
  BY DEF FillRow
<1> HIDE DEF row
<1>6. Entered(row(p, n, r, v), p2, n2, r2, v2) = row(p2, n2, r2, v2)
  BY ONLY <1>1, <1>2, <1>3, <1>4, <1>5, Zenon
<1> QED
  BY <1>6 DEF row

(* A percentage is READY only with filtered heights of both sensors. *)
LEMMA FillAfterIs ==
    ASSUME NEW m, NEW filtered
    PROVE  /\ FillShape(FillAfter(m, filtered))
           /\ FillAfter(m, filtered).ready => filtered # NoHeight
<1> DEFINE row  == [settings |-> settings, revision |-> m.revision, samples |-> <<>>,
                    anchor |-> NoAnchor, ready |-> FALSE, value |-> NoHeight,
                    observed |-> IF \E s \in Sensors : Usable(m.scans[s]) THEN Observed(m) ELSE NoAnchor]
           same == fill # NoFill /\ fill.settings = settings /\ fill.revision = m.revision
           late == fill # NoFill /\ fill.observed # NoAnchor /\ row.observed >= fill.observed
           gap  == fill # NoFill /\ fill.observed # NoAnchor /\ fill.observed - row.observed > GapLimit
           old  == IF same /\ ~gap THEN fill.samples ELSE <<>>
           anchor == IF same /\ ~gap /\ fill.anchor # NoAnchor
                       THEN fill.anchor - row.observed ELSE NoAnchor
           all  == Append(old, row.observed)
           before == [i \in DOMAIN all |-> all[i] - row.observed]
           kept == InOrder(Selected(before, anchor))
           samples == [i \in DOMAIN kept |-> all[kept[i]]]
           next == row.observed + AnchorAfter(before, anchor)
           ready == Len(kept) = Size /\ filtered # NoHeight
           value == IF Len(kept) = Size THEN filtered ELSE NoHeight
<1>1. FillAfter(m, filtered) =
         IF ~ValidInput(m) \/ late THEN row
         ELSE [row EXCEPT !.samples = samples, !.anchor = next, !.ready = ready, !.value = value]
  BY Zenon DEF FillAfter
<1> DEFINE observed == IF \E s \in Sensors : Usable(m.scans[s]) THEN Observed(m) ELSE NoAnchor
           entered == FillRow(settings, m.revision, samples, next, ready, value, observed)
           none == FALSE
<1>2. row = FillRow(settings, m.revision, <<>>, NoAnchor, none, NoHeight, observed)
  BY Zenon DEF FillRow
<1>3. Entered(row, samples, next, ready, value) =
          [row EXCEPT !.samples = samples, !.anchor = next, !.ready = ready, !.value = value]
  BY Zenon DEF Entered
<1>4. ready => filtered # NoHeight
  OBVIOUS
<1> HIDE DEF row, late, samples, next, ready, value, observed, none
<1>5. Entered(row, samples, next, ready, value) = entered
  <2>1. ASSUME NEW st, NEW rv, NEW p, NEW n, NEW r, NEW v, NEW o, NEW p2, NEW n2, NEW r2, NEW v2
        PROVE  Entered(FillRow(st, rv, p, n, r, v, o), p2, n2, r2, v2) = FillRow(st, rv, p2, n2, r2, v2, o)
    BY RowEntered
  <2> DEFINE rv == m.revision
             empty == <<>>
  <2> HIDE DEF rv, empty
  <2>2. Entered(FillRow(settings, rv, empty, NoAnchor, none, NoHeight, observed), samples, next, ready, value)
          = FillRow(settings, rv, samples, next, ready, value, observed)
    BY ONLY <2>1
  <2> QED
    BY <1>2, <2>2 DEF rv, empty
<1>6. FillShape(row) /\ ~row.ready /\ FillShape(entered) /\ entered.ready = ready
  BY <1>2 DEF FillShape, FillRow, none
<1> HIDE DEF entered
<1>7. FillAfter(m, filtered) = row \/ FillAfter(m, filtered) = entered
  BY ONLY <1>1, <1>3, <1>5, Zenon
<1> QED
  BY <1>4, <1>6, <1>7

LEMMA MeasurementKeeps ==
    ASSUME HeightInv, NEW m \in Measurements, ReceiveMeasurement(m)
    PROVE  HeightInv'
<1> DEFINE after == window'.sensors
           filtered == MeanSection(m, [s \in Sensors |-> Section(m.scans[s], after[s])])
<1>1. /\ settings' = settings /\ latest' = m /\ m \in Pages
      /\ m.revision \in Revisions /\ settings \in Settings
  BY HeightAssumption DEF ReceiveMeasurement, HeightInv, Pages
<1>2. \A s \in Sensors : SensorOK(after[s], m.scans[s], first'[s], regular'[s])
  BY SensorReceives
<1> DEFINE before == IF window # NoWindow /\ window.settings = settings /\ window.revision = m.revision
                       THEN window.sensors ELSE [s \in Sensors |-> EmptyWindow]
           sensors == [s \in Sensors |-> Advance(before[s], m.scans[s])]
<1>3. /\ window' = [settings |-> settings, revision |-> m.revision, sensors |-> sensors]
      /\ fill' = FillAfter(m, MeanSection(m, [s \in Sensors |-> Section(m.scans[s], sensors[s])]))
  BY DEF ReceiveMeasurement
<1> HIDE DEF before
<1>4. /\ window' = [settings |-> settings, revision |-> m.revision, sensors |-> after]
      /\ after = [s \in Sensors |-> after[s]]
      /\ fill' = FillAfter(m, filtered)
  <2>1. sensors = [s \in Sensors |-> sensors[s]]
    OBVIOUS
  <2> HIDE DEF sensors
  <2>2. after = sensors
    BY <1>3
  <2> QED
    BY ONLY <1>3, <2>1, <2>2, Zenon DEF filtered
<1> HIDE DEF sensors
<1> HIDE DEF after
<1>5. WindowsOK'
  <2>1. after \in [Sensors -> SensorWindows]
    BY <1>2, <1>4 DEF SensorOK
  <2>2. window' \in Windows /\ window'.revision = m.revision
    BY <1>1, <1>4, <2>1 DEF Windows
  <2>3. window' # NoWindow
    BY <2>2, HeightAssumption
  <2>4. \A s \in Sensors : SensorOK(window'.sensors[s], latest'.scans[s], first'[s], regular'[s])
    BY <1>1, <1>2 DEF after
  <2> QED
    BY <1>1, <2>2, <2>3, <2>4 DEF WindowsOK, SensorOK, IsStretch, IsSteady
<1>6. FillOK'
  <2>1. FillShape(fill') /\ (fill'.ready => filtered # NoHeight)
    <3> HIDE DEF filtered
    <3> QED
      BY <1>4, FillAfterIs
  <2>2. ASSUME fill'.ready, NEW s \in Sensors
        PROVE  /\ latest'.scans[s] \in Scans /\ first'[s] \in Nat
               /\ Second * (Size - 2) + 1 <= first'[s] - latest'.scans[s].age
    <3>1. Section(m.scans[s], after[s]) # NoHeight
      <4> DEFINE section == [t \in Sensors |-> Section(m.scans[t], after[t])]
      <4>1. MeanSection(m, section) # NoHeight
        BY <2>1, <2>2
      <4>2. section[s] = Section(m.scans[s], after[s])
        BY Zenon
      <4> HIDE DEF section
      <4> QED
        BY <4>1, <4>2 DEF MeanSection
    <3>2. Ready(m.scans[s], after[s])
      BY <3>1 DEF Section, FilteredHeights
    <3>3. SensorOK(after[s], m.scans[s], first'[s], regular'[s]) /\ Len(after[s].frames) = Size
      BY <1>2, <3>2 DEF Ready
    <3>4. after[s].frames # <<>>
      BY <3>3, WindowNumbers
    <3>5. Second * (Size - 2) + 1 <= after[s].frames[1].age - Last(after[s].frames).age
      BY <3>3, <3>4 DEF SensorOK, IsStretch
    <3>6. /\ m.scans[s] \in Scans /\ m.scans[s].age \in Nat
          /\ Last(after[s].frames).age = m.scans[s].age
          /\ first'[s] \in Nat /\ after[s].frames[1].age <= first'[s]
      BY <3>3, <3>4, LastFrame
    <3>7. after[s].frames[1].age \in Nat
      <4>1. after[s].frames \in Seq(Frames)
        BY <3>3 DEF SensorOK, IsStretch
      <4>2. after[s].frames[1] \in Frames
        BY <3>4, <4>1
      <4> QED
        BY <4>2 DEF Frames
    <3> DEFINE bound == Second * (Size - 2) + 1
    <3>8. bound \in Int
      BY WindowNumbers
    <3> HIDE DEF bound
    <3>9. bound <= first'[s] - m.scans[s].age
      BY <3>5, <3>6, <3>7, <3>8 DEF bound
    <3> QED
      BY <1>1, <3>6, <3>9 DEF bound
  <2> QED
    BY <2>1, <2>2 DEF FillOK, FillShape
<1>7. RequestOK'
  <2>1. CASE request = NoRequest
    BY <2>1 DEF ReceiveMeasurement, RequestOK
  <2>2. CASE request # NoRequest
    <3>1. RequestShape(request)
      BY <2>2 DEF HeightInv, RequestOK
    <3> DEFINE torn == request.stage = "window"
    <3>2. request' = [request EXCEPT !.torn = torn]
      BY <2>2 DEF ReceiveMeasurement
    <3> HIDE DEF torn
    <3>3. request' = [page |-> request.page, stage |-> request.stage, window |-> request.window,
                      torn |-> torn, first |-> request.first]
      BY <3>1, <3>2 DEF RequestShape
    <3>4. /\ RequestShape(request)' /\ request'.stage = request.stage
          /\ request'.window = request.window /\ request'.first = request.first
      BY <3>3 DEF RequestShape
    <3> QED
      BY <2>2, <3>4 DEF HeightInv, RequestOK
  <2> QED
    BY <2>1, <2>2
<1> QED
  BY <1>1, <1>5, <1>6, <1>7 DEF HeightInv

LEMMA HeightsKeep ==
    ASSUME HeightInv, [HeightNext]_heightVars
    PROVE  HeightInv'
<1>1. CASE \E m \in Measurements : ReceiveMeasurement(m)
  BY <1>1, MeasurementKeeps
<1>2. CASE \E st \in [healthy : BOOLEAN, revision : Revisions], new \in Settings : ReceiveStatus(st, new)
  BY <1>2, StatusKeeps
<1>3. CASE \E new \in Settings : ChangeSettings(new)
  BY <1>3, SettingsKeep
<1>4. CASE ReadPage \/ ReadWindow \/ ShowPage
  BY <1>4, ReaderKeeps
<1>5. CASE HeightTick
  BY <1>5, TimeKeeps
<1>6. CASE UNCHANGED heightVars
  BY <1>6 DEF heightVars, HeightInv, WindowsOK, FillOK, RequestOK
<1> QED
  BY <1>1, <1>2, <1>3, <1>4, <1>5, <1>6 DEF HeightNext

-----------------------------------------------------------------------------
(* What the invariant says of what is shown.                               *)

LEMMA ShownStretch ==
    ASSUME HeightInv PROVE ShownIsOfOneStretch
<1> SUFFICES ASSUME request # NoRequest, request.stage = "window", NEW s \in Sensors, Shown(s) # <<>>
             PROVE  LET frames == request.window.sensors[s].frames
                    IN  /\ request.first[s] # NoAnchor /\ frames[1].age <= request.first[s]
                        /\ Last(frames).age = request.page.scans[s].age
                        /\ frames[1].age - Last(frames).age \in (Size - 2) * Second + 1 .. Duration - 1
                        /\ \A i \in 1 .. Len(frames) - 1 : frames[i].age > frames[i + 1].age
  BY Zenon DEF ShownIsOfOneStretch
<1> DEFINE frames == request.window.sensors[s].frames
           n == Len(frames)
<1>1. request.window # NoWindow /\ Ready(request.page.scans[s], request.window.sensors[s])
  BY DEF Shown, WindowApplies, FilteredHeights
<1>2. n = Size /\ Last(frames).age = request.page.scans[s].age
  BY <1>1 DEF Ready
<1>3. /\ IsStretch(frames)
      /\ frames # <<>> => request.first[s] # NoAnchor /\ frames[1].age <= request.first[s]
  BY <1>1 DEF HeightInv, RequestOK
<1>4. frames # <<>> /\ frames \in Seq(Frames) /\ n \in Nat /\ n > 0
  BY <1>2, <1>3, WindowNumbers DEF IsStretch
<1>5. /\ frames[1].age - Last(frames).age <= Duration - 1
      /\ Second * (Size - 2) + 1 <= frames[1].age - Last(frames).age
  BY <1>2, <1>3, <1>4 DEF IsStretch
<1>6. \A i \in 1 .. n : frames[i].age \in Nat
  <2> SUFFICES ASSUME NEW i \in 1 .. n PROVE frames[i].age \in Nat
    OBVIOUS
  <2>1. frames[i] \in Frames
    BY <1>4
  <2> QED
    BY <2>1 DEF Frames
<1>7. \A i, j \in 1 .. n : i < j => frames[j].age < frames[i].age
  BY <1>3 DEF IsStretch
<1>8. Last(frames) = frames[n]
  BY DEF Last
<1> HIDE DEF frames, n
<1>9. frames[1].age \in Nat /\ Last(frames).age \in Nat
  BY <1>4, <1>6, <1>8
<1>10. (Size - 2) * Second = Second * (Size - 2) /\ Second * (Size - 2) \in Int /\ Duration \in Nat
  BY WindowNumbers
<1>11. frames[1].age - Last(frames).age \in (Size - 2) * Second + 1 .. Duration - 1
  <2> DEFINE p == Second * (Size - 2)
             q == (Size - 2) * Second
             d == Duration
             a == frames[1].age
             b == Last(frames).age
  <2>1. p \in Int /\ q = p /\ d \in Nat /\ a \in Nat /\ b \in Nat /\ a - b <= d - 1 /\ p + 1 <= a - b
    BY <1>5, <1>9, <1>10
  <2> HIDE DEF p, q, d, a, b
  <2>2. a - b \in q + 1 .. d - 1
    BY <2>1
  <2> QED
    BY <2>2 DEF p, q, d, a, b
<1>12. \A i \in 1 .. n - 1 : frames[i].age > frames[i + 1].age
  BY <1>4, <1>6, <1>7
<1> QED
  BY <1>2, <1>3, <1>4, <1>11, <1>12 DEF frames, n

LEMMA SteadyReady ==
    ASSUME HeightInv PROVE SteadyStreamIsReady
<1> SUFFICES ASSUME window # NoWindow, NEW s \in Sensors, regular[s] = Size
             PROVE  Len(window.sensors[s].frames) = Size
  BY DEF SteadyStreamIsReady
<1>1. SensorOK(window.sensors[s], latest.scans[s], first[s], regular[s])
  BY DEF HeightInv, WindowsOK
<1>2. window.sensors[s].frames # <<>>
  BY <1>1, WindowNumbers DEF SensorOK
<1>3. IsSteady(window.sensors[s].frames, Size) /\ IsStretch(window.sensors[s].frames)
  BY <1>1, <1>2 DEF SensorOK
<1> QED
  BY <1>3, WindowNumbers DEF IsSteady, IsStretch

LEMMA FillOfBoth ==
    ASSUME HeightInv PROVE FillNeedsBothSensors
<1> SUFFICES ASSUME FillShown # NoHeight, NEW s \in Sensors
             PROVE  first[s] # NoAnchor /\ first[s] - latest.scans[s].age > (Size - 2) * Second
  BY DEF FillNeedsBothSensors
<1>1. fill # NoFill /\ fill.ready
  BY DEF FillShown
<1>2. /\ latest.scans[s] \in Scans /\ first[s] \in Nat
      /\ Second * (Size - 2) + 1 <= first[s] - latest.scans[s].age
  BY <1>1 DEF HeightInv, FillOK
<1>3. latest.scans[s].age \in Nat /\ first[s] # NoAnchor
  BY <1>2, FrameOfScan, WindowNumbers
<1>4. (Size - 2) * Second = Second * (Size - 2) /\ Second * (Size - 2) \in Int
  BY WindowNumbers
<1> DEFINE p == Second * (Size - 2)
           q == (Size - 2) * Second
<1>5. p \in Int /\ q = p /\ p + 1 <= first[s] - latest.scans[s].age
  BY <1>2, <1>4
<1> HIDE DEF p, q
<1>6. first[s] - latest.scans[s].age > q
  BY <1>2, <1>3, <1>5
<1> QED
  BY <1>3, <1>6 DEF q

(* A height is shown filtered only over scans of one undisturbed stretch,  *)
(* one for each of the last seconds, that ends with the scan it is shown   *)
(* for; a device that measures regularly fills its window however its      *)
(* scans came before; and a percentage is READY only when both sensors     *)
(* measured that long without a disturbance: advance, filtered_page and    *)
(* project_height_fill, read by requests in statements of their own.       *)
THEOREM HeightsSound == HeightSpec => []HeightsAreSound
<1>1. HeightInit => HeightInv
  BY HeightsBegin
<1>2. HeightInv /\ [HeightNext]_heightVars => HeightInv'
  BY HeightsKeep
<1>3. HeightInv => HeightsAreSound
  BY ShownStretch, SteadyReady, FillOfBoth DEF HeightsAreSound
<1> QED
  BY <1>1, <1>2, <1>3, PTL DEF HeightSpec
=============================================================================

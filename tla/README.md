# Models of the scrap monitoring backend

TLA+ modules of the backend in `src/app`, the TLC runs that check them and the
TLAPS proofs about them. Source paths below are relative to `src/app`.

## 1. The system

A FastAPI application receives what LiDAR edge devices measure in scrap pits,
decides how full a pit is, raises and resolves alerts, has a separate camera
media service film clips of events, and serves a dashboard. All durable state
is in one SQL database (SQLite or PostgreSQL, autocommitted reads on the first,
READ COMMITTED on the second, so that *every SELECT may see another moment*).
Three background tasks run beside the request handlers: the evaluation worker
(`edge_v2_operations.py`), the media job worker (`media_job_service.py`) and the
camera status poller. A crash loses whatever is not committed.

| part | state it keeps | operations | hard behaviour | correct when |
| --- | --- | --- | --- | --- |
| Edge receiver: `api/edge_v2.py`, `services/edge_v2_service.py` | messages, artifacts | accept_message, store_artifacts, device_status | duplicate deliveries at once, aborts between flush and commit, reads in several statements | an ACK names a stored receipt of that body; ids and artifacts are immutable; the status answered is the newest |
| Projections and filter: `services/edge_v2_projection.py`, `observation_window.py` | latest row per kind, filter, minutes, transitions | project, project_state, project_input | late and reordered messages, restarts of the device's orchestrator | the retained row is the newest, samples of two boots never mix, changes of state chain |
| Evaluation worker: `services/edge_v2_operations.py` | one operation row per pit | process_source every second | torn reads, gaps, device exchange, threshold changes, restarts | critical only after confirmation, hysteresis, notifications a cooldown apart |
| Alert episodes: `services/alert_lifecycle_service.py` | tracker row per device, transitions | advance, invalidate, record, read back | an alert resolved on evidence of another scope | a resolution rests on later evidence under the alert's scope and is final |
| Monitoring snapshots: `services/monitoring_v2_service.py` | none | build_snapshot, effective state | composed from many reads | what it shows existed at one moment |
| Media clip jobs: `services/media_job_service.py`, `v2_event_clip_service.py`, `api/v1/media_control.py` | job rows, cursor row | queue_recent_events, process_job, apply_snapshot, request, read and delete routes | lost answers, crash between call and commit, worker racing routes, ids visible out of order | nothing is filmed late or twice, work is always scheduled, jobs come to rest |
| Media service client: `services/media_client.py` | a token | HTTP calls | time-outs after the service acted | a refusal and an unknown outcome are told apart |
| Event exports: `services/event_export_service.py` | alias rows, jobs with category export | request, lookup, read | repeated requests after a lost answer, a media service that is exchanged | one key, one job, no second clip, no retry forgotten |
| Alert settings and pit configuration: `services/alert_policy_service.py`, `api/v1/config.py`, `settings_history_service.py` | two rows per pit, history | GET initialises, PUT compares and updates | two writers, two routes, SQLite without row locks | no lost update, the history chains |
| Sessions and accounts: `services/session_service.py`, `auth_bootstrap.py` | users, sessions | log-in, log-out, reset | a reset during a log-in | a reset ends every earlier session |
| Notification recipients: `services/admin_service.py`, `api/v1/admin.py` | rows with a version | add, patch, list | two editors of one row or one address | addresses are unique, no change is built on a version that is gone |
| Collection detection: `services/collection_detection_service.py` | a tracker in the filter row | step per sample | gaps, slow drops, noise | a detection is a drop that lasted from a level that was held, and every episode ends by one settlement |
| Heights shown: `services/height_median_service.py`, `height_fill_service.py`, `observation_window.py` | a window per sensor, a filter row | a measurement, a read | gaps, bursts, other configurations, clocks | a median is of one uninterrupted stretch under one configuration |
| Active health alerts: `services/active_health_service.py` | start times per condition | record_starts per evaluation | gaps, exchanged devices | a start time is of one continuous condition |
| Load history: `services/load_history_v2_service.py`, `compact_history_summary.py`, `history_summary_backfill.py`, `db_transfer.py` | minute rows with summaries | project, backfill, transfer, ask | a row that changes under the backfill, ranges that cut minutes | an answer counts each sample once, whatever it is computed from |
| Legacy metrics and alerts: `services/metric_service.py`, `state_engine.py`, `alert_engine.py` | in-memory state and cooldown | process_metric, alert tasks | the cooldown is taken before the row is stored | no danger is left without an alert by a cooldown taken in vain |
| Broadcaster: `services/broadcaster.py`, `api/v1/stream.py` | queues, sockets, latest state | publish, register, read | slow and lost clients, full queues | each client ends with what is stored |
| Frozen event pages: `services/event_page_store.py` | lists under tokens | build, put, get | limits, builds outside the lock | pages are of one list, the store stays in its limits |
| Camera status: `services/camera_status_service.py`, `camera_status_stream.py` | a cache behind one lock | poll, stream | two clocks, a binding that changes, slow consumers | nothing is shown live beyond its lease |
| WebRTC relay: `services/webrtc_service.py` | playback sessions | offer, candidate, delete, expire | lost answers, requests that overlap | no resource is held that nobody will release |
| Event recordings, recordings, thumbnails, notifications, metric histories | none of their own | queries | none | they report what is stored |

Interaction: the receiver commits messages with their projections; the worker
polls those rows and the settings and commits operation, tracker, transitions
and the rows `queue_recent_events` later finds; the media worker turns these into
jobs and calls the media service, as the routes do; the dashboard only reads.
The media worker and the routes that touch a job share one asyncio lock per
process; nothing else is locked in memory.

## 2. Modules

| module | models | role |
| --- | --- | --- |
| `MediaJobs` | clip jobs, cursor, worker, routes, the calls in flight and (external) the media service | component |
| `ExportJobs` | downloads of an event's window: jobs, request numbers, retries | component |
| `EdgeReceiver` | handlers of one device step by step, projections, status query | component |
| `Operations` | device rows, evaluation worker, thresholds, episodes, redeployment | composition of filter, worker and episodes |
| `AlertEpisode` | what the life cycle of an alert promises | abstract specification that `Operations` implements |
| `ActiveHealth` | conditions that are alarms now, and since when | component |
| `CollectionDetection` | the tracker of estimated collections and its transitions | component |
| `ObservationWindow` | which observations stand for the seconds of a window | pure, used by `HeightWindow` |
| `HeightWindow` | the medians of heights and the fill that follows | component |
| `History` | minute rows, summaries, backfill, transfer, questions | component |
| `Storage` | which database, and what a row lock does in it | shared by `Sessions`, `Settings`, `History` |
| `Sessions` | one account, its sessions, log-ins, log-outs and resets | component |
| `Settings` | the configuration of a pit, its two endpoints, its history | component |
| `Administration` | `Settings` with every request let in by a session of `Sessions` | composition |
| `Recipients` | the people who are notified | component |
| `LegacyMetrics` | measurements of the first contract, hysteresis, alert tasks | component |
| `Broadcaster`, `EventPages`, `CameraStatus`, `WebRTC` | the in-memory services of the dashboard | components |
| `MediaJobs_proofs`, `EdgeReceiver_proofs`, `Operations_proofs`, `History_proofs` | | theorems about the component of that name |
| `Administration_proofs` | | theorems about `Administration` and `Recipients` |
| `Evaluation_proofs` | | theorems about `CollectionDetection`, `ActiveHealth` and `HeightWindow` |
| `Services_proofs` | | theorems about `Broadcaster`, `LegacyMetrics`, `WebRTC`, `ExportJobs`, `CameraStatus` and `EventPages` |
| `LeastNumber` | | least and greatest members of sets of numbers, for the proofs |
| `MCMediaJobs`, `MCEdgeReceiver`, `MCOperations` | | instances of one component for TLC |
| `MCLive`, `MCClips`, `MCDashboard`, `MCAdministration`, `MCEvaluation` | | instances of several for TLC |

An instance of several components has a variable `part` that is drawn at the
start: the component it names moves, the others stay as they began. The states
are the sum of the components' and not their product, every action of each
component fires, and each property is checked of the behaviours in which its own
component moves; the components in such an instance share nothing in the code that
these properties are about. Where components do interact, they are composed
properly: `Operations` (filter, worker, episodes), `Administration` (sessions and
settings), `MediaJobs` (worker, routes, media service), `HeightWindow` (window and
fill).

Definitions marked "Wrong on purpose" are plausible bugs; each is used in place
of the definition that follows it to see that a property notices.

### MediaJobs

`job[e]` is the row of `media_clip_jobs` of event `e`, `clips[s][e]` what the
media service made for it under camera assignment `s`, `cursor` the row
`queue_recent_events` keeps, `call` the one HTTP request in flight. The lock is
held from the step that sends a request to the step that takes its answer
(`process_job` and the routes hold it across the await), so one `call` is enough;
between *selecting* the due jobs and *processing* one, the lock is free and
everything else may happen. `Restart` drops the call, the batch and the phase
and keeps the rows: what `process_job` changed before its commit is lost.

* An event has an id in the log that is allocated before its transaction
  commits; `RecordV2Event` lets ids appear out of order, as the sequence does.
* A request can be lost on the way, be carried out and answered, or be carried
  out and not answered (`MediaAnswers`, `MediaRefuses`, `Fail`). After the client
  timed out the request is taken as not handled any more.
* Time is the age of events and the `wait` of jobs; constants scale the delays
  down to a few ticks, and their order is what the properties need.
* Statuses that the code treats alike are one (collecting/processing,
  ready/failed, deleted/expired). The worker takes its batch in any order.
* `Next` is `Unattended` (the worker, time, the media service, restarts) or
  `Endpoints` (what users ask). `Refusals` and `Restarts` admit the two faults that
  some runs leave out.
* `V2Events` are the rows of the log that may have a clip. The code's LIMIT of 1000
  is in the statement (v2_event_clip_service.py:133) and counts rows that the loop
  below it rejects, too: alerts of another device, detections without a scope, errors
  that are no outage. `Queued` counts those that pass. The two differ only when
  rejected rows of one device fill the limit within the few minutes of the window.
* Not modelled: events dated in the future, the token of the client.

### ExportJobs

Requests, reads and the worker hold the media lock while they wait, so each is
one step here, and what becomes of its call is open: answered, answered and the
answer lost, never arrived, refused, mismatched, or the process ended after the
commit that precedes it. `aliases` binds an account's request number to a job;
`told` and `owed` are history: what answers were about, and which accepted
retries the media service has not been sent. `ChangeSource` exchanges the
media service once. Which media service's clip a job refers to is its context.

### EdgeReceiver

One device: no row, lock or constraint spans two. A handler passes check, lock,
insert, artifacts, write and commit; what it wrote is invisible until `Commit`
and gone after `Abort`, while its unique keys make others wait, as a database's
unique index does. `Compact` selects compact storage, which takes the device's
lock row and projects; without it, handlers overlap freely. Row ids and times of
receipt are their order. A body is what the code compares of it: kind,
generation time, one artifact key, and instance, sequence and state of a status.
`InstancesInTurn` is a condition on `Messages` that one theorem needs: two orchestrator
instances state no time alike, and where the clock of one steps back, it does not step
back across a status of another. The device does not guarantee it.
`Torn` says whether a commit may come between the statements of the status
query: it may in the code; FALSE separates what the query gets wrong by itself
from what it gets wrong because the data moved. Validation (schema, device
scope) refuses before anything is written and is left out. The third attempt of
`store_artifacts` cannot be reached with one key per message.

### Operations and AlertEpisode

A device row (`input`, `filter`, `device`) changes with each STATE and status;
the worker takes the time and reads the newest STATE in one step (`WorkerReads`)
and status, filter, policy and rows in the next (`Process`), with anything in
between when `Torn`. Commits between the statements of `Process` are left out. The
filter is read once there; the code reads it for the snapshot and again for the
confirmation (edge_v2_operations.py:102), where it counts only if it still names
the message that is judged. One second is
the unit; levels are the few that lie below recovery, between recovery and
critical, and above. The median is the level it delivers and the window a
count of consecutive samples (`Window` = 2 stands for any longer one: only
"warming" and "ready" are told apart). generated_at is the order of the STATEs.
That only a newer STATE replaces the row is `LatestIsNewest` of `EdgeReceiver`.
A snapshot that the torn status query misses is a `StatusLost` followed by a
`ReceiveStatus`. `Redeploy` exchanges the device of a pit and restarts the
worker; `SetPolicy` is `replace_settings` as one step. Columns and rows nobody
reads back (critical_since, the fill and validity transitions, the minutes) are
left out.

`calm` is history: when the load of a device was last below the threshold, as far
back as the device's observation times did not go back, since an old observation
takes the filter's times back with it. `ConfirmedBeforeCritical` speaks of a positive
confirmation time: with zero the first load of a full window counts, and nothing is
promised of the loads before. `MaxLag` is by how much an observation may be late
when it arrives.

`AlertEpisode` knows episodes only: made, open, notified, resolved. An episode
opens new, is notified at most once and while open, and is resolved at most
once, after its notification. `EpisodesImplemented` maps the tracker rows and
the transitions to it.

### CollectionDetection

One source. `tracker` is the `collection_tracker` row with its fields grouped:
`run` (the heights within the band), `reference` (the candidate for a baseline),
`wait` (what the end of an episode waits for). `Process` is
`process_collection_source` with one observation; its disjuncts are the phases
of `advance` as the observation finds them. `Invalid` is the worker without a
usable observation, `Rescope` a change of source, method or settings, after
which a tracker of another scope is started anew at the next observation; a scope
of `None` is a configuration without a drop or a method, in which the function
returns at once. Time stamps are kept as ages, each capped at the delay it is
compared with, so the clock is unbounded. Row and transitions are one commit, so
a restart of the worker changes nothing and has no action. `held`, `low`,
`proven` and `since` are history: what the observations since the last outage
have shown, computed without looking at the tracker.

### ActiveHealth

One device, one configured sensor, two pits the process may be placed at. A
report and a reading are among a few that differ in what the rules ask; ages are
capped at the limits they are compared with. An evaluation is one step of the
worker; a request builds its snapshot and reads the start times later (`view`),
and the row may have moved. `steady` is history: for how long what was seen of a
component has not changed.

### ObservationWindow and HeightWindow

`Selected` is `observation_slots`: the last observation of each nominal second,
at most as many as the window has. `HeightWindow` receives measurements of two
sensors, whole or with missing bins, of one configuration revision or another,
and changes of status and settings. `first` and `regular` are history, told from
the measurements and settings without a look at a window's frames: since when a sensor
was undisturbed, and how many scans came exactly a second apart. `first` is not
capped, so that it is the age of that scan at any time; the clock is, by the newest
scan. The geometry of a scan is left out: heights are inputs.

A second is `Second` ticks and a scan belongs to the second it is nearest to, half a
second counting for the later one. A full window of `Size` seconds therefore spans
*more than* `Size - 2` of them and less than `Size`: its first scan may have come at
the end of its second and its last at the beginning of its own. That is the bound
`ShownIsOfOneStretch` and `FillNeedsBothSensors` state. Half a second more would hold
for ticks of half a second, as in the run, and for no finer ones.

### History

Ticks of half a second; a minute has four, so that two messages can fall into
one second and a range can cut a minute. A message has a time, an origin (which
stands for source and method) and a value, which may be missing. `RecordSample`
adds one to its minute's row and refreshes the summary beside it; `RecordReceipt`
stores a STATE whole; `BackfillReads` and `BackfillCommits` are the command that
fills missing summaries, with projections in between where the database does not
lock (on PostgreSQL a row that a writer has locked is skipped, and any row may be
that one); `Transfer` copies the database to PostgreSQL; `Asks`, `ReadSummaries`,
`ReadOriginals` and `AnswerOf` are a question over a span: the receipts of STATEs that
were stored in full, the minutes in one statement, the samples in others. `asked` is
history: the minutes that had samples of the span when the minutes were read;
`AnswerIsOfOriginals` demands each of them, so that one that no statement read would
show. A row and a receipt of one message never coexist, since the
storage mode changes only by a restart, which ends the question. PostgreSQL
answers whole minutes from summaries, SQLite aggregates in the statement; both
take boundary minutes sample by sample.

### Storage, Sessions, Settings, Administration

`dialect` is chosen once. SQLite ignores FOR UPDATE; PostgreSQL lets the second
locker wait. A request is a sequence of steps that end at a database read; from
its first change to its commit nobody else can write or see what it writes, on
either database, so that part is one step, and a request that fails in it leaves
nothing (`RequestFails`, `LoginFails`, `ResetFails`).

* `account` is the password hash (a number: each reset writes another salt) and
  the credential version. A log-in is `Authenticate`, `Lookup`, `Insert`; `knew`
  is history, the hash its password was verified against.
* `pit` and `policy` are the two rows; `enabled` stands for every column of the
  policy, `name` for every column of the pit that has no threshold. `shown` holds
  what clients may send as If-Match. updated_at is a counter: the clock is assumed
  not to repeat a microsecond.
* A request is let in by its session in a transaction of its own
  (`admin_access.py`) and goes on when the session ends; `Administration` lets it.

### Recipients

An editor reads, judges, then changes and commits in one step: from the change
to the commit nobody else can change that row or use that address, on either
database. Columns other than the address are one (`detail`). `ledger` is history:
each version of a row and what its request had read. No code deletes a recipient.

### LegacyMetrics, Broadcaster

`LegacyMetrics` has one pit and requests suspended at their statements. The state
in memory moves before the row is stored; each store may fail, and the alert
tasks take the cooldown before they write and keep it when the write fails: the
property is that every danger finds an alert *attempted* within the cooldown.
Levels are integers around two thresholds that are further apart than the margin.
`Broadcaster` takes broadcasts that overlap: to the sockets one by one, then to
the bounded queues, which skip a frame when they are full. A socket that failed is
unregistered after the last one; until then another broadcast still counts it in. A monitoring stream
takes a frame as a sign to read the stored state, so a skipped one costs nothing; `EarlyFrames` are those that
`metric_service` sends before its row is committed.

### EventPages, CameraStatus, WebRTC

`EventPages` freezes a list, which is built outside the store's lock, under a
token; one token matters, the `Follower`'s, whose walk over the pages is history and
keeps the number of its page, as the client does: the last page may be shorter.
Bytes count a list and its items. The code admits two builds at a time, the
instance one.
`CameraStatus` has a monotonic clock and a wall clock that may be set, streams
that share one cache and one request at a time, and a configured source that may
change; a source that was given up is not configured again in the model.
`WebRTC` relays playback to a media server that calls its resource of a session by
the session's id; requests are suspended while it answers, answers get lost, and
`accounted` is history: resources whose release is known not to have been asked
for because the outcome of their creation or deletion never became known.

## 3. Runs

| run | shows | instance |
| --- | --- | --- |
| `media_one` | `WorkIsScheduled`, `NeverFilmsLate`, `NeverBackfills`, and `JobsComeToRest` under fairness | one state change, one camera assignment (a second one is in `clips`, and in the theorems), restarts |
| `live` | `LostAnswerRecovered` without crashes, `FreshEventsQueued`; `CameraIsHonest`; `PlaybackIsRelayed` | two state changes without administrators (the least for ids to become visible out of order), or one with them; two streams, two sources; two playbacks |
| `clips` | `ClipIdentityKept`, `NoNeedlessClip`; `RequestsAreKept` | one event of the older logs, two assignments, refusals, restarts; one account, two request numbers, two windows, two media services |
| `operations_one` | `OpenEpisodeIsCritical`, `ConfirmedBeforeCritical`, `DangerKeptByDevice` | one device, filter on, two policies, torn reads, four STATEs in four seconds: warm-up, confirmation, alert, recovery |
| `dashboard` | `CooldownKept`, `ResolutionIsEvidence`, `EpisodesImplemented`; `PagesAreServed`; `LegacyMetricsAreSound`; `BroadcastsArrive` | two devices of one pit that are exchanged, reads undisturbed; one device, two policies, torn reads; two readers, lists of up to three events in pages of two, two lists an owner; two senders, equal, contradicting and unnumbered measurements; a stream, a socket, three broadcasts |
| `receiver_conflicts` | `AcksAreReceipts`, `ReceiptsHaveArtifacts`, `DeliveriesEnd` | two handlers, four bodies: two with one id, three with one artifact; no compact storage and so no device lock, which would keep the handlers apart (`receiver_restart` has it) |
| `receiver_restart` | `LatestIsNewest`, `FilterOfOneInstance`, `TransitionsChain`, `SnapshotAnswered` on undisturbed reads | two instances, a clock that steps back, STATEs before and after |
| `administration` | `HonouredKnowThePassword`, `TagsTellTheTruth`, `HistoryReplays`, `NoLostUpdate`; `RecipientsAreSound` | a log-in, a log-out and a reset beside three requests, both databases, empty or configured, two pit names; two editors, two addresses, two rows, three versions |
| `evaluation` | `NoDropIsMissed`, `DetectionsAreSustained`, `SettlementsPair`, `OutagesAreNotQuiet`, `EpisodesAreRemembered`; `HeightsAreSound`; `HistoryIsOriginal`; `AlarmsAreEvidenced` | every series of three heights with gaps and outages, two scopes, two episodes; windows of three seconds; two minutes, six messages, five spans; two pits, three reports |
| `media_lost` | violated: `LostAnswerRecovered` | one event and a crash |
| `operations_kept` | violated: `DangerKept` | a device exchange in the recovery band |
| `receiver_torn` | violated: `SnapshotAnswered` | two statuses, one read |

Properties that are conjunctions name their parts: `HeightsAreSound` is
`ShownIsOfOneStretch`, `SteadyStreamIsReady` and `FillNeedsBothSensors`;
`PagesAreServed` is `PagesAreOfOneList` and `StoreIsBounded`;
`LegacyMetricsAreSound` is `AcceptedIsStored`, `AlertsKeepCooldown`,
`DangerIsAlerted` and `HysteresisHolds`; `BroadcastsArrive` is
`FramesArriveOnce` and `SnapshotsCatchUp`; `PlaybackIsRelayed` is
`ResourcesAreReleased` and `CandidatesAreOwn`; `HistoryIsOriginal` is
`AnswerIsOfOriginals` and `EvidenceIsOfItsValue`; `AlarmsAreEvidenced` is
`StartsAreContinuous` and `AllClearIsEvidenced`; `RequestsAreKept` is
`RequestsKeepTheirClip` and `RetryIsKept`; `RecipientsAreSound` is
`AddressesAreUnique`, `ChangesBuildOnEachOther` and `AnswersAreVersions`.

Why the bounds are enough. Two handlers are enough for every conflict of two
transactions; a third adds only another waiter. Two devices, two policies, two
scopes, two camera assignments and two revisions are enough for "changed" and
"changed back". Three requests are the two writers of a conflict and a reader
between them. The delays are scaled to one to three seconds and keep their order;
the heights fall short of the drop, meet it and exceed it. An event of the state
log and one of the older logs never meet in a job row or in the cursor, so no run
holds both; the theorems of `MediaJobs_proofs` cover any mixture. `MaxIds`,
`MaxTime`, `MaxInputs`, `MaxLag`, `MaxEpisodes`, `MaxResets`, `MaxJobs`,
`MaxExtractions`, `MaxChanges`, `MaxReceived`, `MaxReceipts`, `MaxLasted`,
`MaxReading`, `MaxSwitches`, `MinuteCount`, `MaxVersions`, `MaxMetricTime`,
`MaxBuilds`, `MaxPlayTime`, `MaxCalls`, `MaxSteady` and `MaxSets` bound the
instances and stand in guards of the actions that would exceed them.

Deadlock is checked where one component with a perpetual worker or handlers is
the instance (`media_one`, `operations_one`, the receiver's runs). In the other
instances requests, messages, broadcasts, versions or extractions run out and
the component then really stops, so they say `CHECK_DEADLOCK FALSE`. Symmetry is
used only where no liveness is checked and the permuted set occurs in no constant
structure.

### What the violated runs found

* `media_lost`: `process_job` counts an attempt in the session (line 140), calls
  the service, and commits after the answer. A crash in between leaves a clip at
  the service and a job that believes it never asked; the age limit then blocks
  it, and nobody lists the clips, although the comment at 154-155 says a lost
  answer is recovered by GET.
* `operations_kept`: docs/V2_OPERATIONS.md:50 promises that the danger state of a
  pit outlives an exchange of its device; line 97 starts again from NORMAL, so a
  load in the recovery band is not dangerous any more.
* `receiver_torn`: `device_status` reads the highest sequence and the retained
  body in two statements. A status between them makes a reporting device look
  silent for one read; the worker then invalidates the open alert episode.

More disagreements and surprises were met while modelling and have no run:

* the time basis of a clip request is forgotten when the clip is deleted
  (media_control.py:289, against docs/EVENT_TIME_CLIPS.md:40-41);
* a rejected old observation moves the filter's last time back
  (edge_v2_projection.py:390, against the comment at 313);
* two instances with the same generated_at are ordered differently by projection
  and query (edge_v2_projection.py:116);
* the observation that settles an episode becomes the next baseline at once, a
  momentary spike included (collection_detection_service.py:216, against
  docs/HEIGHT_COLLECTION_DETECTION.md:31);
* the answer to an added recipient shows the request's channels with the tag of
  the row as read again after the commit (admin_service.py:145);
* a lost retry that was looked up leaves a job without a next attempt
  (media_job_service.py:131);
* a broadcast is sent before its row is committed, and a client that reads on it
  may read the old state (metric_service.py:239); overlapping broadcasts may
  arrive in another order than they were stored in (broadcaster.py:66);
* a summary is taken for its row's by the generation time alone
  (compact_history_summary.py:69): rows that differ and agree in it are not told
  apart (the hypothesis of `HistoryOriginal` in section 5);
* the hysteresis of the first contract has no band when the warning level lies
  within the margin below the critical one (state_engine.py:65): only a
  deployment's unchecked defaults can be that close, what comes through the API
  is five points apart (core/alert_thresholds.py), and the model has the latter;
* a camera reader that waited across a change of the binding may ask the source it
  began with (camera_status_service.py:210).

## 4. Fairness

`MediaJobs!FairSpec`: the worker's loop is an asyncio task that is always
rescheduled (weak fairness); taking the lock is strongly fair because
`asyncio.Lock` wakes waiters in order; the media service finishes what it
started and answers infinitely often, which is the assumption liveness needs;
restarts cease eventually. Users owe nothing.
`EdgeReceiver!FairSpec`: a handler's steps are strongly fair, since the database
answers each statement and wakes those who wait for a lock or a key when its
holder ends. The other modules state no liveness: users, devices, editors and
stream clients owe nothing, and the worker's next evaluation is not promised.

## 5. Proofs

Eight modules hold the theorems, each for every value of the constants that its
component's `ASSUME` admits. The properties alone are not inductive: each component
has an invariant that is, from which they follow, one lemma per action (or per
kind of action), and under it one step per conjunct the action can disturb. In
brackets after a theorem stands the property of a run that it states; a hypothesis
of a theorem is named with it.

`MediaJobs_proofs`, any number of events, jobs, assignments, and any limits:

* `TypeCorrect`, `WorkScheduled` (`WorkIsScheduled`), `FilmsInTime`
  (`NeverFilmsLate`), `ClipIdentity` (`ClipIdentityKept`).
  `IInv` adds what a call in flight says of the job it is for (`CallOK`), that a
  stored job or clip has an event that is visible (`RowsHaveEvents`,
  `ClipsHaveRows`), and that a create request was sent while its event was young
  enough (`SentInWindow`): only with the time since then does the age of the event
  bound the lateness of the request when it is carried out.
* `NothingBackfilled` (`NeverBackfills`): a cursor of this process stands where the
  process found the log (`FromPresent`).
* `FreshQueued` (`FreshEventsQueued`): a sweep takes the first events of the log up to
  its limit, so that fewer than the limit means none was left (`FirstOnes` of
  `LeastNumber`).
* `AnswersRecovered` (`LostAnswerRecovered`), if neither `Restarts` nor `Refusals`:
  `LInv` says of every automatic job that the service made a clip for that it knows
  the clip or still asks for it, and of the call in flight what its answer will tell.
  Both hypotheses are needed. With restarts `media_lost` shows the violation; a
  final refusal of a retry ends a job whose first, lost request made a clip.

`EdgeReceiver_proofs`, any number of handlers, any messages, both storage modes,
torn or not:

* `TypeCorrect`, `Acknowledged` (`AcksAreReceipts`), `ArtifactsStored`
  (`ReceiptsHaveArtifacts`), `NewestKept` (`LatestIsNewest`), `FilterScoped`
  (`FilterOfOneInstance`), `Chained` (`TransitionsChain`), and `Unique`: an id and
  a row id name one receipt, which the others rest on.
  `RInv` adds what requests have written and not committed: an inserted row has an
  id that no receipt and no other request has, and a request about to commit
  either finds its artifact stored with its content or is the only writer of it
  (`RequestsOK`); that row ids in sight are bounded, so that a next one exists
  (`Bounded`); that a STATE's `gen` is its body's, and that changes are recorded
  only once a status is kept (`Projections`).
* `Answered` (`SnapshotAnswered`) from `QInv`, for full storage without condition, and
  for compact storage if reads are not torn and `InstancesInTurn`: of two statuses of
  different instances, the later one's sequence is of the later instance. The
  projection orders instances by time and the query by time too but within one
  instance by sequence; an instance whose clock steps back across another's could be
  kept by one and not found by the other. The instance of `receiver_restart`
  satisfies the hypothesis with a clock that steps back within an instance.

`Operations_proofs`, any number of pits, devices, policies, any window of two
observations or more and any confirmation time, torn reads or not:

* `TypeCorrect` from `TInv`: what the worker read of a device is its row of now or an
  earlier one (`ReadsOK`). `OpenEpisodesAreCritical` (`OpenEpisodeIsCritical`) and the
  action property `DangerIsKept` (`DangerKeptByDevice`) follow from it alone.
* `CriticalIsConfirmed` (`ConfirmedBeforeCritical`), an action property, from `FInv`: the
  filter's series at the threshold began after the last load below it.
* `CooldownsAreKept` (`CooldownKept`) from `CInv`: the operation row remembers the last
  notification of its pit, whatever device raised it (`AlertsClocked`).
* `ResolutionsAreEvidence` (`ResolutionIsEvidence`) from `RInv`: an episode is open in one
  place (`OpenOnce`), its one transition is its creation, under the pit and the scope its
  row still has (`OnlyNotified`), and numbers are not used again (`RowsMade`).
* `EpisodesAreImplemented` (`EpisodesImplemented`): each step maps to a step of
  `AlertEpisode` or to a stutter. `Process` is the one that moves the mapped state, to
  `Open`, `Notify`, `Resolve` or `Drop`.

`Evaluation_proofs`, three components:

* `CollectionDetection`, any heights, delays, band, drop, limit of gaps and number of
  episodes: `Pairing` (`SettlementsPair`), `NoOutageIsQuiet` (`OutagesAreNotQuiet`) and
  `Remembering` (`EpisodesAreRemembered`) from `CInv`: an open episode is the last
  detection of its scope and not settled (`OpenIsDetected`), and its quiet time never
  exceeds the time under observation (`QuietIsSeen`). `DetectionsSustained`
  (`DetectionsAreSustained`) and `NoneMissed` (`NoDropIsMissed`) from `HInv`: the tracker
  agrees with a history that is computed without it, its baseline with the levels that
  were held (`BaselineIsProven`) and its candidate with the time the drop was in sight
  (`DropIsFollowed`).
* `ActiveHealth`, any reports, clocks and limits (`HealthAssumption`): `AlarmsEvidenced`
  (`AlarmsAreEvidenced`) from `HealthInv`: a stored start time of a condition that could be
  found now is no older than the condition has lasted (`StartsAreSteady`), an outage that
  a heartbeat ended gives no start to a later one (`OutagesAreNumbered`), and what a
  request read remains true of what it will read (`ViewIsSteady`).
* `HeightWindow`, any ticks, window size, sensors, scans, settings and revisions
  (`WindowAssumption`, `HeightAssumption`): `HeightsSound` (`HeightsAreSound`) from
  `HeightInv`. `SensorOK` relates a sensor's window with its last scan and with the
  history: the frames are a stretch (`IsStretch`: ages descend, all within the window,
  and as many as the window holds span more than `Size - 2` seconds), the first is not older
  than the sensor's first scan since it was disturbed, and the last `regular` are exactly a second apart
  (`IsSteady`). `FillOK` says the same of what made a percentage READY, and
  `RequestOK` of what a request has read, which later measurements and settings do not
  change. Under them lies the arithmetic of seconds: scans of different slots are
  more than the slots' difference less one apart (`Seconds`), what `observation_slots` keeps
  ascends in its slots (`SelectedOnes`), the newest included, and among it is every scan of a
  regular series that lies in the window (`SteadyOnes`), wherever the anchor lies; so a burst
  costs a regular device nothing. `SensorReceives` is one measurement for one sensor, by the
  cases of `advance`: `SeriesStops`, `SeriesStarts`, `SeriesGoesOn`. What a mean or a median
  computes is not needed for any of it, only whether there is one.

`Services_proofs`, the services of the dashboard, of which no two share state:

* `Broadcasting` (`BroadcastsArrive`) from `CastInv`, any sockets, streams and frames
  (`CastAssumption`): who is still to get a frame is there and was not offered it
  (`TargetsWait`), and what a waiting stream does not show it will be told of
  (`ToldOfNew`).
* `MeasurementsAreSound` (`LegacyMetricsAreSound`) from `MetricInv`, any thresholds further
  apart than the margin (`MetricAssumption`): the cooldown in memory is that of the latest alert attempted
  (`LastIsLatest`), and a danger was alerted of or its task still waits (`DangerIsNoticed`).
* `Relaying` (`PlaybackIsRelayed`) from `PlayInv` (`PlayAssumption`): the media server and the callers know nothing of
  an id that was not answered (`UnansweredIsUnknown`), and a call is its session's own.
* `RequestsKept` (`RequestsAreKept`) and `NoneNeedless` (`NoNeedlessClip`) from `ExportInv`
  (`ExportAssumption`): a row that needs no retry and failed has a clip that failed or is
  gone (`RowsAreSound`), so that an unusable row is known to be one.
* `CameraHonest` (`CameraIsHonest`), an action property, from `CameraInv`
  (`CameraAssumption`): every deadline in the cache, in `_last` and with a reader lies
  within the lease of some request and of *every* request that brought the same
  assessment; one request is on its way, and it began after every answer that was
  taken, which is what makes the later one's deadline the earlier one's.
* `PagesServed` (`PagesAreServed`) from `PagesInv` (`PageAssumption`): a list that is
  followed is the one that is walked (`FollowedIsWalked`), and what the follower has is
  that list up to the end of its page (`PagesAreWhole`). That the counters are sums is
  kept step by step: `TotalAppend` says what one more entry adds, `KeptLists` that what
  is left of a store is no longer, no larger and has no more lists of an owner, `OwnRoom`
  that dropping an owner's oldest leaves place for one, and `RoomIsMade` that the oldest
  of all can be dropped until the new list fits.

`Administration_proofs`, any number of cookies, resets and requests, any thresholds
and names, on either database:

* `PasswordKnown` (`HonouredKnowThePassword`) from `SInv`: a reset replaces hash and
  version together (`ResetsCounted`), so what knows the version in force, a log-in
  under way (`LoginsKnow`) or a stored session (`RowsKnow`), knows the hash in force.
* `TagsTrue` (`TagsTellTheTruth`) and `NothingLost` (`NoLostUpdate`) from `TInv`: what
  was shown under the version in force is the policy in force (`ShownOK`), and a
  PUT is carried out under the tag of what it read (`ReplacesOK`).
* `HistoryTold` (`HistoryReplays`) from `HInv`: the latest record of each field is
  what is stored (`LastIsStored`), and what a writer read still holds if its
  WHERE clause says so (`WritersInformed`). `LatestRecord` and `EarlierRecord` say
  what appending an entry does to the record of a field.

* `Recipients`, any number of editors, addresses, recipients and versions:
  `RecipientsSound` (`RecipientsAreSound`) from `PInv`: the ledger of a recipient ends in
  its row and numbers its entries as the versions are (`Traced`), and what an editor read
  was stored once (`EditOK`), so that a version that did not change is a row that did
  not change (`VersionIsRow`). It is assumed that `Absent` is no address, detail or row.

`History_proofs`, any samples, minutes, spans, buckets and rows of before:

* `HistoryOriginal` (`HistoryIsOriginal`) from `HInv`, if the database is PostgreSQL or
  `TimesTellRows`. A summary that goes by its row's time is that of the row's samples
  (`RowOK`, of every minute), a row that still has the time of what the backfill read
  has its samples too (`FillingOK`), every part of a question
  is what the row it was taken from amounts to (`PartsOK`), and every minute that
  was asked for is among the parts or still to be read (`NoneIsLeftOut`).
* `TimesTellRows` says that no message of another kind has exactly the time of a row that
  was stored before there were summaries. SQLite does not lock the row the
  backfill read; a projection of such a message changes the samples and leaves the row's
  time as it is, so that the summary written next goes by that time and is not of
  those samples (compact_history_summary.py:69 compares nothing else). On PostgreSQL the lock
  excludes it. The instance of the run satisfies the hypothesis: its row of before has
  time 3 and one message only is of that time. With a message of the other kind at time 3
  TLC finds `HistoryIsOriginal` violated: backfill reads, the message is projected, backfill
  commits, and a question after the transfer to PostgreSQL takes the summary.
* Merging rests on sums over finite sets that do not depend on an order, proved
  from what a set's fold is for one more member (`SumRemove`, `SumUnion`): a summary of two
  disjoint sets of slots is the merge of theirs (`MergeGroups`), and taking in parts one
  after the other, in any order, gives the group of all (`AccumulatedIs`). Beside it,
  a row's samples have their own times in its minute (`RowSlots`), a whole minute lies
  in one bucket (`WholeMinute`, since the intervals one may choose are multiples of a minute,
  load_history_v2_service.py:31), and a sample of the span is in a boundary minute or in one
  that is read whole (`SamplesAreAskedFor`).
* `HistoryAssumption` says that minutes have an even number of ticks, that samples lie
  before the end of time, and that rows of before were written by this code (`IsRowOf`).

`LeastNumber` is what several of them share: a set of natural numbers has a least
member and a bounded one a greatest (`SmallestNat`, `GreatestNat`), a finite one is
bounded (`FiniteIsBounded`), and a set that has as many members as asked for has that
many first ones (`FirstOnes`) and one of each rank (`Ranks`), from the library's theorem
on well-founded orders.
A `CHOOSE` of the newest row or of the next batch means nothing without it.

Assumptions on constants are of three kinds: numbers are numbers and orders of limits
are those the settings' validators demand; null values are not values; and bounds
that only exist for TLC are natural numbers of any size. TLC evaluates each in a run.

Only model-checked:

* `JobsComeToRest` and `DeliveriesEnd`: reasoning under fairness is out of the prover's
  reach.
* `DangerKept`, `SnapshotAnswered` with torn reads and `LostAnswerRecovered` with crashes
  are what the code does not do; their runs show the violation.

Every other property of a run is a theorem.

## 6. Not modelled

* Queries that change nothing: histories of metrics and errors, forecasts,
  recordings and their thumbnails, event recordings, the snapshot of the dashboard,
  notifications with their read marks (an idempotent insert each). They report what
  is stored in one statement or compose it for display; there is no step between
  which anything could happen that their callers rely on.
* Validation of messages and parameters, which refuses before anything is written.
* Numerics: the geometry of a scan, quantiles, regressions, the text of CSV files.
  They are tested by example in the repository, and TLC could only restate them
  over integers.
* Database migrations, backups and the command line: they run on a stopped system,
  apart from the password reset, the backfill and the transfer, which are modelled.
* Start-up and shutdown, beyond what a restart loses.
* Parts that are modelled each for itself and not together: the evaluation with the
  start times of alarms, the minutes with the receiver that writes them, the alert
  engine with the broadcaster. What one module takes as an input the other produces
  in one step, and its inputs are all that step can produce; the products of their
  states are beyond TLC.

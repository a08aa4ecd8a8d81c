------------------------------- MODULE MediaJobs -------------------------------
(***************************************************************************)
(* The durable event-to-clip outbox: the table media_clip_jobs, the worker *)
(* that sweeps it (MediaJobWorker), the media endpoints that use it under  *)
(* the same lock, and the media service they call over HTTP.               *)
(*                                                                         *)
(* A job is processed in three steps, because the coroutine awaits twice:  *)
(* ProcessJob reads the row and sends one HTTP request, MediaAnswers is    *)
(* the service handling it, and Finish / Fail commits the outcome.  The    *)
(* process may die between any two of them (Restart).                      *)
(*                                                                         *)
(* Times are relative: `age' counts the seconds since an event, `wait' the *)
(* seconds until next_attempt_at.  Both saturate where the code stops      *)
(* distinguishing them, so the clock itself is unbounded.                  *)
(***************************************************************************)
EXTENDS Integers, FiniteSets, Sequences

CONSTANTS
    V2Events,      \* ids of rows of edge_v2_transitions that may be filmed
    LogEvents,     \* ids with a row in alert_logs / collection_logs
    Sources,       \* media service + camera + device assignments (their digest)
    NoSource, NoJob, NoClip, NoCall,   \* null values
    MaxDelay,      \* MEDIA_V2_EVENT_CLIP_MAX_DELAY_SECONDS
    PollInterval,  \* MEDIA_POLL_INTERVAL_SECONDS
    BackoffSteps,  \* the values of min(30, 2 ** min(attempts - 1, 5)) in order
    MaxBackoff,    \* the largest of them (30)
    HttpTimeout,   \* MEDIA_REQUEST_TIMEOUT_SECONDS: how long a call may take
    QueueLimit,    \* events queued by one sweep (20)
    MaxAttempts,   \* attempts saturates here
    Watched,       \* events whose clips administrators request, read or delete
    Restarts,      \* may the process die and start again?
    Refusals       \* may the media service answer with a final error?

Events == V2Events \cup LogEvents

ASSUME MediaJobsAssumption ==
    /\ Events \subseteq Nat
    /\ NoSource \notin Sources
    /\ MaxDelay \in Nat \ {0}
    /\ PollInterval \in Nat \ {0}
    /\ MaxBackoff \in Nat \ {0}
    /\ BackoffSteps \in Seq(1 .. MaxBackoff) /\ BackoffSteps # <<>>
    /\ HttpTimeout \in Nat \ {0}
    /\ QueueLimit \in Nat \ {0}
    /\ MaxAttempts \in Nat \ {0, 1}
    /\ Watched \subseteq Events
    /\ Restarts \in BOOLEAN
    /\ Refusals \in BOOLEAN

VARIABLES
    config,    \* the process's settings: [source, enabled]
    age,       \* age[e]: Absent, or seconds since the visible event e occurred
               \* (counted for V2Events only: no other age is ever looked at)
    job,       \* job[e]: the outbox row of event e, or NoJob
    cursor,    \* the media_v2_events cursor row: [mine, upTo, age], where upTo holds the
               \* ids that are not above afterId; its generated_at
               \* is only ever compared while its sessionToken is this process's
    phase,     \* where the worker is in run_once
    batch,     \* ids the worker selected outside the lock
    call,      \* the HTTP request in flight, made while holding the lock
    clips,     \* clips[s][e]: what media service s holds for event e
    stale      \* history: events from before the present of this process

vars == <<config, age, job, cursor, phase, batch, call, clips, stale>>
process == <<config, cursor, phase, batch, stale>>

-----------------------------------------------------------------------------
Absent == -1
Never  == -1

AgeCap  == MaxDelay + HttpTimeout + 1
WaitCap == IF PollInterval > MaxBackoff THEN PollInterval ELSE MaxBackoff

Lesser(a, b)  == IF a < b THEN a ELSE b
Greater(a, b) == IF a > b THEN a ELSE b

(* The backend tells three kinds of remote status apart: collecting and    *)
(* processing, ready and failed, deleted and expired.                      *)
RemoteStatus == {"collecting", "ready", "deleted"}
JobStatus    == RemoteStatus \cup {"pending", "refreshing", "blocked"}
ClipIds      == Sources \X Events

Clip == [status : RemoteStatus, eventTime : BOOLEAN, late : BOOLEAN]

Job == [category  : {"v2", "manual"},
        clip      : ClipIds \cup {NoClip},
        status    : JobStatus,
        attempts  : 0 .. MaxAttempts,
        wait      : {Never} \cup 0 .. WaitCap,
        eventTime : Sources \cup {NoSource},   \* sourceToken of _eventTimeRequest
        context   : Sources \cup {NoSource}]   \* _v2Context

Answer == [kind : {"waiting", "empty", "refused", "busy"}]
             \cup [kind : {"clip"}, id : ClipIds, status : RemoteStatus,
                   eventTime : BOOLEAN]

Call == [op : {"create", "list", "get", "read", "delete"}, event : Events,
         attempts : 1 .. MaxAttempts, elapsed : 0 .. HttpTimeout, answer : Answer]

(* The null values are not rows, clips or requests. *)
ASSUME NullAssumption ==
    /\ NoJob \notin Job
    /\ NoClip \notin Clip \cup ClipIds
    /\ NoCall \notin Call

HasJob(e)  == job[e] # NoJob
Visible(e) == age[e] # Absent
LockFree   == call = NoCall

(* Due rows: next_attempt_at <= now. *)
Due(e) == HasJob(e) /\ job[e].wait = 0

(* Wrong on purpose, for the sensitivity runs: the cap of the delay is lost. *)
BackoffUncapped(attempts) == 2 ^ attempts

(* min(30, 2 ** min(attempts - 1, 5)) *)
Backoff(attempts) == BackoffSteps[Lesser(attempts, Len(BackoffSteps))]

EventTimeRequested(e) == job[e].eventTime # NoSource

-----------------------------------------------------------------------------
(* Recording events.                                                       *)

NewJob(category, eventTime, context) ==
    [category |-> category, clip |-> NoClip, status |-> "pending",
     attempts |-> 0, wait |-> 0, eventTime |-> eventTime, context |-> context]

(* A receiver or the operations worker commits a transition row.  Row ids  *)
(* are allocated before commit, so a row may become visible after rows     *)
(* with larger ids, and some time after it occurred.                       *)
RecordV2Event(e) ==
    /\ ~Visible(e)
    /\ \E a \in 0 .. MaxDelay : age' = [age EXCEPT ![e] = a]
    /\ UNCHANGED <<job, call, clips>> /\ UNCHANGED process

(* AlertEngine and collect(): the log row and its job are one transaction, *)
(* without the worker's lock and without any upstream I/O.  While no media *)
(* service is configured, or its camera films another pit, there is no job.*)
RecordLoggedEvent(e) ==
    /\ ~Visible(e)
    /\ age' = [age EXCEPT ![e] = 0]
    /\ job' \in {job, [job EXCEPT ![e] = NewJob("manual", NoSource, NoSource)]}
    /\ UNCHANGED <<call, clips>> /\ UNCHANGED process

-----------------------------------------------------------------------------
(* queue_recent_events, under the lock.                                    *)

Fresh(e) ==
    /\ e \in V2Events /\ Visible(e) /\ ~HasJob(e)
    /\ e \notin cursor.upTo
    /\ age[e] <= MaxDelay
    /\ age[e] <= cursor.age

(* ORDER BY id LIMIT: the rows one sweep queues. *)
Queued == {e \in V2Events : /\ Fresh(e)
                            /\ Cardinality({f \in V2Events : Fresh(f) /\ f < e}) < QueueLimit}

(* Wrong on purpose: the first sweep forgets where the present starts. *)
NothingBefore(ids) == {}

(* The ids up to the largest of ids: max(event.id) as a baseline. *)
UpTo(ids) == {e \in V2Events : \E f \in ids : e <= f}

(* A new process (or assignment) starts from the present: no backfill.     *)
StartCursor ==
    /\ cursor' = [mine |-> TRUE, upTo |-> UpTo({e \in V2Events : Visible(e)}), age |-> 0]
    /\ stale' = {e \in V2Events : \E f \in V2Events : Visible(f) /\ e <= f}
    /\ UNCHANGED job

(* Wrong on purpose: the cursor moves past the ids it has queued. *)
QueueAndAdvance ==
    /\ cursor' = [cursor EXCEPT !.upTo = @ \cup UpTo(Queued)]
    /\ UNCHANGED stale
    /\ job' = [e \in Events |->
                 IF e \in Queued THEN NewJob("v2", NoSource, config.source) ELSE job[e]]

QueueRecentEvents ==
    /\ UNCHANGED <<cursor, stale>>
    /\ job' = [e \in Events |->
                 IF e \in Queued THEN NewJob("v2", NoSource, config.source) ELSE job[e]]

WorkerQueues ==
    /\ phase = "queue" /\ LockFree
    /\ phase' = "select"
    /\ IF config.enabled
         THEN IF cursor.mine THEN QueueRecentEvents ELSE StartCursor
         ELSE UNCHANGED <<cursor, job, stale>>
    /\ UNCHANGED <<config, age, batch, call, clips>>

(* The due ids are read with the lock released. *)
WorkerSelects ==
    /\ phase = "select"
    /\ phase' = "drain"
    /\ batch' = {e \in Events : Due(e)}
    /\ UNCHANGED <<config, age, job, cursor, call, clips, stale>>

-----------------------------------------------------------------------------
(* process_job, up to the HTTP request.                                    *)

(* Wrong on purpose: the age of the event is not looked at. *)
BlockIgnoringAge(e) ==
    IF job[e].context # config.source THEN "MEDIA_CLIP_SOURCE_CHANGED"
    ELSE IF ~config.enabled THEN "V2_EVENT_CLIPS_DISABLED"
    ELSE "none"

AutomaticRequestBlock(e) ==
    IF job[e].context # config.source THEN "MEDIA_CLIP_SOURCE_CHANGED"
    ELSE IF ~config.enabled THEN "V2_EVENT_CLIPS_DISABLED"
    ELSE IF age[e] > MaxDelay THEN "EVENT_CLIP_WINDOW_EXPIRED"
    ELSE "none"

(* What the handler does with row e on its n-th attempt. *)
Route(e, n) ==
    IF EventTimeRequested(e) /\ job[e].eventTime # config.source THEN "blocked"
    ELSE IF job[e].clip # NoClip THEN "get"
    ELSE IF job[e].category # "v2" \/ AutomaticRequestBlock(e) = "none" THEN "create"
    ELSE IF n > 1 /\ AutomaticRequestBlock(e) # "MEDIA_CLIP_SOURCE_CHANGED" THEN "list"
    ELSE "blocked"

Send(op, e, n) ==
    call' = [op |-> op, event |-> e, attempts |-> n, elapsed |-> 0,
             answer |-> [kind |-> "waiting"]]

Blocked(j, n) == [j EXCEPT !.attempts = n, !.wait = Never, !.status = "blocked"]

(* attempts is incremented in memory; it reaches the row with the outcome. *)
NextAttempt(e) == Lesser(MaxAttempts, job[e].attempts + 1)

ProcessJob(e) ==
    LET n  == NextAttempt(e)
        op == Route(e, n)
    IN  IF op = "blocked"
          THEN job' = [job EXCEPT ![e] = Blocked(job[e], n)] /\ UNCHANGED call
          ELSE Send(op, e, n) /\ UNCHANGED job

(* Wrong on purpose: the selected row is not read again under the lock. *)
WorkerTakesBlindly(e) ==
    /\ phase = "drain" /\ e \in batch /\ LockFree
    /\ batch' = batch \ {e}
    /\ ProcessJob(e)
    /\ UNCHANGED <<config, age, cursor, phase, clips, stale>>

(* The worker takes the lock for one selected id and reads the row again.  *)
WorkerTakes(e) ==
    /\ phase = "drain" /\ e \in batch /\ LockFree
    /\ batch' = batch \ {e}
    /\ IF Due(e) THEN ProcessJob(e) ELSE UNCHANGED <<job, call>>
    /\ UNCHANGED <<config, age, cursor, phase, clips, stale>>

WorkerRests ==
    /\ phase = "drain" /\ batch = {}
    /\ phase' = "queue"
    /\ UNCHANGED <<config, age, job, cursor, batch, call, clips, stale>>

-----------------------------------------------------------------------------
(* The administrator's requests, each holding the worker's lock.           *)

(* POST /clips for an event of the older logs without a job: the row is    *)
(* committed before the request is sent.                                   *)
RequestNewClip(e, eventTime) ==
    /\ LockFree /\ Visible(e) /\ ~HasJob(e)
    /\ job' = [job EXCEPT ![e] =
                 NewJob("manual", IF eventTime THEN config.source ELSE NoSource, NoSource)]
    /\ Send("create", e, 1)
    /\ UNCHANGED <<age, clips>> /\ UNCHANGED process

(* POST /clips for a known job.  A different time basis is a 409.          *)
RequestKnownClip(e, eventTime) ==
    /\ LockFree /\ HasJob(e)
    /\ EventTimeRequested(e) = eventTime
    /\ ProcessJob(e)
    /\ UNCHANGED <<age, clips>> /\ UNCHANGED process

(* GET and DELETE /clips/{clip_id} of a clip the service holds. *)
ReadClip(e) ==
    /\ LockFree /\ clips[config.source][e] # NoClip
    /\ Send("read", e, 1)
    /\ UNCHANGED <<age, job, clips>> /\ UNCHANGED process

DeleteClip(e) ==
    /\ LockFree /\ clips[config.source][e] # NoClip
    /\ Send("delete", e, 1)
    /\ UNCHANGED <<age, job, clips>> /\ UNCHANGED process

-----------------------------------------------------------------------------
(* The media service (external).  One clip per camera and event id.        *)

Waiting == call # NoCall /\ call.answer.kind = "waiting"

Snapshot(s, e, c) ==
    [kind |-> "clip", id |-> <<s, e>>, status |-> c.status, eventTime |-> c.eventTime]

Reply(answer) == call' = [call EXCEPT !.answer = answer]

MediaAnswers ==
    LET s == config.source
        e == call.event
        c == clips[s][e]
        new == [status |-> "collecting", eventTime |-> EventTimeRequested(e),
                late |-> age[e] > MaxDelay + HttpTimeout]
    IN  /\ Waiting
        /\ \/ /\ call.op = "create"
              /\ LET kept == IF c = NoClip THEN new ELSE c
                 IN  /\ clips' = [clips EXCEPT ![s][e] = kept]
                     /\ Reply(Snapshot(s, e, kept))
           \/ /\ call.op = "list"
              /\ Reply(IF c = NoClip THEN [kind |-> "empty"] ELSE Snapshot(s, e, c))
              /\ UNCHANGED clips
           \/ /\ call.op \in {"get", "read"}
              /\ Reply(IF c = NoClip \/ (call.op = "get" /\ job[e].clip # <<s, e>>)
                         THEN [kind |-> "refused"] ELSE Snapshot(s, e, c))
              /\ UNCHANGED clips
           \/ /\ call.op = "delete"
              /\ IF c.status = "collecting"
                   THEN Reply([kind |-> "refused"]) /\ UNCHANGED clips
                   ELSE /\ clips' = [clips EXCEPT ![s][e].status = "deleted"]
                        /\ Reply(Snapshot(s, e, [c EXCEPT !.status = "deleted"]))
        /\ UNCHANGED <<age, job>> /\ UNCHANGED process

(* A 408, 429, 5xx or RECORDING_NOT_READY; or any other error status. *)
MediaRefuses ==
    /\ Waiting
    /\ \E k \in {"busy"} \cup (IF Refusals THEN {"refused"} ELSE {}) : Reply([kind |-> k])
    /\ UNCHANGED <<age, job, clips>> /\ UNCHANGED process

(* Encoding ends; a retained file is deleted or expires on its own. *)
ClipChanges(s, e, from, to) ==
    /\ clips[s][e] # NoClip /\ clips[s][e].status = from
    /\ clips' = [clips EXCEPT ![s][e].status = to]
    /\ UNCHANGED <<age, job, call>> /\ UNCHANGED process

MediaFinishes(s, e) == ClipChanges(s, e, "collecting", "ready")
MediaExpires(s, e)  == ClipChanges(s, e, "ready", "deleted")

-----------------------------------------------------------------------------
(* The answer arrives: apply_snapshot and commit, or record the failure.   *)

Matches(e, answer) ==
    /\ job[e].clip \in {NoClip, answer.id}
    /\ EventTimeRequested(e) => job[e].eventTime = config.source
    /\ answer.eventTime = EventTimeRequested(e)

(* Wrong on purpose: a clip still being written is not polled again, or a  *)
(* finished one is polled forever.                                         *)
ApplyWithoutPolling(j, answer, receipt) ==
    [j EXCEPT !.clip = answer.id, !.status = answer.status,
              !.wait = IF receipt THEN PollInterval ELSE Never]
ApplyPollingForever(j, answer, receipt) ==
    [j EXCEPT !.clip = answer.id, !.status = answer.status, !.wait = PollInterval]

(* A receipt, and a clip still being written, are polled again; a finished *)
(* clip is not.                                                            *)
ApplySnapshot(j, answer, receipt) ==
    [j EXCEPT !.clip = answer.id,
              !.status = answer.status,
              !.wait = IF receipt \/ answer.status = "collecting"
                         THEN PollInterval ELSE Never]

(* Wrong on purpose: a failed attempt is not counted. *)
DeferredUncounted(j, n) == [j EXCEPT !.wait = Backoff(n)]

Deferred(j, n) == [j EXCEPT !.attempts = n, !.wait = Backoff(n)]

(* Wrong on purpose: deleting the file forgets which clip it was. *)
RefreshingForgotten(j) ==
    [j EXCEPT !.status = "refreshing", !.wait = 0, !.clip = NoClip,
              !.eventTime = NoSource, !.context = NoSource]

(* After a deletion the row is read again; its local snapshot is dropped. *)
Refreshing(j) ==
    [j EXCEPT !.status = "refreshing", !.wait = 0,
              !.eventTime = NoSource, !.context = NoSource]

Jobs  == {"create", "list", "get"}
JobCall(e) == call # NoCall /\ call.event = e /\ call.op \in Jobs
Ended == call' = NoCall

Finish ==
    /\ call # NoCall /\ call.answer.kind \in {"clip", "empty", "refused"}
    /\ LET e == call.event
           j == job[e]
           n == call.attempts
           ok == call.answer.kind = "clip"
       IN  IF call.op \in Jobs
             THEN job' = [job EXCEPT ![e] =
                    IF ok /\ Matches(e, call.answer)
                      THEN [ApplySnapshot(j, call.answer, call.op = "create")
                              EXCEPT !.attempts = n]
                      ELSE Blocked(j, n)]
           ELSE IF ok /\ HasJob(e) /\ j.clip = call.answer.id
             THEN IF call.op = "delete"
                    THEN job' = [job EXCEPT ![e] = Refreshing(j)]
                  ELSE IF Matches(e, call.answer)
                    THEN job' = [job EXCEPT ![e] = ApplySnapshot(j, call.answer, FALSE)]
                    ELSE UNCHANGED job
             ELSE UNCHANGED job
    /\ Ended
    /\ UNCHANGED <<age, clips>> /\ UNCHANGED process

(* A timeout, a broken connection or a retryable status.  The service may  *)
(* have handled the request whose answer is lost.                          *)
Fail ==
    /\ call # NoCall
    /\ LET e == call.event
       IN  IF call.op \in Jobs
             THEN job' = [job EXCEPT ![e] = Deferred(job[e], call.attempts)]
             ELSE UNCHANGED job
    /\ Ended
    /\ UNCHANGED <<age, clips>> /\ UNCHANGED process

-----------------------------------------------------------------------------
(* The process dies and starts again, possibly with other settings: its    *)
(* lock, its token, its selected ids and its open request are gone.        *)
Restart ==
    /\ Restarts
    /\ \E s \in Sources, enabled \in BOOLEAN :
          config' = [source |-> s, enabled |-> enabled]
    /\ cursor' = [cursor EXCEPT !.mine = FALSE, !.age = 0]
    /\ phase' = "queue" /\ batch' = {} /\ call' = NoCall
    /\ stale' = {e \in V2Events : Visible(e)}
    /\ UNCHANGED <<age, job, clips>>

Tick ==
    /\ call # NoCall => call.elapsed < HttpTimeout
    /\ age' = [e \in Events |-> IF e \in V2Events /\ Visible(e)
                                THEN Lesser(AgeCap, age[e] + 1) ELSE age[e]]
    /\ job' = [e \in Events |->
                 IF HasJob(e) /\ job[e].wait > 0
                   THEN [job[e] EXCEPT !.wait = @ - 1] ELSE job[e]]
    /\ cursor' = [cursor EXCEPT !.age = IF cursor.mine THEN Lesser(AgeCap, @ + 1) ELSE 0]
    /\ call' = IF call = NoCall THEN NoCall ELSE [call EXCEPT !.elapsed = @ + 1]
    /\ UNCHANGED <<config, phase, batch, clips, stale>>

-----------------------------------------------------------------------------
Init ==
    /\ config \in [source : Sources, enabled : BOOLEAN]
    /\ age = [e \in Events |-> Absent]
    /\ job = [e \in Events |-> NoJob]
    /\ cursor = [mine |-> FALSE, upTo |-> {}, age |-> 0]
    /\ phase = "queue" /\ batch = {} /\ call = NoCall
    /\ clips = [s \in Sources |-> [e \in Events |-> NoClip]]
    /\ stale = {}

Worker == WorkerQueues \/ WorkerSelects \/ WorkerRests \/ \E e \in Events : WorkerTakes(e)

Endpoints ==
    \/ \E e \in Watched : ReadClip(e) \/ DeleteClip(e)
    \/ \E e \in Watched, eventTime \in BOOLEAN : RequestKnownClip(e, eventTime)
    \/ \E e \in Watched \cap LogEvents, eventTime \in BOOLEAN : RequestNewClip(e, eventTime)

Media ==
    \/ MediaAnswers \/ MediaRefuses
    \/ \E s \in Sources, e \in Events : MediaFinishes(s, e) \/ MediaExpires(s, e)

(* What goes on without an administrator. *)
Unattended ==
    \/ \E e \in V2Events : RecordV2Event(e)
    \/ \E e \in LogEvents \ V2Events : RecordLoggedEvent(e)
    \/ Worker \/ Media
    \/ Finish \/ Fail \/ Restart \/ Tick

Next == Unattended \/ Endpoints

Spec == Init /\ [][Next]_vars

(* The process stays up in the end, the service keeps answering, the       *)
(* worker keeps sweeping (asyncio.Lock is FIFO, so an id the worker waits  *)
(* for gets its turn), time passes and the service finishes encoding.      *)
(* Administrators owe nobody anything.                                     *)
Fairness ==
    /\ <>[][~Restart]_vars
    /\ WF_vars(Tick)
    /\ WF_vars(WorkerSelects) /\ WF_vars(WorkerRests) /\ SF_vars(WorkerQueues)
    /\ WF_vars(Finish \/ Fail)
    /\ \A e \in Events :
          /\ SF_vars(WorkerTakes(e))
          /\ SF_vars(JobCall(e) /\ MediaAnswers)
          /\ SF_vars(JobCall(e) /\ Finish)
          /\ \A s \in Sources : WF_vars(MediaFinishes(s, e))

FairSpec == Spec /\ Fairness

-----------------------------------------------------------------------------
(* Properties.                                                             *)

(* Every row, cursor, call and clip has the shape its table or message has. *)
TypeOK ==
    /\ config \in [source : Sources, enabled : BOOLEAN]
    /\ age \in [Events -> {Absent} \cup 0 .. AgeCap]
    /\ job \in [Events -> Job \cup {NoJob}]
    /\ cursor \in [mine : BOOLEAN, upTo : SUBSET V2Events, age : 0 .. AgeCap]
    /\ phase \in {"queue", "select", "drain"}
    /\ batch \subseteq Events
    /\ call \in Call \cup {NoCall}
    /\ clips \in [Sources -> [Events -> Clip \cup {NoClip}]]
    /\ stale \subseteq V2Events

(* "next_attempt_at survives application restarts": a job that still has   *)
(* work to do - not accepted yet, still being written, or to be read again *)
(* after a deletion - always has a next attempt, whatever failed, raced or *)
(* died in between.  A forgotten one would never be looked at again.       *)
WorkIsScheduled ==
    \A e \in Events : HasJob(e) /\ job[e].status \in {"pending", "collecting", "refreshing"}
                         => job[e].wait # Never

(* "never by a late POST which could film the wrong time": the service     *)
(* never starts filming for an automatic event after the allowed delay (and *)
(* the time one call may take), whatever was retried, queued, restarted or *)
(* reconfigured before.                                                    *)
NeverFilmsLate ==
    \A s \in Sources, e \in Events :
       HasJob(e) /\ job[e].category = "v2" /\ clips[s][e] # NoClip => ~clips[s][e].late

(* A job is bound to one remote clip for good: no answer, retry, restart   *)
(* or change of media service replaces or drops the clip it is bound to.   *)
ClipIdentityKept ==
    [][\A e \in Events : HasJob(e) /\ job[e].clip # NoClip
                            => job'[e] # NoJob /\ job'[e].clip = job[e].clip]_vars

(* "never backfill camera footage": an event that was already visible when *)
(* this process started is never queued by it, however the restart falls   *)
(* between the event, the baseline and the sweeps.                         *)
NeverBackfills ==
    [][\A e \in stale : ~HasJob(e) /\ job'[e] # NoJob => job'[e].category # "v2"]_vars

(* "IDs are allocated before commit, so a smaller ID may become visible    *)
(* later": whatever the order in which rows become visible, a sweep of a   *)
(* running process leaves no fresh event unqueued unless it is full.       *)
FreshEventsQueued ==
    [][ phase = "queue" /\ phase' = "select" /\ config.enabled /\ cursor.mine =>
        \/ Cardinality({e \in V2Events : job'[e] # job[e]}) = QueueLimit
        \/ \A e \in V2Events \ stale :
              Visible(e) /\ age[e] <= Lesser(MaxDelay, cursor.age) => job'[e] # NoJob ]_vars

(* "Recover it by GET, never by a late POST": when an automatic job is     *)
(* given up, the clip the service did accept for it is known, even when    *)
(* the answer to the creation was lost.                                    *)
LostAnswerRecovered ==
    \A e \in Events :
       /\ HasJob(e) /\ job[e].category = "v2" /\ job[e].status = "blocked"
       /\ job[e].clip = NoClip /\ job[e].context = config.source
       => clips[config.source][e] = NoClip

(* Every job comes to rest - a finished clip or a recorded refusal - as    *)
(* long as the service answers now and then.                               *)
JobsComeToRest ==
    \A e \in Events : (HasJob(e) /\ job[e].wait # Never) ~> (HasJob(e) /\ job[e].wait = Never)
=============================================================================

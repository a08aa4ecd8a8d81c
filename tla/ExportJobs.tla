------------------------------- MODULE ExportJobs -------------------------------
(***************************************************************************)
(* Downloads of an event's window: requests under a client's own number,   *)
(* the job each of them is bound to for good, and the extraction of the    *)
(* media service the job stands for.                                       *)
(*                                                                         *)
(* Requests, reads and the worker hold one lock while they wait for the    *)
(* media service, so each is one step; the clip changes between them, and  *)
(* what becomes of the step's call is open: it is answered, its answer is  *)
(* lost, it never arrives, it is refused, its answer does not match, or    *)
(* the process ends after the commit that precedes it.                     *)
(***************************************************************************)
EXTENDS Integers, Sequences, FiniteSetsExt

CONSTANTS
    Owners, Requests,   \* accounts, and the numbers their clients make up
    Windows,            \* [event, before, after]
    Closed,             \* those of ended events, not too long and not in the future
    MediaSources,       \* digests of URL, camera and pit of the media service
    InitialSource,      \* of them; it is changed once
    NoMedia,
    MaxJobs, MaxExtractions   \* bounds: jobs; extractions of one job

ASSUME ExportAssumption ==
    /\ InitialSource \in MediaSources
    /\ NoMedia \notin [status : {"processing", "ready", "failed", "gone"}, extractions : Nat]

VARIABLES
    exports,    \* MediaClipJob rows of the category, in the order of their ids
    aliases,    \* EventExportAlias: [owner, request] -> a job's id, or 0
    source,     \* in force
    mediaClips,      \* media service: the clip of each job's event_id, or NoMedia
    told,       \* history: [owner, request] -> <<job, window>> its answers were about
    owed        \* history: jobs whose accepted retry the media service has not been sent

exportVars == <<exports, aliases, source, mediaClips, told, owed>>

Underway == {"pending", "collecting", "processing"}

(* apply_snapshot: what the media service says, over all that is stored    *)
(* except the context of the request; an answer to a POST is a receipt,    *)
(* and is followed up.  Wrong on purpose: the context goes as well.        *)
AppliedOverContext(job, clip, receipt) ==
    [job EXCEPT !.clip = TRUE, !.status = clip.status, !.retry = FALSE,
                !.due = receipt \/ clip.status \in {"collecting", "processing"}]

Applied(job, clip, receipt) ==
    [job EXCEPT !.clip = TRUE, !.status = clip.status,
                !.due = receipt \/ clip.status \in {"collecting", "processing"}]

(* refresh_export: a job with a known clip is brought up to date. *)
Refreshed(j) == IF exports[j].clip THEN Applied(exports[j], mediaClips[j], FALSE) ELSE exports[j]

(* The media service, asked for a range under the same key, goes on with   *)
(* what it has and starts a failed extraction again only when told to.     *)
AfterPost(clip, retry) ==
    IF clip = NoMedia THEN [status |-> "processing", extractions |-> 1]
    ELSE IF retry /\ clip.status = "failed"
      THEN [clip EXCEPT !.status = "processing", !.extractions = @ + 1]
    ELSE clip

(* process_job: the results a dispatch of the job may have.  A failure     *)
(* that may pass is tried again by the worker, another one blocks the job. *)
Results(job, clip) ==
    LET posted  == AfterPost(clip, job.retry)
        later   == [job EXCEPT !.due = TRUE]
        blocked == [job EXCEPT !.due = FALSE, !.status = "blocked"]
    IN  IF job.source # source THEN {[job |-> blocked, clip |-> clip, sent |-> FALSE, ok |-> FALSE]}
        ELSE IF ~job.clip \/ job.retry
          THEN {[job |-> [Applied(job, posted, TRUE) EXCEPT !.retry = FALSE],
                 clip |-> posted, sent |-> TRUE, ok |-> TRUE]}
               \union {[job |-> late, clip |-> posted, sent |-> TRUE, ok |-> FALSE] : late \in {later, blocked}}
               \union {[job |-> late, clip |-> clip, sent |-> FALSE, ok |-> FALSE] : late \in {later, blocked}}
          ELSE {[job |-> Applied(job, clip, FALSE), clip |-> clip, sent |-> FALSE, ok |-> TRUE]}
               \union {[job |-> late, clip |-> clip, sent |-> FALSE, ok |-> FALSE] : late \in {later, blocked}}

-----------------------------------------------------------------------------
(* bound_export: the alias first; a job made before there were aliases is  *)
(* found by the number it was made under.                                  *)

Canonical(o, r) == {j \in DOMAIN exports : exports[j].owner = o /\ exports[j].request = r}

(* Wrong on purpose: a number that was bound to another's job is not found. *)
BoundToOwn(o, r) == IF Canonical(o, r) = {} THEN 0 ELSE Max(Canonical(o, r))

Bound(o, r) ==
    IF aliases[<<o, r>>] # 0 THEN aliases[<<o, r>>]
    ELSE IF Canonical(o, r) = {} THEN 0 ELSE Max(Canonical(o, r))

Matching(o, w) ==
    {j \in DOMAIN exports : exports[j].owner = o /\ exports[j].window = w /\ exports[j].source = source}

(* Wrong on purpose: an extraction under way is not looked for. *)
ReusableIfReady(job) == job.status = "ready"

Reusable(job) == job.status \in Underway \union {"ready"}

Told(o, r, w, j) == told' = [told EXCEPT ![<<o, r>>] = @ \union {<<j, w>>}]

-----------------------------------------------------------------------------
(* request_export of an unknown number: matching jobs are refreshed,       *)
(* newest first, until one serves; the alias is committed before the       *)
(* dispatch of a job of its own.                                           *)

Candidates(o, w) == {j \in Matching(o, w) : exports[j].status \in Underway \union {"ready"}}
Serving(o, w) == {j \in Candidates(o, w) : Reusable(Refreshed(j))}
RefreshedAll(S) == [j \in DOMAIN exports |-> IF j \in S THEN Refreshed(j) ELSE exports[j]]

ReuseJob(o, r, w) ==
    /\ Bound(o, r) = 0 /\ Serving(o, w) # {}
    /\ LET j == Max(Serving(o, w)) IN
         /\ exports' = RefreshedAll({i \in Candidates(o, w) : i >= j})
         /\ aliases' = [aliases EXCEPT ![<<o, r>>] = j]
         /\ Told(o, r, w, j)
    /\ UNCHANGED <<source, mediaClips, owed>>

(* A refresh that fails ends the request: nothing is made in its stead. *)
RefreshFails(o, r, w) ==
    /\ Bound(o, r) = 0
    /\ \E j \in {i \in Candidates(o, w) : exports[i].clip} :
         /\ \A i \in Serving(o, w) : i <= j
         /\ exports' = RefreshedAll({i \in Candidates(o, w) : i > j})
    /\ UNCHANGED <<aliases, source, mediaClips, told, owed>>

NewExport(o, r, w) ==
    [owner |-> o, request |-> r, window |-> w, source |-> source,
     status |-> "pending", clip |-> FALSE, retry |-> FALSE, due |-> TRUE]

MakeJob(o, r, w) ==
    /\ w \in Closed /\ Bound(o, r) = 0 /\ Serving(o, w) = {} /\ Len(exports) < MaxJobs
    /\ aliases' = [aliases EXCEPT ![<<o, r>>] = Len(exports) + 1]
    /\ LET before == RefreshedAll(Candidates(o, w))
           job    == NewExport(o, r, w)
       IN  \/ \E result \in Results(job, NoMedia) :
                /\ exports' = Append(before, result.job)
                /\ mediaClips' = Append(mediaClips, result.clip)
                /\ IF result.ok THEN Told(o, r, w, Len(exports) + 1) ELSE UNCHANGED told
           \/ /\ exports' = Append(before, job)
              /\ mediaClips' = Append(mediaClips, NoMedia)
              /\ UNCHANGED told
    /\ UNCHANGED <<source, owed>>

(* request_export of a known number, for the same window; a retry is       *)
(* committed before the dispatch.                                          *)
Dispatch(j, job, o, r, w) ==
    \/ \E result \in Results(job, mediaClips[j]) :
         /\ exports' = [exports EXCEPT ![j] = result.job]
         /\ mediaClips' = [mediaClips EXCEPT ![j] = result.clip]
         /\ owed' = IF result.sent THEN owed \ {j}
                    ELSE IF job.retry /\ ~exports[j].retry THEN owed \union {j} ELSE owed
         /\ IF result.ok THEN Told(o, r, w, j) ELSE UNCHANGED told
    \/ /\ exports' = [exports EXCEPT ![j] = job]
       /\ owed' = IF job.retry /\ ~exports[j].retry THEN owed \union {j} ELSE owed
       /\ UNCHANGED <<mediaClips, told>>

RequestAgain(o, r, w, retry) ==
    LET j == Bound(o, r) IN
    /\ j # 0 /\ exports[j].window = w /\ exports[j].source = source
    /\ Dispatch(j, [exports[j] EXCEPT !.retry = @ \/ retry], o, r, w)
    /\ UNCHANGED <<aliases, source>>

(* EVENT_EXPORT_REQUEST_CONFLICT, MEDIA_CLIP_SOURCE_CHANGED: for a request *)
(* and for a read alike.                                                   *)
RefuseNumber(o, r, w) ==
    /\ Bound(o, r) # 0
    /\ exports[Bound(o, r)].window # w \/ exports[Bound(o, r)].source # source
    /\ UNCHANGED exportVars

-----------------------------------------------------------------------------
(* read_export and lookup_export: never a new job, never a retry. *)

ReadExport(o, r, w) ==
    LET j == Bound(o, r) IN
    /\ j # 0 /\ exports[j].window = w /\ exports[j].source = source
    /\ exports' = [exports EXCEPT ![j] = Refreshed(j)]
    /\ Told(o, r, w, j)
    /\ UNCHANGED <<aliases, source, mediaClips, owed>>

LookupExport(o, w) ==
    /\ Matching(o, w) # {}
    /\ exports' = [exports EXCEPT ![Max(Matching(o, w))] = Refreshed(Max(Matching(o, w)))]
    /\ UNCHANGED <<aliases, source, mediaClips, told, owed>>

WorkerDispatches(j) ==
    /\ exports[j].due
    /\ \E result \in Results(exports[j], mediaClips[j]) :
         /\ exports' = [exports EXCEPT ![j] = result.job]
         /\ mediaClips' = [mediaClips EXCEPT ![j] = result.clip]
         /\ owed' = IF result.sent THEN owed \ {j} ELSE owed
    /\ UNCHANGED <<aliases, source, told>>

(* A restart with other settings of the media service. *)
ChangeSource(s) ==
    /\ s # source /\ source = InitialSource /\ source' = s
    /\ UNCHANGED <<exports, aliases, mediaClips, told, owed>>

(* The media service: extraction ends; a file runs out, which it may still *)
(* call ready with an expires_at that has passed, or is deleted.           *)
ClipMoves(j) ==
    /\ mediaClips[j] # NoMedia
    /\ \/ /\ mediaClips[j].status = "processing"
          /\ \/ mediaClips' = [mediaClips EXCEPT ![j].status = "ready"]
             \/ /\ mediaClips[j].extractions < MaxExtractions
                /\ mediaClips' = [mediaClips EXCEPT ![j].status = "failed"]
       \/ /\ mediaClips[j].status = "ready"
          /\ mediaClips' = [mediaClips EXCEPT ![j].status = "gone"]
    /\ UNCHANGED <<exports, aliases, source, told, owed>>

ExportInit ==
    /\ exports = <<>> /\ mediaClips = <<>> /\ owed = {}
    /\ aliases = [k \in Owners \X Requests |-> 0]
    /\ told = [k \in Owners \X Requests |-> {}]
    /\ source = InitialSource

ExportNext ==
    \/ \E o \in Owners, w \in Windows :
         \/ LookupExport(o, w)
         \/ \E r \in Requests :
              \/ ReuseJob(o, r, w) \/ RefreshFails(o, r, w) \/ MakeJob(o, r, w) \/ ReadExport(o, r, w)
              \/ RefuseNumber(o, r, w)
              \/ \E retry \in BOOLEAN : RequestAgain(o, r, w, retry)
    \/ \E j \in DOMAIN exports : WorkerDispatches(j) \/ ClipMoves(j)
    \/ \E s \in MediaSources : ChangeSource(s)

ExportSpec == ExportInit /\ [][ExportNext]_exportVars

-----------------------------------------------------------------------------
(* Properties.                                                             *)

(* "A new UUID is bound to the original job for good", "the same alias is  *)
(* not answered with another file later", "another event is a conflict":   *)
(* all answers under one number of an account are about one job, one of    *)
(* that account and of the window that was asked for.                      *)
RequestsKeepTheirClip ==
    \A o \in Owners, r \in Requests :
        /\ Cardinality(told[<<o, r>>]) <= 1
        /\ \A answer \in told[<<o, r>>] :
              exports[answer[1]].owner = o /\ exports[answer[1]].window = answer[2]

(* "If looking fails no new file is made in its stead", "processing or     *)
(* ready files are reused": when a job is made, no earlier one for the     *)
(* same account, window and source has a clip that is being made or can be *)
(* downloaded - except one the backend has blocked, and one with a retry   *)
(* it has not heard the answer of, which is still shown as failed.         *)
NoNeedlessClip ==
    [][\A j \in DOMAIN exports :
         LET made == exports'[Len(exports')] IN
         /\ Len(exports') > Len(exports)
         /\ exports[j].owner = made.owner /\ exports[j].window = made.window
         /\ exports[j].source = made.source
         /\ exports[j].status # "blocked" /\ ~exports[j].retry
         => mediaClips[j] # NoMedia /\ mediaClips[j].status \in {"failed", "gone"}]_exportVars

(* "The intent to retry is stored as well and kept when the answer is      *)
(* lost": until the media service has been sent it, whatever else is read  *)
(* or refused in between, the job carries the retry.                       *)
RetryIsKept == \A j \in owed : exports[j].retry

(* What a request was answered stays true, and what it asked again for is  *)
(* asked of the media service.                                             *)
RequestsAreKept == RequestsKeepTheirClip /\ RetryIsKept
=============================================================================

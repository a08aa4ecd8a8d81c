----------------------------- MODULE CameraStatus -----------------------------
(***************************************************************************)
(* The camera's status, of one pit: streams that read it through one       *)
(* cache and one request at a time, and deliver what they read later.  A   *)
(* monotonic clock, a wall clock that may be set, and a configured source  *)
(* that may change; a source that was given up is not configured again.    *)
(***************************************************************************)
EXTENDS Integers

CONSTANTS
    Readers,            \* streams
    Bindings,           \* (pit, URL, camera)
    Unknown,            \* a status without evidence, whatever its reason
    NoBinding, Empty,   \* null values
    Assessments,        \* assessed_at of the answers
    Lease,              \* valid_until_at - assessed_at of the answers
    RefreshTime,        \* REFRESH_SECONDS
    WallTimes,          \* what the wall clock may be set to
    Trust,              \* the second an assessment may lie ahead
    MaxSteady, MaxSets  \* bounds

(* What is known of the camera, as far as it is passed on; the null values *)
(* are nothing of the kind.                                                *)
Evidence == [binding : Bindings, assessed : Int, validUntil : Int, validFor : Int]

ASSUME CameraAssumption ==
    /\ Bindings # {} /\ Assessments \subseteq Int /\ WallTimes \subseteq Int
    /\ Lease \in Nat /\ RefreshTime \in Nat /\ Trust \in Nat /\ MaxSteady \in Nat
    /\ Unknown \notin Evidence
    /\ Empty \notin [status : Evidence, at : Int, source : Bindings]
    /\ Empty \notin [binding : Bindings, assessed : Int, deadline : Int]
    /\ Empty \notin [binding : Bindings, status : Evidence \union {Unknown},
                     deadline : Int, refreshAt : Int, receivedAt : Int]

VARIABLES
    steady, wall, sets,  \* the two clocks; how often the second was set
    bound,      \* binding(pit)
    past,       \* sources that were configured
    cached,     \* _cached: [binding, status, refreshAt, deadline, receivedAt], or Empty
    last,       \* _last: [binding, assessed, deadline], or Empty
    reader,     \* stream -> [stage, binding, started, status, receivedAt]
    shows,      \* history: stream -> the evidence it has delivered last, or Empty
    firsts      \* history: [assessed, started] of the answers of the first source

cameraVars == <<steady, wall, sets, bound, past, cached, last, reader, shows, firsts>>

Holds(r) == reader[r].stage = "fetching"

AtRest == [stage |-> "idle", binding |-> NoBinding, started |-> 0, status |-> Unknown,
           receivedAt |-> 0, computed |-> 0]

Least(a, b) == IF a <= b THEN a ELSE b

IsEvidence(status) == status # Unknown

(* cached *)
RenewedStatus(saved) == [saved.status EXCEPT !.validFor = Least(saved.deadline - steady,
                                                          saved.status.validUntil - wall)]

IsCurrent(saved, binding) ==
    /\ saved # Empty /\ saved.binding = binding
    /\ steady < saved.refreshAt /\ wall >= saved.receivedAt
    /\ IsEvidence(saved.status) => wall < saved.status.validUntil /\ steady < saved.deadline

Cached(saved) == IF IsEvidence(saved.status) THEN RenewedStatus(saved) ELSE saved.status

(* An assessment that was seen is not valid longer for being read again.   *)
(* Wrong on purpose: it is.                                                *)
DeadlineOfAnswer(binding, assessed, started) ==
    steady + Least(assessed + Lease - wall, Lease - (steady - started))

Deadline(binding, assessed, started) ==
    IF last # Empty /\ last.binding = binding /\ last.assessed = assessed
      THEN Least(DeadlineOfAnswer(binding, assessed, started), last.deadline)
      ELSE DeadlineOfAnswer(binding, assessed, started)

(* interpret *)
Accepts(binding, assessed, started) ==
    /\ assessed <= wall + Trust
    /\ last # Empty /\ last.binding = binding => assessed >= last.assessed
    /\ Deadline(binding, assessed, started) > steady

(* delivery_status.  Wrong on purpose: what is left when it was read is    *)
(* left when it is delivered.                                              *)
RemainingAsRead(read) == read.status.validFor

Remaining(read) == Least(read.status.validFor - (steady - read.receivedAt),
                         read.status.validUntil - wall)

Delivered(read) ==
    CASE bound # read.binding \/ wall < read.computed -> Unknown
      [] bound = read.binding /\ wall >= read.computed ->
           IF IsEvidence(read.status) /\ Remaining(read) > 0
             THEN [read.status EXCEPT !.validFor = Remaining(read)]
             ELSE Unknown

-----------------------------------------------------------------------------
Answered(r, status) ==
    reader' = [reader EXCEPT ![r] = [@ EXCEPT !.stage = "read", !.status = status,
                                              !.receivedAt = steady, !.computed = wall]]

(* get: from the cache, or to the lock. *)
Read(r) ==
    /\ reader[r].stage = "idle"
    /\ IF IsCurrent(cached, bound)
         THEN reader' = [reader EXCEPT ![r] = [AtRest EXCEPT !.stage = "read",
                             !.binding = bound, !.status = Cached(cached),
                             !.receivedAt = steady, !.computed = wall]]
         ELSE reader' = [reader EXCEPT ![r] = [AtRest EXCEPT !.stage = "waiting",
                                                             !.binding = bound]]
    /\ UNCHANGED <<steady, wall, sets, bound, past, cached, last, shows, firsts>>

(* Another request may have filled the cache meanwhile. *)
EnterLock(r) ==
    /\ reader[r].stage = "waiting" /\ \A other \in Readers : ~Holds(other)
    /\ IF IsCurrent(cached, reader[r].binding) THEN Answered(r, Cached(cached))
       ELSE reader' = [reader EXCEPT ![r] = [@ EXCEPT !.stage = "fetching", !.started = steady]]
    /\ UNCHANGED <<steady, wall, sets, bound, past, cached, last, shows, firsts>>

Saved(r, status, deadline) ==
    [binding |-> reader[r].binding, status |-> status, deadline |-> deadline,
     refreshAt |-> IF IsEvidence(status) THEN Least(steady + RefreshTime, deadline)
                   ELSE steady + RefreshTime,
     receivedAt |-> wall]

(* The answer of the media service comes, or fails in one of many ways;    *)
(* the source may have changed.                                            *)
Observe(r, fails, assessed) ==
    /\ Holds(r)
    /\ LET binding  == reader[r].binding
           started  == reader[r].started
           accepted == ~fails /\ Accepts(binding, assessed, started)
           deadline == Deadline(binding, assessed, started)
           status   == IF accepted THEN [binding |-> binding, assessed |-> assessed,
                                         validUntil |-> wall + deadline - steady,
                                         validFor |-> deadline - steady]
                       ELSE Unknown
           saved    == Saved(r, status, IF accepted THEN deadline ELSE steady)
       IN  /\ last' = IF accepted THEN [binding |-> binding, assessed |-> assessed,
                                        deadline |-> deadline] ELSE last
           /\ firsts' = IF accepted /\ past = {}
                          THEN firsts \union {[assessed |-> assessed, started |-> started]}
                          ELSE firsts
           /\ cached' = IF bound # binding THEN Empty ELSE saved
           /\ Answered(r, IF bound = binding /\ IsCurrent(saved, binding)
                            THEN Cached(saved) ELSE Unknown)
    /\ UNCHANGED <<steady, wall, sets, bound, past, shows>>

(* TOTAL_SECONDS, of the wait for the lock and the request together. *)
Busy(r) ==
    /\ reader[r].stage \in {"waiting", "fetching"} /\ Answered(r, Unknown)
    /\ UNCHANGED <<steady, wall, sets, bound, past, cached, last, shows, firsts>>

Deliver(r) ==
    /\ reader[r].stage = "read"
    /\ LET status == Delivered(reader[r]) IN
       shows' = IF IsEvidence(status)
                  THEN [shows EXCEPT ![r] = [status |-> status, at |-> steady, source |-> bound]]
                  ELSE shows
    /\ reader' = [reader EXCEPT ![r] = AtRest]
    /\ UNCHANGED <<steady, wall, sets, bound, past, cached, last, firsts>>

CameraTick ==
    /\ steady < MaxSteady /\ steady' = steady + 1 /\ wall' = wall + 1
    /\ UNCHANGED <<sets, bound, past, cached, last, reader, shows, firsts>>

SetWallClock(time) ==
    /\ sets < MaxSets /\ sets' = sets + 1 /\ wall' = time /\ time # wall
    /\ UNCHANGED <<steady, bound, past, cached, last, reader, shows, firsts>>

ChangeBinding(binding) ==
    /\ binding \notin past \union {bound} /\ bound' = binding /\ past' = past \union {bound}
    /\ firsts' = {}
    /\ UNCHANGED <<steady, wall, sets, cached, last, reader, shows>>

CameraInit ==
    /\ steady = 0 /\ wall = 1 /\ sets = 0 /\ bound = (CHOOSE b \in Bindings : TRUE) /\ past = {}
    /\ cached = Empty /\ last = Empty /\ firsts = {}
    /\ reader = [r \in Readers |-> AtRest] /\ shows = [r \in Readers |-> Empty]

CameraNext ==
    \/ \E r \in Readers :
         \/ Read(r) \/ EnterLock(r) \/ Busy(r) \/ Deliver(r)
         \/ Observe(r, TRUE, 0)
         \/ \E assessed \in Assessments : Observe(r, FALSE, assessed)
    \/ CameraTick
    \/ \E time \in WallTimes : SetWallClock(time)
    \/ \E binding \in Bindings : ChangeBinding(binding)

CameraSpec == CameraInit /\ [][CameraNext]_cameraVars

-----------------------------------------------------------------------------
(* Properties.                                                             *)

(* "A slow consumer must not renew a completed read's lease by receiving   *)
(* it late": however often an assessment is read, cached and delivered,    *)
(* and however the wall clock is set, it is not valid beyond its lifetime  *)
(* after the request that brought it first.  (While the source is the one  *)
(* the process began with: a read that waited for the lock through a       *)
(* change still asks the old source and overwrites _last.)                 *)
EvidenceIsNotRenewed ==
    \A r \in Readers, first \in firsts :
        /\ shows[r] # Empty /\ past = {}
        /\ first.assessed = shows[r].status.assessed
        => shows[r].at + shows[r].status.validFor <= first.started + Lease

(* What is delivered as evidence is of the source configured then.         *)
EvidenceIsOfSource ==
    \A r \in Readers : shows[r] # Empty => shows[r].status.binding = shows[r].source

(* Each of these, and no stream sees the assessments go back.              *)
CameraIsHonest ==
    [][/\ EvidenceIsNotRenewed' /\ EvidenceIsOfSource'
       /\ \A r \in Readers :
            shows[r] # shows'[r] /\ shows[r] # Empty /\ past' = {}
            => shows'[r].status.assessed >= shows[r].status.assessed]_cameraVars
=============================================================================

--------------------------- MODULE MediaJobs_proofs ---------------------------
(***************************************************************************)
(* Proofs about MediaJobs: type correctness, that unfinished work always   *)
(* has a next attempt, that an automatic event is never filmed late and    *)
(* none of before the process at all, that a sweep leaves no fresh event,  *)
(* that a job is bound to one clip for good, and that lost answers are     *)
(* recovered while nothing restarts.                                       *)
(***************************************************************************)
EXTENDS MediaJobs, LeastNumber, TLAPS

(* What the handlers know of the request they are waiting for: a job's     *)
(* request has its row, an administrator's request a clip, and an answer   *)
(* with a clip is about the event asked for.                               *)
CallOK ==
    call # NoCall =>
       /\ call.op \in Jobs => HasJob(call.event)
       /\ call.op \in {"read", "delete"} => clips[config.source][call.event] # NoClip
       /\ call.answer.kind = "clip" => call.answer.id = <<config.source, call.event>>

(* A row exists only for an event that is visible. *)
RowsHaveEvents == \A e \in Events : HasJob(e) => Visible(e)

(* The service holds clips only for events that have a row. *)
ClipsHaveRows == \A s \in Sources, e \in Events : clips[s][e] # NoClip => HasJob(e)

(* An open creation for an automatic event was sent inside the window. *)
SentInWindow ==
    call # NoCall /\ call.op = "create" /\ HasJob(call.event) /\ job[call.event].category = "v2"
       => age[call.event] <= MaxDelay + call.elapsed

IInv == TypeOK /\ CallOK /\ RowsHaveEvents /\ ClipsHaveRows
            /\ WorkIsScheduled /\ SentInWindow /\ NeverFilmsLate

USE MediaJobsAssumption, NullAssumption

-----------------------------------------------------------------------------
(* The delay of a retry is one of the table's. *)
LEMMA BackoffType == ASSUME NEW n \in 1 .. MaxAttempts PROVE Backoff(n) \in 1 .. MaxBackoff
  <1>1. Len(BackoffSteps) \in Nat \ {0}
    BY DEF MediaJobsAssumption
  <1>2. Lesser(n, Len(BackoffSteps)) \in 1 .. Len(BackoffSteps)
    BY <1>1 DEF Lesser, MediaJobsAssumption
  <1> QED BY <1>2 DEF Backoff, MediaJobsAssumption

LEMMA WaitCapType == /\ WaitCap \in Nat /\ PollInterval <= WaitCap /\ MaxBackoff <= WaitCap
                     /\ AgeCap \in Nat /\ MaxDelay <= AgeCap /\ MaxDelay + HttpTimeout < AgeCap
  BY DEF WaitCap, AgeCap, MediaJobsAssumption

LEMMA WaitCountsDown ==
    ASSUME NEW w \in {Never} \cup 0 .. WaitCap, w > 0
    PROVE  w - 1 \in 0 .. WaitCap
  BY WaitCapType DEF Never

LEMMA NewJobType ==
    ASSUME NEW category \in {"v2", "manual"},
           NEW eventTime \in Sources \cup {NoSource}, NEW context \in Sources \cup {NoSource}
    PROVE  NewJob(category, eventTime, context) \in Job
  BY WaitCapType DEF NewJob, Job, JobStatus, MediaJobsAssumption

LEMMA BlockedType == ASSUME NEW j \in Job, NEW n \in 1 .. MaxAttempts PROVE Blocked(j, n) \in Job
  <1>1. n \in 0 .. MaxAttempts
    BY DEF MediaJobsAssumption
  <1> QED BY <1>1 DEF Blocked, Job, JobStatus

LEMMA DeferredType == ASSUME NEW j \in Job, NEW n \in 1 .. MaxAttempts PROVE Deferred(j, n) \in Job
  <1>1. n \in 0 .. MaxAttempts
    BY DEF MediaJobsAssumption
  <1>2. Backoff(n) \in 0 .. WaitCap
    BY BackoffType, WaitCapType DEF MediaJobsAssumption
  <1> QED BY <1>1, <1>2 DEF Deferred, Job

LEMMA ApplyType ==
    ASSUME NEW j \in Job, NEW answer \in Answer, answer.kind = "clip", NEW receipt \in BOOLEAN
    PROVE  ApplySnapshot(j, answer, receipt) \in Job
  <1>1. answer.id \in ClipIds /\ answer.status \in RemoteStatus
    BY DEF Answer
  <1>2. PollInterval \in 0 .. WaitCap
    BY WaitCapType DEF MediaJobsAssumption
  <1>3. answer.id \in ClipIds \cup {NoClip} /\ answer.status \in JobStatus
    BY <1>1 DEF JobStatus
  <1>4. (IF receipt \/ answer.status = "collecting" THEN PollInterval ELSE Never)
            \in {Never} \cup 0 .. WaitCap
    BY <1>2
  <1> QED BY <1>3, <1>4 DEF ApplySnapshot, Job

LEMMA RefreshingType == ASSUME NEW j \in Job PROVE Refreshing(j) \in Job
  <1>1. 0 \in 0 .. WaitCap /\ "refreshing" \in JobStatus
    BY WaitCapType DEF JobStatus
  <1> QED BY <1>1 DEF Refreshing, Job

-----------------------------------------------------------------------------
(* A request the handlers send is well formed. *)
LEMMA SentType ==
    ASSUME NEW op \in {"create", "list", "get", "read", "delete"},
           NEW e \in Events, NEW n \in 1 .. MaxAttempts, Send(op, e, n)
    PROVE  /\ call' \in Call /\ call' # NoCall
           /\ call'.op = op /\ call'.event = e /\ call'.elapsed = 0
           /\ call'.answer.kind = "waiting"
  <1>1. [kind |-> "waiting"] \in Answer
    BY DEF Answer
  <1>2. 0 \in 0 .. HttpTimeout
    BY DEF MediaJobsAssumption
  <1>3. call' \in Call
    BY <1>1, <1>2 DEF Send, Call
  <1> QED BY <1>3 DEF Send, NullAssumption

(* Every part of the invariant that speaks of rows, for a step that leaves *)
(* the events and the service alone and rewrites or creates one row.       *)
LEMMA RowStep ==
    ASSUME IInv, NEW e \in Events, NEW j \in Job,
           job' = [job EXCEPT ![e] = j], UNCHANGED <<age, clips>>,
           Visible(e),
           j.status \in {"pending", "collecting", "refreshing"} => j.wait # Never,
           IF HasJob(e) THEN j.category = job[e].category ELSE j.category = "manual"
    PROVE  /\ job' \in [Events -> Job \cup {NoJob}]
           /\ RowsHaveEvents' /\ ClipsHaveRows' /\ WorkIsScheduled' /\ NeverFilmsLate'
  <1> USE DEF IInv
  <1>1. job' \in [Events -> Job \cup {NoJob}]
    BY DEF TypeOK
  <1>2. \A f \in Events : job'[f] = IF f = e THEN j ELSE job[f]
    BY DEF TypeOK
  <1>3. j # NoJob
    BY DEF NullAssumption
  <1>4. RowsHaveEvents'
    BY <1>2 DEF RowsHaveEvents, HasJob, Visible
  <1>5. ClipsHaveRows'
    BY <1>2, <1>3 DEF ClipsHaveRows, HasJob
  <1>6. WorkIsScheduled'
    BY <1>2 DEF WorkIsScheduled, HasJob
  <1>7. NeverFilmsLate'
    BY <1>2, <1>3 DEF NeverFilmsLate, HasJob
  <1> QED BY <1>1, <1>4, <1>5, <1>6, <1>7

(* The first half of process_job: either the refusal is recorded, or a     *)
(* request is sent, a creation only inside the window.                     *)
LEMMA ProcessJobStep ==
    ASSUME IInv, NEW e \in Events, HasJob(e), LockFree, ProcessJob(e),
           UNCHANGED <<config, age, clips>>
    PROVE  /\ job' \in [Events -> Job \cup {NoJob}] /\ call' \in Call \cup {NoCall}
           /\ CallOK' /\ RowsHaveEvents' /\ ClipsHaveRows'
           /\ WorkIsScheduled' /\ SentInWindow' /\ NeverFilmsLate'
  <1> DEFINE n == NextAttempt(e)
  <1>1. job[e] \in Job /\ Visible(e)
    BY DEF IInv, TypeOK, HasJob, RowsHaveEvents
  <1>2. n \in 1 .. MaxAttempts
    BY <1>1 DEF NextAttempt, Lesser, Job, MediaJobsAssumption
  <1>3. Route(e, n) \in {"create", "list", "get", "blocked"}
    BY DEF Route
  <1>4. CASE Route(e, n) = "blocked"
    <2>1. job' = [job EXCEPT ![e] = Blocked(job[e], n)] /\ call' = call
      BY <1>4 DEF ProcessJob
    <2>2. Blocked(job[e], n) \in Job
      BY <1>1, <1>2, BlockedType
    <2>3. /\ Blocked(job[e], n).status = "blocked"
          /\ Blocked(job[e], n).category = job[e].category
      BY <1>1 DEF Blocked, Job
    <2>4. /\ job' \in [Events -> Job \cup {NoJob}]
          /\ RowsHaveEvents' /\ ClipsHaveRows' /\ WorkIsScheduled' /\ NeverFilmsLate'
      BY <1>1, <2>1, <2>2, <2>3, RowStep
    <2>5. call' = NoCall
      BY <2>1 DEF LockFree
    <2> QED BY <2>4, <2>5 DEF CallOK, SentInWindow
  <1>5. CASE Route(e, n) # "blocked"
    <2>1. Send(Route(e, n), e, n) /\ job' = job
      BY <1>5 DEF ProcessJob
    <2>2. /\ call' \in Call /\ call' # NoCall
          /\ call'.op = Route(e, n) /\ call'.event = e /\ call'.elapsed = 0
          /\ call'.answer.kind = "waiting"
      BY <1>2, <1>3, <1>5, <2>1, SentType
    <2>3. CallOK'
      BY <1>3, <1>5, <2>1, <2>2 DEF CallOK, HasJob
    <2>4. SentInWindow'
      <3>1. Route(e, n) = "create" /\ job[e].category = "v2" => age[e] <= MaxDelay
        <4> SUFFICES ASSUME Route(e, n) = "create", job[e].category = "v2"
                     PROVE  age[e] <= MaxDelay
          OBVIOUS
        <4>1. AutomaticRequestBlock(e) = "none"
          BY DEF Route
        <4>2. age[e] \in Int
          BY DEF IInv, TypeOK, Absent
        <4> QED BY <4>1, <4>2 DEF AutomaticRequestBlock, MediaJobsAssumption
      <3>2. MaxDelay + 0 = MaxDelay
        BY DEF MediaJobsAssumption
      <3> QED BY <2>1, <2>2, <3>1, <3>2 DEF SentInWindow
    <2> QED BY <2>1, <2>2, <2>3, <2>4
          DEF IInv, TypeOK, RowsHaveEvents, ClipsHaveRows, WorkIsScheduled, NeverFilmsLate,
              HasJob, Visible
  <1> QED BY <1>4, <1>5

-----------------------------------------------------------------------------
(* The initial state. *)
LEMMA InitInv == Init => IInv
  <1> SUFFICES ASSUME Init PROVE IInv
    OBVIOUS
  <1> USE DEF Init
  <1>1. 0 \in 0 .. AgeCap
    BY WaitCapType
  <1>2. TypeOK
    BY <1>1 DEF TypeOK
  <1>3. \A e \in Events : ~HasJob(e)
    BY DEF HasJob
  <1> QED BY <1>2, <1>3 DEF IInv, CallOK, RowsHaveEvents, ClipsHaveRows, WorkIsScheduled,
                           SentInWindow, NeverFilmsLate

(* A new event row. *)
LEMMA RecordV2EventInv == ASSUME IInv, NEW e \in Events, RecordV2Event(e) PROVE IInv'
  <1> USE DEF RecordV2Event, IInv, process
  <1>1. PICK a \in 0 .. MaxDelay : age' = [age EXCEPT ![e] = a]
    OBVIOUS
  <1>2. a \in 0 .. AgeCap /\ a # Absent
    BY WaitCapType DEF Absent, MediaJobsAssumption
  <1>3. TypeOK'
    BY <1>1, <1>2 DEF TypeOK
  <1>4. \A f \in Events : age'[f] = IF f = e THEN a ELSE age[f]
    BY <1>1 DEF TypeOK
  <1>5. RowsHaveEvents'
    BY <1>2, <1>4 DEF RowsHaveEvents, HasJob, Visible
  <1>6. CallOK' /\ ClipsHaveRows' /\ WorkIsScheduled' /\ NeverFilmsLate'
    BY DEF CallOK, ClipsHaveRows, WorkIsScheduled, NeverFilmsLate, HasJob
  <1>7. SentInWindow'
    <2> SUFFICES ASSUME call # NoCall, call.op = "create", HasJob(call.event),
                        job[call.event].category = "v2"
                 PROVE  age'[call.event] <= MaxDelay + call.elapsed
      BY DEF SentInWindow, HasJob
    <2>1. call.event \in Events /\ call.elapsed \in Nat
      BY DEF TypeOK, Call, MediaJobsAssumption
    <2>2. call.event # e
      BY <2>1 DEF RowsHaveEvents
    <2> QED BY <1>4, <2>1, <2>2 DEF SentInWindow
  <1> QED BY <1>3, <1>5, <1>6, <1>7

LEMMA RecordLoggedEventInv == ASSUME IInv, NEW e \in Events, RecordLoggedEvent(e) PROVE IInv'
  <1> USE DEF RecordLoggedEvent, process
  <1> DEFINE j == NewJob("manual", NoSource, NoSource)
  <1>0. IInv /\ ~HasJob(e)
    BY DEF IInv, RowsHaveEvents
  <1>1. j \in Job /\ j.category = "manual" /\ j.wait = 0
    BY NewJobType DEF NewJob
  <1>2. j # NoJob
    BY <1>1 DEF NullAssumption
  <1>3. /\ job' \in [Events -> Job \cup {NoJob}]
        /\ age' \in [Events -> {Absent} \cup 0 .. AgeCap]
    BY <1>0, <1>1, WaitCapType DEF IInv, TypeOK
  <1>4. TypeOK'
    BY <1>3 DEF IInv, TypeOK
  <1>5. /\ job'[e] \in {j, NoJob}
        /\ \A f \in Events : /\ f # e => job'[f] = job[f]
                             /\ age'[f] = IF f = e THEN 0 ELSE age[f]
    <2>1. CASE job' = job
      BY <1>0, <2>1 DEF IInv, TypeOK, HasJob
    <2>2. CASE job' = [job EXCEPT ![e] = j]
      BY <2>2 DEF IInv, TypeOK
    <2> QED BY <2>1, <2>2
  <1>6. RowsHaveEvents'
    BY <1>5 DEF IInv, RowsHaveEvents, HasJob, Visible, Absent
  <1>k. \A f \in Events : HasJob(f) => job'[f] = job[f] /\ f # e
    BY <1>0, <1>5 DEF HasJob
  <1>n. \A f \in Events : job'[f] # NoJob => job'[f] = j \/ (job'[f] = job[f] /\ HasJob(f))
    BY <1>5 DEF HasJob
  <1> HIDE DEF j
  <1>7. ClipsHaveRows' /\ WorkIsScheduled' /\ NeverFilmsLate'
    <2>1. ClipsHaveRows'
      BY <1>k DEF IInv, ClipsHaveRows, HasJob
    <2>2. WorkIsScheduled'
      BY <1>1, <1>n DEF IInv, WorkIsScheduled, HasJob, Never
    <2>3. NeverFilmsLate'
      BY <1>k DEF IInv, NeverFilmsLate, ClipsHaveRows
    <2> QED BY <2>1, <2>2, <2>3
  <1>8. CallOK'
    <2>1. call # NoCall => call.event \in Events
      BY DEF IInv, TypeOK, Call
    <2> QED BY <1>k, <2>1 DEF IInv, CallOK, HasJob
  <1>9. SentInWindow'
    <2> SUFFICES ASSUME call # NoCall, call.op = "create", job'[call.event] # NoJob,
                        job'[call.event].category = "v2"
                 PROVE  age'[call.event] <= MaxDelay + call.elapsed
      BY DEF SentInWindow, HasJob
    <2>1. call.event \in Events /\ call.event # e
      BY <1>1, <1>5 DEF IInv, TypeOK, Call
    <2> QED BY <1>5, <2>1 DEF IInv, SentInWindow, HasJob
  <1> QED BY <1>4, <1>6, <1>7, <1>8, <1>9 DEF IInv

-----------------------------------------------------------------------------
(* The worker. *)
LEMMA WorkerQueuesInv == ASSUME IInv, WorkerQueues PROVE IInv'
  <1> USE DEF WorkerQueues
  <1> DEFINE j == NewJob("v2", NoSource, config.source)
  <1>1. cursor' \in [mine : BOOLEAN, upTo : SUBSET V2Events, age : 0 .. AgeCap]
    <2>1. CASE config.enabled /\ ~cursor.mine
      <3>1. 0 \in 0 .. AgeCap /\ UpTo({e \in V2Events : Visible(e)}) \in SUBSET V2Events
        BY WaitCapType DEF UpTo
      <3>2. cursor' = [mine |-> TRUE, upTo |-> UpTo({e \in V2Events : Visible(e)}), age |-> 0]
        BY <2>1 DEF StartCursor
      <3> QED BY <3>1, <3>2
    <2>2. CASE ~(config.enabled /\ ~cursor.mine)
      BY <2>2 DEF QueueRecentEvents, IInv, TypeOK
    <2> QED BY <2>1, <2>2
  <1>2. j \in Job /\ j.wait = 0 /\ j # NoJob
    <2>1. config.source \in Sources
      BY DEF IInv, TypeOK
    <2>2. j \in Job
      BY <2>1, NewJobType
    <2>3. j.wait = 0
      BY DEF NewJob
    <2> QED BY <2>2, <2>3 DEF NullAssumption
  <1>3. \A e \in Events : \/ job'[e] = job[e]
                          \/ job'[e] = j /\ ~HasJob(e) /\ Visible(e)
    <2>1. \A e \in Queued : ~HasJob(e) /\ Visible(e)
      BY DEF Queued, Fresh
    <2>2. CASE config.enabled /\ cursor.mine
      <3>1. job' = [e \in Events |-> IF e \in Queued THEN j ELSE job[e]]
        BY <2>2 DEF QueueRecentEvents
      <3> QED BY <2>1, <3>1
    <2>3. CASE ~(config.enabled /\ cursor.mine)
      BY <2>3 DEF StartCursor
    <2> QED BY <2>2, <2>3
  <1>4. job' \in [Events -> Job \cup {NoJob}]
    BY <1>2 DEF QueueRecentEvents, StartCursor, IInv, TypeOK
  <1>5. stale' \subseteq V2Events
    BY DEF QueueRecentEvents, StartCursor, IInv, TypeOK
  <1>6. TypeOK'
    BY <1>1, <1>4, <1>5 DEF IInv, TypeOK
  <1>7. CallOK' /\ SentInWindow'
    BY DEF CallOK, SentInWindow, LockFree
  <1>8. RowsHaveEvents' /\ ClipsHaveRows'
    BY <1>2, <1>3 DEF IInv, RowsHaveEvents, ClipsHaveRows, HasJob, Visible
  <1>9. WorkIsScheduled'
    BY <1>2, <1>3 DEF IInv, WorkIsScheduled, HasJob, Never
  <1>10. NeverFilmsLate'
    BY <1>3 DEF IInv, ClipsHaveRows, NeverFilmsLate, HasJob
  <1> QED BY <1>6, <1>7, <1>8, <1>9, <1>10 DEF IInv

(* Steps that leave rows, events, requests and the service alone. *)
LEMMA QuietInv ==
    ASSUME IInv, TypeOK', UNCHANGED <<config, age, job, call, clips>> PROVE IInv'
  BY DEF IInv, CallOK, RowsHaveEvents, ClipsHaveRows, WorkIsScheduled, SentInWindow,
         NeverFilmsLate, HasJob, Visible

LEMMA WorkerSelectsInv == ASSUME IInv, WorkerSelects PROVE IInv'
  BY QuietInv DEF WorkerSelects, IInv, TypeOK

LEMMA WorkerRestsInv == ASSUME IInv, WorkerRests PROVE IInv'
  BY QuietInv DEF WorkerRests, IInv, TypeOK

LEMMA WorkerTakesInv == ASSUME IInv, NEW e \in Events, WorkerTakes(e) PROVE IInv'
  <1> USE DEF WorkerTakes
  <1>1. CASE Due(e)
    <2>1. /\ job' \in [Events -> Job \cup {NoJob}] /\ call' \in Call \cup {NoCall}
          /\ CallOK' /\ RowsHaveEvents' /\ ClipsHaveRows'
          /\ WorkIsScheduled' /\ SentInWindow' /\ NeverFilmsLate'
      BY <1>1, ProcessJobStep DEF Due
    <2>2. TypeOK'
      BY <2>1 DEF IInv, TypeOK
    <2> QED BY <2>1, <2>2 DEF IInv
  <1>2. CASE ~Due(e)
    BY <1>2, QuietInv DEF IInv, TypeOK
  <1> QED BY <1>1, <1>2

-----------------------------------------------------------------------------
(* The administrator's requests. *)
LEMMA RequestNewClipInv ==
    ASSUME IInv, NEW e \in Events, NEW eventTime \in BOOLEAN, RequestNewClip(e, eventTime)
    PROVE  IInv'
  <1> USE DEF RequestNewClip, process
  <1> DEFINE s == IF eventTime THEN config.source ELSE NoSource
             j == NewJob("manual", s, NoSource)
  <1>1. s \in Sources \cup {NoSource}
    BY DEF IInv, TypeOK
  <1>2. j \in Job /\ j.category = "manual" /\ j.wait = 0
    BY <1>1, NewJobType DEF NewJob
  <1>3. /\ job' = [job EXCEPT ![e] = j] /\ Send("create", e, 1)
        /\ ~HasJob(e) /\ Visible(e) /\ UNCHANGED <<age, clips>> /\ j.wait # Never
    BY <1>2 DEF Never
  <1> HIDE DEF j
  <1>4. /\ job' \in [Events -> Job \cup {NoJob}]
        /\ RowsHaveEvents' /\ ClipsHaveRows' /\ WorkIsScheduled' /\ NeverFilmsLate'
    BY <1>2, <1>3, RowStep
  <1>5. 1 \in 1 .. MaxAttempts
    BY DEF MediaJobsAssumption
  <1>6. /\ call' \in Call /\ call'.op = "create" /\ call'.event = e
        /\ call'.answer.kind = "waiting"
    BY <1>3, <1>5, SentType
  <1>7. job'[e] = j /\ j # NoJob
    BY <1>2, <1>3 DEF IInv, TypeOK, NullAssumption
  <1>8. CallOK' /\ SentInWindow'
    BY <1>2, <1>6, <1>7 DEF CallOK, SentInWindow, HasJob
  <1>9. TypeOK'
    BY <1>4, <1>6 DEF IInv, TypeOK
  <1> QED BY <1>4, <1>8, <1>9 DEF IInv

LEMMA RequestKnownClipInv ==
    ASSUME IInv, NEW e \in Events, NEW eventTime \in BOOLEAN, RequestKnownClip(e, eventTime)
    PROVE  IInv'
  <1> USE DEF RequestKnownClip, process
  <1>1. /\ job' \in [Events -> Job \cup {NoJob}] /\ call' \in Call \cup {NoCall}
        /\ CallOK' /\ RowsHaveEvents' /\ ClipsHaveRows'
        /\ WorkIsScheduled' /\ SentInWindow' /\ NeverFilmsLate'
    BY ProcessJobStep
  <1>2. TypeOK'
    BY <1>1 DEF IInv, TypeOK
  <1> QED BY <1>1, <1>2 DEF IInv

LEMMA ReadOrDeleteInv ==
    ASSUME IInv, NEW e \in Events, ReadClip(e) \/ DeleteClip(e) PROVE IInv'
  <1> USE DEF ReadClip, DeleteClip, process
  <1>1. PICK op \in {"read", "delete"} : Send(op, e, 1)
    OBVIOUS
  <1>2. 1 \in 1 .. MaxAttempts
    BY DEF MediaJobsAssumption
  <1>3. /\ call' \in Call /\ call'.op = op /\ call'.event = e
        /\ call'.answer.kind = "waiting"
    BY <1>1, <1>2, SentType
  <1>4. TypeOK'
    BY <1>3 DEF IInv, TypeOK
  <1>5. CallOK' /\ SentInWindow'
    BY <1>3 DEF CallOK, SentInWindow, Jobs
  <1> QED BY <1>4, <1>5 DEF IInv, RowsHaveEvents, ClipsHaveRows, WorkIsScheduled,
                           NeverFilmsLate, HasJob, Visible

-----------------------------------------------------------------------------
(* The media service. *)

(* An answer fills in the open request and changes nothing else of it. *)
LEMMA ReplyType ==
    ASSUME TypeOK, call # NoCall, NEW a \in Answer, Reply(a)
    PROVE  /\ call' \in Call /\ call' # NoCall /\ call'.answer = a
           /\ call'.op = call.op /\ call'.event = call.event /\ call'.elapsed = call.elapsed
  <1>1. call \in Call
    BY DEF TypeOK
  <1>2. call' \in Call
    BY <1>1 DEF Reply, Call
  <1> QED BY <1>1, <1>2 DEF Reply, Call, NullAssumption

(* The invariant after an answer that leaves the clips alone or changes    *)
(* only the one asked for, to a clip that is not late.                     *)
LEMMA AnswerStep ==
    ASSUME IInv, Waiting, NEW a \in Answer, Reply(a),
           UNCHANGED <<config, age, job, cursor, phase, batch, stale>>,
           a.kind = "clip" => a.id = <<config.source, call.event>>,
           clips' \in [Sources -> [Events -> Clip \cup {NoClip}]],
           \A s \in Sources, e \in Events :
              \/ clips'[s][e] = clips[s][e]
              \/ /\ clips'[s][e] # NoClip /\ HasJob(e)
                 /\ job[e].category = "v2" => ~clips'[s][e].late,
           \A s \in Sources, e \in Events : clips[s][e] # NoClip => clips'[s][e] # NoClip
    PROVE  IInv'
  <1>1. /\ call' \in Call /\ call' # NoCall /\ call'.answer = a
        /\ call'.op = call.op /\ call'.event = call.event /\ call'.elapsed = call.elapsed
    BY ReplyType DEF IInv, Waiting
  <1>2. TypeOK'
    BY <1>1 DEF IInv, TypeOK
  <1>3. call.event \in Events /\ config.source \in Sources
    BY DEF IInv, TypeOK, Waiting, Call
  <1>4. CallOK'
    BY <1>1, <1>3 DEF IInv, CallOK, Waiting, HasJob
  <1>5. ClipsHaveRows' /\ NeverFilmsLate'
    BY DEF IInv, ClipsHaveRows, NeverFilmsLate, HasJob
  <1>6. RowsHaveEvents' /\ WorkIsScheduled' /\ SentInWindow'
    BY <1>1 DEF IInv, RowsHaveEvents, WorkIsScheduled, SentInWindow, Waiting, HasJob, Visible
  <1> QED BY <1>2, <1>4, <1>5, <1>6 DEF IInv

(* A snapshot of a clip is an answer about it. *)
LEMMA SnapshotType ==
    ASSUME NEW s \in Sources, NEW e \in Events, NEW c \in Clip
    PROVE  /\ Snapshot(s, e, c) \in Answer /\ Snapshot(s, e, c).kind = "clip"
           /\ Snapshot(s, e, c).id = <<s, e>>
  BY DEF Snapshot, Answer, Clip, ClipIds

LEMMA MediaAnswersInv == ASSUME IInv, MediaAnswers PROVE IInv'
  <1> USE DEF process
  <1> DEFINE s == config.source
             e == call.event
             c == clips[s][e]
             new == [status |-> "collecting", eventTime |-> EventTimeRequested(e),
                     late |-> age[e] > MaxDelay + HttpTimeout]
  <1>0. /\ Waiting /\ call \in Call /\ s \in Sources /\ e \in Events
        /\ c \in Clip \cup {NoClip}
        /\ clips \in [Sources -> [Events -> Clip \cup {NoClip}]]
        /\ UNCHANGED <<config, age, job, cursor, phase, batch, stale>>
    BY DEF MediaAnswers, Waiting, IInv, TypeOK, Call
  <1>1. [kind |-> "empty"] \in Answer /\ [kind |-> "refused"] \in Answer
    BY DEF Answer
  <1>2. ASSUME NEW a \in Answer, Reply(a), clips' = clips,
               a.kind = "clip" => a.id = <<s, e>>
        PROVE  IInv'
    BY <1>0, <1>2, AnswerStep
  <1>3. CASE call.op = "create"
    <2> DEFINE kept == IF c = NoClip THEN new ELSE c
    <2>1. clips' = [clips EXCEPT ![s][e] = kept] /\ Reply(Snapshot(s, e, kept))
      BY <1>3 DEF MediaAnswers
    <2>2. HasJob(e)
      BY <1>0, <1>3 DEF IInv, CallOK, Waiting, Jobs
    <2>3. new \in Clip
      BY DEF Clip, RemoteStatus, EventTimeRequested
    <2>4. kept \in Clip /\ kept # NoClip
      BY <1>0, <2>3 DEF NullAssumption
    <2>5. job[e].category = "v2" => ~kept.late
      <3> SUFFICES ASSUME job[e].category = "v2" PROVE ~kept.late
        OBVIOUS
      <3>1. CASE c = NoClip
        <4>1. age[e] <= MaxDelay + call.elapsed
          BY <1>0, <1>3, <2>2 DEF IInv, SentInWindow, Waiting
        <4>2. call.elapsed \in 0 .. HttpTimeout
          BY <1>0 DEF Call
        <4>3. age[e] \in Int
          <5>1. age[e] \in {-1} \cup 0 .. AgeCap
            BY <1>0 DEF IInv, TypeOK, Absent
          <5> QED BY <5>1, WaitCapType
        <4>4. ~(age[e] > MaxDelay + HttpTimeout)
          BY <4>1, <4>2, <4>3 DEF MediaJobsAssumption
        <4> QED BY <3>1, <4>4
      <3>2. CASE c # NoClip
        BY <1>0, <2>2, <3>2 DEF IInv, NeverFilmsLate
      <3> QED BY <3>1, <3>2
    <2> HIDE DEF kept
    <2>6. clips' \in [Sources -> [Events -> Clip \cup {NoClip}]]
      BY <1>0, <2>1, <2>4
    <2>7. \A t \in Sources, f \in Events :
             clips'[t][f] = IF t = s /\ f = e THEN kept ELSE clips[t][f]
      BY <1>0, <2>1
    <2>8. /\ Snapshot(s, e, kept) \in Answer
          /\ Snapshot(s, e, kept).id = <<s, e>>
      BY <1>0, <2>4, SnapshotType
    <2>9. \A t \in Sources, f \in Events :
             \/ clips'[t][f] = clips[t][f]
             \/ /\ clips'[t][f] # NoClip /\ HasJob(f)
                /\ job[f].category = "v2" => ~clips'[t][f].late
      BY <2>2, <2>4, <2>5, <2>7
    <2>10. \A t \in Sources, f \in Events : clips[t][f] # NoClip => clips'[t][f] # NoClip
      BY <2>4, <2>7
    <2> DEFINE a == Snapshot(s, e, kept)
    <2>11. a \in Answer /\ a.id = <<s, e>> /\ Reply(a)
      BY <2>1, <2>8
    <2> HIDE DEF a
    <2> QED BY <1>0, <2>6, <2>9, <2>10, <2>11, AnswerStep
  <1>4. CASE call.op = "list"
    <2>1. CASE c = NoClip
      BY <1>1, <1>2, <1>4, <2>1 DEF MediaAnswers
    <2>2. CASE c # NoClip
      BY <1>0, <1>2, <1>4, <2>2, SnapshotType DEF MediaAnswers
    <2> QED BY <2>1, <2>2
  <1>5. CASE call.op \in {"get", "read"}
    <2>1. CASE c = NoClip \/ (call.op = "get" /\ job[e].clip # <<s, e>>)
      BY <1>1, <1>2, <1>5, <2>1 DEF MediaAnswers
    <2>2. CASE ~(c = NoClip \/ (call.op = "get" /\ job[e].clip # <<s, e>>))
      BY <1>0, <1>2, <1>5, <2>2, SnapshotType DEF MediaAnswers
    <2> QED BY <2>1, <2>2
  <1>6. CASE call.op = "delete"
    <2> DEFINE gone == [c EXCEPT !.status = "deleted"]
    <2>1. c \in Clip
      BY <1>0, <1>6 DEF IInv, CallOK, Waiting
    <2>2. CASE c.status = "collecting"
      BY <1>1, <1>2, <1>6, <2>2 DEF MediaAnswers
    <2>3. CASE c.status # "collecting"
      <3>1. clips' = [clips EXCEPT ![s][e].status = "deleted"] /\ Reply(Snapshot(s, e, gone))
        BY <1>6, <2>3 DEF MediaAnswers
      <3>2. gone \in Clip /\ gone # NoClip /\ gone.late = c.late
        BY <2>1 DEF Clip, RemoteStatus, NullAssumption
      <3>3. \A t \in Sources, f \in Events :
               clips'[t][f] = IF t = s /\ f = e THEN gone ELSE clips[t][f]
        BY <1>0, <3>1
      <3>4. clips' \in [Sources -> [Events -> Clip \cup {NoClip}]]
        BY <1>0, <3>1, <3>2
      <3>5. HasJob(e) /\ (job[e].category = "v2" => ~c.late)
        BY <1>0, <2>1 DEF IInv, ClipsHaveRows, NeverFilmsLate, NullAssumption
      <3>6. /\ Snapshot(s, e, gone) \in Answer
            /\ Snapshot(s, e, gone).id = <<s, e>>
        BY <1>0, <3>2, SnapshotType
      <3> HIDE DEF gone
      <3>7. \A t \in Sources, f \in Events :
               \/ clips'[t][f] = clips[t][f]
               \/ /\ clips'[t][f] # NoClip /\ HasJob(f)
                  /\ job[f].category = "v2" => ~clips'[t][f].late
        BY <3>2, <3>3, <3>5
      <3>8. \A t \in Sources, f \in Events : clips[t][f] # NoClip => clips'[t][f] # NoClip
        BY <3>2, <3>3
      <3> DEFINE a == Snapshot(s, e, gone)
      <3>9. a \in Answer /\ a.id = <<s, e>> /\ Reply(a)
        BY <3>1, <3>6
      <3> HIDE DEF a
      <3> QED BY <1>0, <3>4, <3>7, <3>8, <3>9, AnswerStep
    <2> QED BY <2>2, <2>3
  <1> QED BY <1>0, <1>3, <1>4, <1>5, <1>6 DEF Call

LEMMA MediaRefusesInv == ASSUME IInv, MediaRefuses PROVE IInv'
  <1> USE DEF process
  <1>1. PICK k \in {"busy", "refused"} : Reply([kind |-> k])
    BY DEF MediaRefuses
  <1>2. [kind |-> k] \in Answer
    BY DEF Answer
  <1>3. clips \in [Sources -> [Events -> Clip \cup {NoClip}]]
    BY DEF IInv, TypeOK
  <1> QED BY <1>1, <1>2, <1>3, AnswerStep DEF MediaRefuses

LEMMA ClipChangesInv ==
    ASSUME IInv, NEW s \in Sources, NEW e \in Events, NEW from \in RemoteStatus,
           NEW to \in RemoteStatus, ClipChanges(s, e, from, to)
    PROVE  IInv'
  <1> USE DEF ClipChanges, process
  <1>1. clips[s][e] \in Clip
    BY DEF IInv, TypeOK
  <1>2. clips' \in [Sources -> [Events -> Clip \cup {NoClip}]]
    BY <1>1 DEF IInv, TypeOK, Clip
  <1>3. \A t \in Sources, f \in Events :
           /\ clips[t][f] = NoClip <=> clips'[t][f] = NoClip
           /\ clips[t][f] # NoClip => clips'[t][f].late = clips[t][f].late
    BY <1>1 DEF IInv, TypeOK, Clip, NullAssumption
  <1>4. TypeOK'
    BY <1>2 DEF IInv, TypeOK
  <1>5. call # NoCall => call.event \in Events /\ config.source \in Sources
    BY DEF IInv, TypeOK, Call
  <1>6. CallOK' /\ ClipsHaveRows' /\ NeverFilmsLate'
    BY <1>3, <1>5 DEF IInv, CallOK, ClipsHaveRows, NeverFilmsLate, HasJob
  <1>7. RowsHaveEvents' /\ WorkIsScheduled' /\ SentInWindow'
    BY DEF IInv, RowsHaveEvents, WorkIsScheduled, SentInWindow, HasJob, Visible
  <1> QED BY <1>4, <1>6, <1>7 DEF IInv

-----------------------------------------------------------------------------
(* The outcome of a request. *)

(* The request ends and one row is rewritten. *)
LEMMA EndWithRow ==
    ASSUME IInv, NEW e \in Events, HasJob(e), NEW j \in Job, j.category = job[e].category,
           j.status \in {"pending", "collecting", "refreshing"} => j.wait # Never,
           job' = [job EXCEPT ![e] = j], Ended, UNCHANGED <<age, clips>>, UNCHANGED process
    PROVE  IInv'
  <1>1. Visible(e)
    BY DEF IInv, RowsHaveEvents
  <1>2. /\ job' \in [Events -> Job \cup {NoJob}]
        /\ RowsHaveEvents' /\ ClipsHaveRows' /\ WorkIsScheduled' /\ NeverFilmsLate'
    BY <1>1, RowStep
  <1>3. TypeOK'
    BY <1>2 DEF IInv, TypeOK, Ended, process
  <1> QED BY <1>2, <1>3 DEF IInv, CallOK, SentInWindow, Ended

(* The request ends and nothing else changes. *)
LEMMA EndWithoutRow ==
    ASSUME IInv, Ended, UNCHANGED <<age, job, clips>>, UNCHANGED process PROVE IInv'
  BY DEF IInv, TypeOK, CallOK, RowsHaveEvents, ClipsHaveRows, WorkIsScheduled, SentInWindow,
         NeverFilmsLate, HasJob, Visible, Ended, process

(* A snapshot that is applied leaves the row scheduled while it is written. *)
LEMMA ApplySchedules ==
    ASSUME NEW j \in Job, NEW answer \in Answer, answer.kind = "clip", NEW receipt \in BOOLEAN
    PROVE  LET k == ApplySnapshot(j, answer, receipt)
           IN  /\ k \in Job /\ k.category = j.category /\ k.clip = answer.id
               /\ k.status \in {"pending", "collecting", "refreshing"} => k.wait # Never
  <1> DEFINE k == ApplySnapshot(j, answer, receipt)
  <1>1. k \in Job
    BY ApplyType
  <1>2. k.status = answer.status /\ k.category = j.category /\ k.clip = answer.id
    BY DEF ApplySnapshot, Job
  <1>3. answer.status \in RemoteStatus
    BY DEF Answer
  <1>4. answer.status = "collecting" => k.wait = PollInterval
    BY DEF ApplySnapshot, Job
  <1>5. PollInterval # Never
    BY DEF Never, MediaJobsAssumption
  <1> QED BY <1>1, <1>2, <1>3, <1>4, <1>5 DEF RemoteStatus

LEMMA FinishInv == ASSUME IInv, Finish PROVE IInv'
  <1> DEFINE e == call.event
             j == job[e]
             n == call.attempts
             ok == call.answer.kind = "clip"
  <1>1. /\ call \in Call /\ e \in Events /\ n \in 1 .. MaxAttempts /\ call.answer \in Answer
        /\ Ended /\ UNCHANGED <<age, clips>> /\ UNCHANGED process
    BY DEF Finish, IInv, TypeOK, Call
  <1>2. HasJob(e) => j \in Job
    BY <1>1 DEF IInv, TypeOK, HasJob
  <1>3. CASE call.op \in Jobs
    <2>1. HasJob(e)
      BY <1>1, <1>3 DEF IInv, CallOK, Finish
    <2>2. CASE ok /\ Matches(e, call.answer)
      <3> DEFINE k == ApplySnapshot(j, call.answer, call.op = "create")
                 l == [k EXCEPT !.attempts = n]
      <3>1. job' = [job EXCEPT ![e] = l]
        BY <1>3, <2>2 DEF Finish
      <3>2. /\ k \in Job /\ k.category = j.category
            /\ k.status \in {"pending", "collecting", "refreshing"} => k.wait # Never
        BY <1>1, <1>2, <2>1, <2>2, ApplySchedules
      <3> HIDE DEF k
      <3>3. n \in 0 .. MaxAttempts
        BY <1>1 DEF MediaJobsAssumption
      <3>4. l \in Job /\ l.category = k.category /\ l.status = k.status /\ l.wait = k.wait
        BY <3>2, <3>3 DEF Job
      <3> HIDE DEF l
      <3> QED BY <1>1, <2>1, <3>1, <3>2, <3>4, EndWithRow
    <2>3. CASE ~(ok /\ Matches(e, call.answer))
      <3>1. job' = [job EXCEPT ![e] = Blocked(j, n)]
        BY <1>3, <2>3 DEF Finish
      <3>2. Blocked(j, n) \in Job
        BY <1>1, <1>2, <2>1, BlockedType
      <3>3. Blocked(j, n).status = "blocked" /\ Blocked(j, n).category = j.category
        BY <1>2, <2>1 DEF Blocked, Job
      <3> QED BY <1>1, <2>1, <3>1, <3>2, <3>3, EndWithRow
    <2> QED BY <2>2, <2>3
  <1>4. CASE call.op \notin Jobs
    <2>1. CASE ok /\ HasJob(e) /\ j.clip = call.answer.id /\ call.op = "delete"
      <3>1. job' = [job EXCEPT ![e] = Refreshing(j)]
        BY <1>4, <2>1 DEF Finish
      <3>2. Refreshing(j) \in Job
        BY <1>2, <2>1, RefreshingType
      <3>3. Refreshing(j).wait # Never /\ Refreshing(j).category = j.category
        BY <1>2, <2>1 DEF Refreshing, Job, Never
      <3> QED BY <1>1, <2>1, <3>1, <3>2, <3>3, EndWithRow
    <2>2. CASE /\ ok /\ HasJob(e) /\ j.clip = call.answer.id /\ call.op # "delete"
               /\ Matches(e, call.answer)
      <3> DEFINE k == ApplySnapshot(j, call.answer, FALSE)
      <3>1. job' = [job EXCEPT ![e] = k]
        BY <1>4, <2>2 DEF Finish
      <3>2. /\ k \in Job /\ k.category = j.category
            /\ k.status \in {"pending", "collecting", "refreshing"} => k.wait # Never
        BY <1>1, <1>2, <2>2, ApplySchedules
      <3> HIDE DEF k
      <3> QED BY <1>1, <2>2, <3>1, <3>2, EndWithRow
    <2>3. CASE \/ ~(ok /\ HasJob(e) /\ j.clip = call.answer.id)
               \/ call.op # "delete" /\ ~Matches(e, call.answer)
      <3>1. job' = job
        BY <1>4, <2>3 DEF Finish
      <3> QED BY <1>1, <3>1, EndWithoutRow
    <2> QED BY <2>1, <2>2, <2>3
  <1> QED BY <1>3, <1>4

LEMMA FailInv == ASSUME IInv, Fail PROVE IInv'
  <1> DEFINE e == call.event
             n == call.attempts
  <1>1. /\ call \in Call /\ e \in Events /\ n \in 1 .. MaxAttempts
        /\ Ended /\ UNCHANGED <<age, clips>> /\ UNCHANGED process
    BY DEF Fail, IInv, TypeOK, Call
  <1>2. CASE call.op \in Jobs
    <2> DEFINE k == Deferred(job[e], n)
    <2>1. HasJob(e) /\ job[e] \in Job
      BY <1>1, <1>2 DEF Fail, IInv, CallOK, TypeOK, HasJob
    <2>2. job' = [job EXCEPT ![e] = k]
      BY <1>2 DEF Fail
    <2>3. k \in Job
      BY <1>1, <2>1, DeferredType
    <2>4. k.wait = Backoff(n) /\ k.category = job[e].category
      BY <2>1 DEF Deferred, Job
    <2>5. k.wait # Never
      BY <1>1, <2>4, BackoffType DEF Never, MediaJobsAssumption
    <2> HIDE DEF k
    <2> QED BY <1>1, <2>1, <2>2, <2>3, <2>4, <2>5, EndWithRow
  <1>3. CASE call.op \notin Jobs
    BY <1>1, <1>3, EndWithoutRow DEF Fail
  <1> QED BY <1>2, <1>3

-----------------------------------------------------------------------------
(* A restart keeps the tables and drops the open request. *)
LEMMA RestartInv == ASSUME IInv, Restart PROVE IInv'
  <1> USE DEF Restart
  <1>1. 0 \in 0 .. AgeCap
    BY WaitCapType
  <1>2. config' \in [source : Sources, enabled : BOOLEAN]
    OBVIOUS
  <1>3. cursor' \in [mine : BOOLEAN, upTo : SUBSET V2Events, age : 0 .. AgeCap]
    BY <1>1 DEF IInv, TypeOK
  <1>4. stale' \subseteq V2Events
    OBVIOUS
  <1>5. TypeOK'
    BY <1>2, <1>3, <1>4 DEF IInv, TypeOK
  <1> QED BY <1>5 DEF IInv, CallOK, RowsHaveEvents, ClipsHaveRows, WorkIsScheduled,
                     SentInWindow, NeverFilmsLate, HasJob, Visible

(* A second passes: everything ages together, also the open request. *)
LEMMA TickInv == ASSUME IInv, Tick PROVE IInv'
  <1> USE DEF Tick
  <1>1. \A a \in 0 .. AgeCap :
           Lesser(AgeCap, a + 1) \in 0 .. AgeCap /\ Lesser(AgeCap, a + 1) <= a + 1
    BY WaitCapType DEF Lesser
  <1>2. age' \in [Events -> {Absent} \cup 0 .. AgeCap]
    BY <1>1 DEF IInv, TypeOK, Visible
  <1>3. \A e \in Events : Visible(e) <=> Visible(e)'
    BY <1>1 DEF IInv, TypeOK, Visible, Absent
  <1>4. \A e \in Events : HasJob(e) =>
           /\ job'[e] \in Job /\ job'[e].category = job[e].category
           /\ job'[e].status = job[e].status
           /\ job'[e].wait = Never => job[e].wait = Never
    <2> TAKE e \in Events
    <2> HAVE HasJob(e)
    <2>1. job[e] \in Job
      BY DEF IInv, TypeOK, HasJob
    <2>2. CASE job[e].wait > 0
      <3>0. job[e].wait \in {Never} \cup 0 .. WaitCap
        BY <2>1 DEF Job
      <3>1. job[e].wait - 1 \in 0 .. WaitCap
        BY <2>2, <3>0, WaitCountsDown
      <3> DEFINE k == [job[e] EXCEPT !.wait = @ - 1]
      <3>2. job'[e] = k
        BY <2>2 DEF HasJob
      <3>3. /\ k \in Job /\ k.category = job[e].category /\ k.status = job[e].status
            /\ k.wait = job[e].wait - 1
        BY <2>1, <3>1 DEF Job
      <3>4. k.wait # Never
        BY <3>1, <3>3, WaitCapType DEF Never
      <3> HIDE DEF k
      <3> QED BY <3>2, <3>3, <3>4
    <2>3. CASE ~(job[e].wait > 0)
      <3>1. job'[e] = job[e]
        BY <2>3
      <3> QED BY <2>1, <3>1
    <2> QED BY <2>2, <2>3
  <1>5. \A e \in Events : ~HasJob(e) => job'[e] = NoJob
    BY DEF HasJob
  <1>6. job' \in [Events -> Job \cup {NoJob}]
    BY <1>4, <1>5
  <1>7. \A e \in Events : HasJob(e) <=> HasJob(e)'
    BY <1>4, <1>5 DEF HasJob, NullAssumption
  <1>8. cursor' \in [mine : BOOLEAN, upTo : SUBSET V2Events, age : 0 .. AgeCap]
    <2>1. (IF cursor.mine THEN Lesser(AgeCap, cursor.age + 1) ELSE 0) \in 0 .. AgeCap
      BY <1>1, WaitCapType DEF IInv, TypeOK
    <2> QED BY <2>1 DEF IInv, TypeOK
  <1>9. call # NoCall => /\ call' \in Call /\ call' # NoCall
                         /\ call'.op = call.op /\ call'.event = call.event
                         /\ call'.answer = call.answer /\ call'.elapsed = call.elapsed + 1
                         /\ call.event \in Events /\ call.elapsed \in Nat
    <2> SUFFICES ASSUME call # NoCall
                 PROVE  /\ call' \in Call /\ call' # NoCall
                        /\ call'.op = call.op /\ call'.event = call.event
                        /\ call'.answer = call.answer /\ call'.elapsed = call.elapsed + 1
                        /\ call.event \in Events /\ call.elapsed \in Nat
      OBVIOUS
    <2>1. call \in Call
      BY DEF IInv, TypeOK
    <2>2. call.elapsed + 1 \in 0 .. HttpTimeout
      BY <2>1 DEF Call, MediaJobsAssumption
    <2>3. call' = [call EXCEPT !.elapsed = @ + 1]
      OBVIOUS
    <2>4. call' \in Call
      BY <2>1, <2>2, <2>3 DEF Call
    <2>5. call' # NoCall
      BY <2>4 DEF NullAssumption
    <2>6. call.event \in Events /\ call.elapsed \in Nat
      BY <2>1 DEF Call, MediaJobsAssumption
    <2>7. /\ call'.op = call.op /\ call'.event = call.event
          /\ call'.answer = call.answer /\ call'.elapsed = call.elapsed + 1
      BY <2>1, <2>3 DEF Call
    <2> QED BY <2>4, <2>5, <2>6, <2>7
  <1>10. TypeOK'
    BY <1>2, <1>6, <1>8, <1>9 DEF IInv, TypeOK
  <1>11. CallOK'
    BY <1>7, <1>9 DEF IInv, CallOK
  <1>12. RowsHaveEvents' /\ ClipsHaveRows'
    BY <1>3, <1>7 DEF IInv, RowsHaveEvents, ClipsHaveRows
  <1>13. WorkIsScheduled'
    BY <1>4, <1>7 DEF IInv, WorkIsScheduled
  <1>14. NeverFilmsLate'
    BY <1>4, <1>7 DEF IInv, NeverFilmsLate
  <1>15. SentInWindow'
    <2> SUFFICES ASSUME call' # NoCall, call'.op = "create", job'[call'.event] # NoJob,
                        job'[call'.event].category = "v2"
                 PROVE  age'[call'.event] <= MaxDelay + call'.elapsed
      BY DEF SentInWindow, HasJob
    <2> DEFINE e == call.event
    <2>1. call # NoCall /\ call.op = "create" /\ e \in Events /\ call.elapsed \in Nat
          /\ call'.elapsed = call.elapsed + 1 /\ call'.event = e
      BY <1>9
    <2> HIDE DEF e
    <2>2. HasJob(e) /\ job[e].category = "v2"
      BY <1>4, <1>5, <2>1
    <2>3. age[e] <= MaxDelay + call.elapsed
      BY <2>1, <2>2 DEF IInv, SentInWindow
    <2>4. age[e] \in 0 .. AgeCap
      BY <2>1, <2>2 DEF IInv, RowsHaveEvents, TypeOK, Visible
    <2>5. age'[e] = age[e] \/ age'[e] = Lesser(AgeCap, age[e] + 1)
      BY <2>1
    <2>6. age'[e] <= age[e] + 1 /\ age'[e] \in Int /\ age[e] \in Int
      BY <1>1, <2>4, <2>5, WaitCapType
    <2>7. call.elapsed \in Int /\ MaxDelay \in Int
      BY <2>1 DEF MediaJobsAssumption
    <2>8. ASSUME NEW a \in Int, NEW b \in Int, NEW n \in Int, NEW m \in Int,
                 b <= a + 1, a <= m + n
          PROVE  b <= m + (n + 1)
      BY ONLY <2>8
    <2>9. age'[e] <= MaxDelay + (call.elapsed + 1)
      BY <2>3, <2>6, <2>7, <2>8
    <2> QED BY <2>1, <2>9
  <1> QED BY <1>10, <1>11, <1>12, <1>13, <1>14, <1>15 DEF IInv

-----------------------------------------------------------------------------
(* The invariant is inductive. *)
LEMMA InductiveInv == IInv /\ [Next]_vars => IInv'
  <1> SUFFICES ASSUME IInv, [Next]_vars PROVE IInv'
    OBVIOUS
  <1>1. ASSUME NEW e \in Events, RecordV2Event(e) \/ RecordLoggedEvent(e) PROVE IInv'
    BY <1>1, RecordV2EventInv, RecordLoggedEventInv
  <1>2. CASE Worker
    BY <1>2, WorkerQueuesInv, WorkerSelectsInv, WorkerRestsInv, WorkerTakesInv DEF Worker
  <1>3. CASE Endpoints
    BY <1>3, MediaJobsAssumption, ReadOrDeleteInv, RequestNewClipInv, RequestKnownClipInv
    DEF Endpoints, MediaJobsAssumption
  <1>4. CASE Media
    <2>1. "collecting" \in RemoteStatus /\ "ready" \in RemoteStatus /\ "deleted" \in RemoteStatus
      BY DEF RemoteStatus
    <2>2. ASSUME NEW s \in Sources, NEW e \in Events, MediaFinishes(s, e) \/ MediaExpires(s, e)
          PROVE  IInv'
      BY <2>1, <2>2, ClipChangesInv DEF MediaFinishes, MediaExpires
    <2> QED BY <1>4, <2>2, MediaAnswersInv, MediaRefusesInv DEF Media
  <1>5. CASE Finish \/ Fail \/ Restart \/ Tick
    BY <1>5, FinishInv, FailInv, RestartInv, TickInv
  <1>6. CASE UNCHANGED vars
    BY <1>6 DEF vars, IInv, TypeOK, CallOK, RowsHaveEvents, ClipsHaveRows, WorkIsScheduled,
                SentInWindow, NeverFilmsLate, HasJob, Visible
  <1> QED BY <1>1, <1>2, <1>3, <1>4, <1>5, <1>6 DEF Next, Unattended, Events

(* A row that is bound to a clip stays bound to it. *)
Kept(e) == HasJob(e) /\ job[e].clip # NoClip
              => job'[e] # NoJob /\ job'[e].clip = job[e].clip

(* Rewriting one row for another that agrees on the clip keeps every binding. *)
LEMMA RowKept ==
    ASSUME TypeOK, NEW e \in Events, HasJob(e), NEW j \in Job, job' = [job EXCEPT ![e] = j],
           job[e].clip # NoClip => j.clip = job[e].clip
    PROVE  \A f \in Events : Kept(f)
  BY DEF TypeOK, Kept, HasJob, NullAssumption

LEMMA ProcessJobKept ==
    ASSUME TypeOK, NEW e \in Events, HasJob(e), ProcessJob(e) PROVE \A f \in Events : Kept(f)
  <1> DEFINE n == NextAttempt(e)
  <1>1. job[e] \in Job
    BY DEF TypeOK, HasJob
  <1>2. n \in 1 .. MaxAttempts
    BY <1>1 DEF NextAttempt, Lesser, Job, MediaJobsAssumption
  <1>3. Blocked(job[e], n) \in Job /\ Blocked(job[e], n).clip = job[e].clip
    BY <1>1, <1>2, BlockedType DEF Blocked, Job
  <1>4. job' = job \/ job' = [job EXCEPT ![e] = Blocked(job[e], n)]
    BY DEF ProcessJob
  <1> QED BY <1>3, <1>4, RowKept DEF Kept, HasJob

LEMMA FinishKept == ASSUME IInv, Finish PROVE \A f \in Events : Kept(f)
  <1> DEFINE e == call.event
             j == job[e]
             n == call.attempts
             ok == call.answer.kind = "clip"
  <1>1. /\ call \in Call /\ e \in Events /\ n \in 1 .. MaxAttempts /\ call.answer \in Answer
    BY DEF Finish, IInv, TypeOK, Call
  <1>2. HasJob(e) => j \in Job
    BY <1>1 DEF IInv, TypeOK, HasJob
  <1>3. call.op \in Jobs => HasJob(e)
    BY DEF IInv, CallOK, Finish
  <1>4. CASE job' = job
    BY <1>4 DEF Kept, HasJob
  <1>5. CASE call.op \in Jobs /\ ok /\ Matches(e, call.answer)
    <2> DEFINE k == ApplySnapshot(j, call.answer, call.op = "create")
               l == [k EXCEPT !.attempts = n]
    <2>1. job' = [job EXCEPT ![e] = l]
      BY <1>5 DEF Finish
    <2>2. k \in Job /\ k.clip = call.answer.id
      BY <1>1, <1>2, <1>3, <1>5, ApplySchedules
    <2> HIDE DEF k
    <2>3. n \in 0 .. MaxAttempts
      BY <1>1 DEF MediaJobsAssumption
    <2>4. l \in Job /\ l.clip = k.clip
      BY <2>2, <2>3 DEF Job
    <2> HIDE DEF l
    <2>5. job[e].clip # NoClip => l.clip = job[e].clip
      BY <1>5, <2>2, <2>4 DEF Matches
    <2> QED BY <1>1, <1>3, <1>5, <2>1, <2>4, <2>5, RowKept DEF IInv
  <1>6. CASE call.op \in Jobs /\ ~(ok /\ Matches(e, call.answer))
    <2>1. job' = [job EXCEPT ![e] = Blocked(j, n)]
      BY <1>6 DEF Finish
    <2>2. Blocked(j, n) \in Job /\ Blocked(j, n).clip = j.clip
      BY <1>1, <1>2, <1>3, <1>6, BlockedType DEF Blocked, Job
    <2> QED BY <1>1, <1>3, <1>6, <2>1, <2>2, RowKept DEF IInv
  <1>7. CASE /\ call.op \notin Jobs /\ call.op = "delete"
             /\ ok /\ HasJob(e) /\ j.clip = call.answer.id
    <2>1. job' = [job EXCEPT ![e] = Refreshing(j)]
      BY <1>7 DEF Finish
    <2>2. Refreshing(j) \in Job /\ Refreshing(j).clip = j.clip
      BY <1>2, <1>7, RefreshingType DEF Refreshing, Job
    <2> QED BY <1>1, <1>7, <2>1, <2>2, RowKept DEF IInv
  <1>8. CASE /\ call.op \notin Jobs /\ call.op # "delete"
             /\ ok /\ HasJob(e) /\ j.clip = call.answer.id /\ Matches(e, call.answer)
    <2> DEFINE k == ApplySnapshot(j, call.answer, FALSE)
    <2>1. job' = [job EXCEPT ![e] = k]
      BY <1>8 DEF Finish
    <2>2. k \in Job /\ k.clip = call.answer.id
      BY <1>1, <1>2, <1>8, ApplySchedules
    <2> HIDE DEF k
    <2> QED BY <1>1, <1>8, <2>1, <2>2, RowKept DEF IInv
  <1> QED BY <1>4, <1>5, <1>6, <1>7, <1>8 DEF Finish

LEMMA FailKept == ASSUME IInv, Fail PROVE \A f \in Events : Kept(f)
  <1> DEFINE e == call.event
             k == Deferred(job[e], call.attempts)
  <1>1. call \in Call /\ e \in Events /\ call.attempts \in 1 .. MaxAttempts
    BY DEF Fail, IInv, TypeOK, Call
  <1>2. CASE call.op \in Jobs
    <2>1. HasJob(e) /\ job[e] \in Job /\ job' = [job EXCEPT ![e] = k]
      BY <1>1, <1>2 DEF Fail, IInv, CallOK, TypeOK, HasJob
    <2>2. k \in Job /\ k.clip = job[e].clip
      BY <1>1, <2>1, DeferredType DEF Deferred, Job
    <2> HIDE DEF k
    <2> QED BY <1>1, <2>1, <2>2, RowKept DEF IInv
  <1>3. CASE call.op \notin Jobs
    BY <1>3 DEF Fail, Kept, HasJob
  <1> QED BY <1>2, <1>3

LEMMA TickKept == ASSUME IInv, Tick PROVE \A f \in Events : Kept(f)
  <1> TAKE f \in Events
  <1> SUFFICES ASSUME HasJob(f) PROVE job'[f] # NoJob /\ job'[f].clip = job[f].clip
    BY DEF Kept
  <1>1. job[f] \in Job
    BY DEF IInv, TypeOK, HasJob
  <1>2. CASE job[f].wait > 0
    <2> DEFINE k == [job[f] EXCEPT !.wait = @ - 1]
    <2>1. job'[f] = k
      BY <1>2 DEF Tick
    <2>0. job[f].wait \in {Never} \cup 0 .. WaitCap
      BY <1>1 DEF Job
    <2>2. job[f].wait - 1 \in 0 .. WaitCap
      BY <1>2, <2>0, WaitCountsDown
    <2>3. k \in Job /\ k.clip = job[f].clip
      BY <1>1, <2>2 DEF Job
    <2> HIDE DEF k
    <2> QED BY <2>1, <2>3 DEF NullAssumption
  <1>3. CASE ~(job[f].wait > 0)
    BY <1>3 DEF Tick, HasJob
  <1> QED BY <1>2, <1>3

LEMMA NextKept == IInv /\ Next => \A f \in Events : Kept(f)
  <1> SUFFICES ASSUME IInv, Next PROVE \A f \in Events : Kept(f)
    OBVIOUS
  <1> USE DEF IInv
  <1>1. ASSUME UNCHANGED job PROVE \A f \in Events : Kept(f)
    BY <1>1 DEF Kept, HasJob
  <1>2. ASSUME NEW e \in Events, RecordV2Event(e) \/ RecordLoggedEvent(e)
        PROVE  \A f \in Events : Kept(f)
    BY <1>2 DEF RecordV2Event, RecordLoggedEvent, Kept, HasJob, RowsHaveEvents, TypeOK
  <1>3. CASE Worker
    <2>1. CASE WorkerQueues
      BY <2>1 DEF WorkerQueues, QueueRecentEvents, StartCursor, Queued, Fresh, Kept, HasJob
    <2>2. CASE WorkerSelects \/ WorkerRests
      BY <1>1, <2>2 DEF WorkerSelects, WorkerRests
    <2>3. ASSUME NEW e \in Events, WorkerTakes(e) PROVE \A f \in Events : Kept(f)
      BY <1>1, <2>3, ProcessJobKept DEF WorkerTakes, Due
    <2> QED BY <1>3, <2>1, <2>2, <2>3 DEF Worker
  <1>4. CASE Endpoints
    <2>1. ASSUME NEW e \in Events, ReadClip(e) \/ DeleteClip(e) PROVE \A f \in Events : Kept(f)
      BY <1>1, <2>1 DEF ReadClip, DeleteClip
    <2>2. ASSUME NEW e \in Events, NEW eventTime \in BOOLEAN, RequestNewClip(e, eventTime)
          PROVE  \A f \in Events : Kept(f)
      BY <2>2 DEF RequestNewClip, Kept, HasJob, TypeOK
    <2>3. ASSUME NEW e \in Events, NEW eventTime \in BOOLEAN, RequestKnownClip(e, eventTime)
          PROVE  \A f \in Events : Kept(f)
      BY <2>3, ProcessJobKept DEF RequestKnownClip
    <2> QED BY <1>4, <2>1, <2>2, <2>3 DEF Endpoints
  <1>5. CASE Media
    BY <1>1, <1>5 DEF Media, MediaAnswers, MediaRefuses, MediaFinishes, MediaExpires, ClipChanges
  <1>6. CASE Restart
    BY <1>1, <1>6 DEF Restart
  <1> QED BY <1>2, <1>3, <1>4, <1>5, <1>6, FinishKept, FailKept, TickKept DEF Next, Unattended, Events

-----------------------------------------------------------------------------
(* The invariant holds in every reachable state. *)
THEOREM Invariant == Spec => []IInv
  BY InitInv, InductiveInv, PTL DEF Spec

(* Rows, cursor, requests and clips always have the shape of their tables  *)
(* and messages, for every configuration of the worker.                    *)
THEOREM TypeCorrect == Spec => []TypeOK
  <1>1. IInv => TypeOK
    BY DEF IInv
  <1> QED BY <1>1, Invariant, PTL

(* No failure, race or crash leaves an unfinished job of process_job       *)
(* without a next attempt.                                                 *)
THEOREM WorkScheduled == Spec => []WorkIsScheduled
  <1>1. IInv => WorkIsScheduled
    BY DEF IInv
  <1> QED BY <1>1, Invariant, PTL

(* The window check of automatic_request_block and the request timeout     *)
(* bound when the service can start filming, through retries and restarts. *)
THEOREM FilmsInTime == Spec => []NeverFilmsLate
  <1>1. IInv => NeverFilmsLate
    BY DEF IInv
  <1> QED BY <1>1, Invariant, PTL

(* apply_snapshot's identity checks: a job keeps the clip it is bound to.  *)
THEOREM ClipIdentity == Spec => ClipIdentityKept
  <1>1. IInv /\ [Next]_vars
           => [\A e \in Events : HasJob(e) /\ job[e].clip # NoClip
                            => job'[e] # NoJob /\ job'[e].clip = job[e].clip]_vars
    BY NextKept DEF Kept
  <1> QED BY <1>1, Invariant, PTL DEF Spec, ClipIdentityKept

-----------------------------------------------------------------------------
(* Where automatic rows come from.                                         *)

(* While this process owns the cursor, the ids up to it are those of the   *)
(* events from before its present.                                         *)
FromPresent == cursor.mine => cursor.upTo = stale

LEMMA FromPresentInv == TypeOK /\ FromPresent /\ [Next]_vars => FromPresent'
  <1> SUFFICES ASSUME TypeOK, FromPresent, [Next]_vars PROVE FromPresent'
    OBVIOUS
  <1>1. CASE UNCHANGED <<cursor, stale>>
    BY <1>1 DEF FromPresent
  <1>2. CASE WorkerQueues
    <2>1. CASE config.enabled /\ ~cursor.mine
      <3> DEFINE present == {e \in V2Events : \E f \in V2Events : Visible(f) /\ e <= f}
      <3>1. UpTo({e \in V2Events : Visible(e)}) = present
        BY DEF UpTo
      <3> HIDE DEF present
      <3>2. cursor' = [mine |-> TRUE, upTo |-> present, age |-> 0] /\ stale' = present
        BY <1>2, <2>1, <3>1 DEF WorkerQueues, StartCursor, present
      <3> QED BY <3>2 DEF FromPresent
    <2>2. CASE ~(config.enabled /\ ~cursor.mine)
      BY <1>1, <1>2, <2>2 DEF WorkerQueues, QueueRecentEvents
    <2> QED BY <2>1, <2>2
  <1>3. CASE Restart
    BY <1>3 DEF Restart, TypeOK, FromPresent
  <1>4. CASE Tick
    BY <1>4 DEF Tick, TypeOK, FromPresent
  <1>5. CASE Next /\ ~WorkerQueues /\ ~Restart /\ ~Tick
    <2>1. UNCHANGED <<cursor, stale>>
      BY <1>5 DEF Next, Unattended, Endpoints, Worker, Media, RecordV2Event, RecordLoggedEvent,
              WorkerSelects, WorkerTakes, WorkerRests, RequestNewClip, RequestKnownClip,
              ReadClip, DeleteClip, MediaAnswers, MediaRefuses, MediaFinishes, MediaExpires,
              ClipChanges, Finish, Fail, process
    <2> QED BY <1>1, <2>1
  <1> QED BY <1>1, <1>2, <1>3, <1>4, <1>5 DEF vars

(* A handler that rewrites the row of a job creates none. *)
Creates(f) == ~HasJob(f) /\ job'[f] # NoJob

LEMMA ProcessJobCreates ==
    ASSUME TypeOK, NEW e \in Events, HasJob(e), ProcessJob(e), NEW f \in Events
    PROVE  ~Creates(f)
  BY DEF ProcessJob, Creates, HasJob, TypeOK

LEMMA OutcomeCreates ==
    ASSUME IInv, Finish \/ Fail, NEW f \in Events PROVE ~Creates(f)
  <1> DEFINE e == call.event
  <1>1. e \in Events /\ (call.op \in Jobs => HasJob(e))
    BY DEF Finish, Fail, IInv, TypeOK, Call, CallOK
  <1>2. f # e => job'[f] = job[f]
    BY <1>1 DEF Finish, Fail, IInv, TypeOK
  <1>3. HasJob(e) \/ job' = job
    BY <1>1 DEF Finish, Fail
  <1> QED BY <1>2, <1>3 DEF Creates, HasJob

(* A row comes into being at an administrator's request, with its log row, *)
(* or in a sweep of the worker.                                            *)
LEMMA RowsComeFrom ==
    ASSUME IInv, Next, NEW f \in Events, Creates(f)
    PROVE  \/ job'[f].category = "manual"
           \/ WorkerQueues /\ config.enabled /\ cursor.mine /\ f \in Queued
  <1> USE DEF Creates
  <1>1. CASE UNCHANGED job
    BY <1>1 DEF HasJob
  <1>2. ASSUME NEW e \in Events, RecordV2Event(e) \/ RecordLoggedEvent(e)
        PROVE  job'[f].category = "manual"
    BY <1>2 DEF RecordV2Event, RecordLoggedEvent, NewJob, HasJob, IInv, TypeOK
  <1>3. CASE WorkerQueues
    BY <1>3 DEF WorkerQueues, QueueRecentEvents, StartCursor, HasJob
  <1>4. ASSUME NEW e \in Events, WorkerTakes(e) PROVE FALSE
    BY <1>1, <1>4, ProcessJobCreates DEF WorkerTakes, Due, IInv, HasJob
  <1>5. ASSUME NEW e \in Events, NEW eventTime \in BOOLEAN, RequestKnownClip(e, eventTime)
        PROVE  FALSE
    BY <1>5, ProcessJobCreates DEF RequestKnownClip, IInv
  <1>6. ASSUME NEW e \in Events, NEW eventTime \in BOOLEAN, RequestNewClip(e, eventTime)
        PROVE  job'[f].category = "manual"
    BY <1>6 DEF RequestNewClip, NewJob, HasJob, IInv, TypeOK
  <1>7. CASE Finish \/ Fail
    BY <1>7, OutcomeCreates
  <1>8. CASE Tick
    BY <1>8 DEF Tick, HasJob
  <1>9. CASE WorkerSelects \/ WorkerRests \/ Media \/ Restart
    BY <1>1, <1>9 DEF WorkerSelects, WorkerRests, Media, MediaAnswers, MediaRefuses,
                      MediaFinishes, MediaExpires, ClipChanges, Restart
  <1>10. ASSUME NEW e \in Events, ReadClip(e) \/ DeleteClip(e) PROVE UNCHANGED job
    BY <1>10 DEF ReadClip, DeleteClip
  <1>11. CASE Worker
    BY <1>1, <1>3, <1>4, <1>9, <1>11 DEF Worker
  <1>12. CASE Endpoints
    BY <1>1, <1>5, <1>6, <1>10, <1>12 DEF Endpoints, Events
  <1> QED BY <1>2, <1>7, <1>8, <1>9, <1>11, <1>12 DEF Next, Unattended, Events

(* queue_recent_events starts from the present of its process: nothing     *)
(* that was visible when the process started is ever queued by it.         *)
THEOREM NothingBackfilled == Spec => NeverBackfills
  <1>1. Init => FromPresent
    BY DEF Init, FromPresent
  <1>2. IInv /\ FromPresent /\ [Next]_vars
           => [\A e \in stale : ~HasJob(e) /\ job'[e] # NoJob => job'[e].category # "v2"]_vars
    <2> SUFFICES ASSUME IInv, FromPresent, Next,
                        NEW e \in stale, ~HasJob(e), job'[e] # NoJob
                 PROVE  job'[e].category # "v2"
      OBVIOUS
    <2>1. e \in Events
      BY DEF IInv, TypeOK, Events
    <2>2. ~(cursor.mine /\ e \in Queued)
      BY DEF FromPresent, Queued, Fresh
    <2>3. job'[e].category = "manual"
      BY <2>1, <2>2, RowsComeFrom DEF Creates
    <2> QED BY <2>3
  <1>3. IInv => TypeOK
    BY DEF IInv
  <1> QED BY <1>1, <1>2, <1>3, FromPresentInv, Invariant, PTL DEF Spec, NeverBackfills

-----------------------------------------------------------------------------
(* An accepted clip whose answer was lost.                                 *)

Automatic(e) == HasJob(e) /\ job[e].category = "v2"
Expired(e)   == age[e] > MaxDelay

(* An automatic row asks the service of this process, for no time basis.   *)
AsksOurs(e) ==
    /\ config.enabled
    /\ job[e].eventTime = NoSource
    /\ job[e].clip \in {NoClip, <<config.source, e>>}
    /\ job[e].clip = NoClip => job[e].context = config.source
    /\ \A s \in Sources : clips[s][e] # NoClip => ~clips[s][e].eventTime

(* A clip the row does not know was asked for by an attempt that is        *)
(* counted or still open; a row is given up without a clip only when the   *)
(* event has expired and the service holds none.                           *)
KnowsOrAsks(e) ==
    job[e].clip = NoClip =>
       /\ job[e].status = "blocked" => Expired(e) /\ clips[config.source][e] = NoClip
       /\ clips[config.source][e] # NoClip => job[e].attempts > 0 \/ JobCall(e)

RowSound(e) == Automatic(e) => AsksOurs(e) /\ KnowsOrAsks(e)

(* What an open request of an automatic row, and its answer, can be. *)
AnswerSound ==
    call # NoCall /\ call.op \in Jobs /\ Automatic(call.event) =>
       /\ call.op = "get" => job[call.event].clip # NoClip
       /\ call.op = "create" => job[call.event].status # "blocked"
       /\ call.op = "list" => Expired(call.event)
       /\ call.answer.kind = "clip" => ~call.answer.eventTime
       /\ call.answer.kind = "empty" =>
             call.op = "list" /\ clips[config.source][call.event] = NoClip
       /\ call.answer.kind = "refused" => call.op = "get"

LInv == (\A e \in Events : RowSound(e)) /\ AnswerSound

(* A row is as sound after a step that leaves it alone but for its wait,   *)
(* and does not take back an age, a clip or the call about it.             *)
LEMMA RowUntouched ==
    ASSUME NEW e \in Events, RowSound(e), config' = config, HasJob(e)' => HasJob(e),
           HasJob(e) => /\ job'[e].category = job[e].category
                        /\ job'[e].eventTime = job[e].eventTime
                        /\ job'[e].context = job[e].context
                        /\ job'[e].clip = job[e].clip
                        /\ job'[e].status = job[e].status
                        /\ job'[e].attempts = job[e].attempts,
           HasJob(e) /\ Expired(e) => Expired(e)',
           \A s \in Sources : /\ clips'[s][e] = NoClip <=> clips[s][e] = NoClip
                              /\ clips[s][e] # NoClip =>
                                    clips'[s][e].eventTime = clips[s][e].eventTime,
           config.source \in Sources,
           JobCall(e) => JobCall(e)'
    PROVE  RowSound(e)'
  <1> SUFFICES ASSUME Automatic(e)' PROVE AsksOurs(e)' /\ KnowsOrAsks(e)'
    BY DEF RowSound
  <1>1. Automatic(e)
    BY DEF Automatic
  <1>2. AsksOurs(e) /\ KnowsOrAsks(e)
    BY <1>1 DEF RowSound
  <1>3. HasJob(e)
    BY <1>1 DEF Automatic
  <1>4. AsksOurs(e)'
    BY <1>2, <1>3 DEF AsksOurs
  <1>5. KnowsOrAsks(e)'
    BY <1>2, <1>3 DEF KnowsOrAsks
  <1> QED BY <1>4, <1>5

(* The same for every row, while the lock is free or the call stays open.  *)
LEMMA RowsUntouched ==
    ASSUME IInv, LInv, config' = config, job' = job, clips' = clips,
           \A e \in Events : HasJob(e) => age'[e] = age[e],
           LockFree \/ (call # NoCall /\ call.op \notin Jobs) \/ call' = call
    PROVE  \A e \in Events : RowSound(e)'
  <1> TAKE e \in Events
  <1>1. JobCall(e) => JobCall(e)'
    BY DEF JobCall, LockFree
  <1>2. HasJob(e) /\ Expired(e) => Expired(e)'
    BY DEF Expired
  <1>3. config.source \in Sources /\ RowSound(e) /\ (HasJob(e)' => HasJob(e))
    BY DEF IInv, TypeOK, LInv, HasJob
  <1> QED BY <1>1, <1>2, <1>3, RowUntouched

LEMMA ProcessJobSound ==
    ASSUME IInv, LInv, NEW e \in Events, HasJob(e), LockFree, ProcessJob(e),
           UNCHANGED <<config, age, clips>>
    PROVE  LInv'
  <1> DEFINE n == NextAttempt(e)
  <1>1. /\ job[e] \in Job /\ Visible(e) /\ config.source \in Sources
        /\ job \in [Events -> Job \cup {NoJob}]
    BY DEF IInv, TypeOK, HasJob, RowsHaveEvents
  <1>2. n \in 1 .. MaxAttempts /\ (n > 1 <=> job[e].attempts > 0)
    <2>1. job[e].attempts \in 0 .. MaxAttempts
      BY <1>1 DEF Job
    <2> QED BY <2>1 DEF NextAttempt, Lesser, MediaJobsAssumption
  <1>3. Route(e, n) \in {"create", "list", "get", "blocked"}
    BY DEF Route
  <1>4. age[e] \in Int
    BY DEF IInv, TypeOK, Absent
  <1>5. ASSUME Automatic(e)
        PROVE  /\ AsksOurs(e) /\ KnowsOrAsks(e) /\ ~EventTimeRequested(e)
               /\ Route(e, n) = "get" => job[e].clip # NoClip
               /\ Route(e, n) # "get" => job[e].clip = NoClip
               /\ Route(e, n) = "create" => ~Expired(e)
               /\ Route(e, n) = "list" => Expired(e)
               /\ Route(e, n) = "blocked" => Expired(e) /\ ~(n > 1)
    <2>1. AsksOurs(e) /\ KnowsOrAsks(e)
      BY <1>5 DEF LInv, RowSound
    <2>2. ~EventTimeRequested(e)
      BY <2>1 DEF AsksOurs, EventTimeRequested
    <2>3. job[e].clip = NoClip => AutomaticRequestBlock(e) = IF Expired(e) THEN "EVENT_CLIP_WINDOW_EXPIRED" ELSE "none"
      BY <2>1 DEF AsksOurs, AutomaticRequestBlock, Expired
    <2>4. job[e].category = "v2"
      BY <1>5 DEF Automatic
    <2> QED BY <2>1, <2>2, <2>3, <2>4 DEF Route
  <1>6. \A f \in Events : ~JobCall(f)
    BY DEF LockFree, JobCall
  <1>7. CASE Route(e, n) = "blocked"
    <2> DEFINE k == Blocked(job[e], n)
    <2>1. job' = [job EXCEPT ![e] = k] /\ call' = call
      BY <1>7 DEF ProcessJob
    <2>2. /\ k \in Job /\ k.status = "blocked" /\ k.category = job[e].category
          /\ k.clip = job[e].clip /\ k.eventTime = job[e].eventTime
          /\ k.context = job[e].context /\ k.attempts = n
      BY <1>1, <1>2, BlockedType DEF Blocked, Job
    <2> HIDE DEF k
    <2>3. \A f \in Events : job'[f] = IF f = e THEN k ELSE job[f]
      BY <1>1, <2>1
    <2>4. ASSUME NEW f \in Events, f # e PROVE RowSound(f)'
      <3>1. RowSound(f)
        BY DEF LInv
      <3>2. job'[f] = job[f]
        BY <2>3, <2>4
      <3>3. (HasJob(f)' => HasJob(f)) /\ (HasJob(f) /\ Expired(f) => Expired(f)')
        BY <3>2 DEF HasJob, Expired
      <3> QED BY <1>1, <1>6, <3>1, <3>2, <3>3, RowUntouched
    <2>5. RowSound(e)'
      <3> SUFFICES ASSUME Automatic(e)' PROVE AsksOurs(e)' /\ KnowsOrAsks(e)'
        BY DEF RowSound
      <3>1. Automatic(e)
        BY <2>2, <2>3 DEF Automatic, HasJob
      <3>2. AsksOurs(e) /\ KnowsOrAsks(e) /\ Expired(e) /\ ~(n > 1) /\ job[e].clip = NoClip
        BY <1>5, <1>7, <3>1
      <3>3. clips[config.source][e] = NoClip
        BY <1>2, <1>6, <3>2 DEF KnowsOrAsks
      <3>4. AsksOurs(e)'
        BY <2>2, <2>3, <3>2 DEF AsksOurs
      <3>5. KnowsOrAsks(e)'
        BY <3>2, <3>3 DEF KnowsOrAsks, Expired
      <3> QED BY <3>4, <3>5
    <2>6. AnswerSound'
      BY <2>1 DEF AnswerSound, LockFree
    <2> QED BY <2>4, <2>5, <2>6 DEF LInv
  <1>8. CASE Route(e, n) # "blocked"
    <2>1. Send(Route(e, n), e, n) /\ job' = job
      BY <1>8 DEF ProcessJob
    <2>2. /\ call' # NoCall /\ call'.op = Route(e, n) /\ call'.event = e
          /\ call'.answer.kind = "waiting"
      BY <1>2, <1>3, <1>8, <2>1, SentType
    <2>3. \A f \in Events : RowSound(f)'
      BY <2>1, RowsUntouched
    <2>4. AnswerSound'
      <3> SUFFICES ASSUME Automatic(e) PROVE AnswerSound'
        BY <2>1, <2>2 DEF AnswerSound, Automatic, HasJob
      <3>1. Route(e, n) = "get" => job[e].clip # NoClip
        BY <1>5
      <3>2. Route(e, n) = "create" => job[e].status # "blocked"
        BY <1>5 DEF KnowsOrAsks
      <3>3. Route(e, n) = "list" => Expired(e)
        BY <1>5
      <3> QED BY <2>1, <2>2, <3>1, <3>2, <3>3 DEF AnswerSound, Expired
    <2> QED BY <2>3, <2>4 DEF LInv
  <1> QED BY <1>7, <1>8

(* The outcome of a request is stored: the row stands, the others too.     *)
LEMMA OutcomeSound ==
    ASSUME IInv, LInv, call # NoCall, Ended, UNCHANGED <<config, age, clips>>,
           NEW k \in Job, HasJob(call.event), job' = [job EXCEPT ![call.event] = k],
           k.category = job[call.event].category,
           Automatic(call.event) =>
              /\ k.eventTime = NoSource
              /\ k.clip \in {NoClip, <<config.source, call.event>>}
              /\ k.clip = NoClip =>
                    /\ k.context = job[call.event].context /\ job[call.event].clip = NoClip
                    /\ k.status = "blocked" => /\ Expired(call.event)
                                               /\ clips[config.source][call.event] = NoClip
                    /\ k.attempts > 0
    PROVE  LInv'
  <1>0. PICK e \in Events : e = call.event
    BY DEF IInv, TypeOK, Call
  <1>1. /\ e \in Events /\ config.source \in Sources /\ job \in [Events -> Job \cup {NoJob}]
    BY DEF IInv, TypeOK, Call
  <1>2. \A f \in Events : job'[f] = IF f = e THEN k ELSE job[f]
    BY <1>0, <1>1
  <1>3. call' = NoCall
    BY DEF Ended
  <1>4. ASSUME NEW f \in Events, f # e PROVE RowSound(f)'
    <2>1. RowSound(f)
      BY DEF LInv
    <2>2. job'[f] = job[f]
      BY <1>2, <1>4
    <2>3. /\ HasJob(f)' => HasJob(f)
          /\ HasJob(f) /\ Expired(f) => Expired(f)'
          /\ ~JobCall(f)
      BY <1>0, <1>4, <2>2 DEF HasJob, Expired, JobCall
    <2> QED BY <1>1, <2>1, <2>2, <2>3, RowUntouched
  <1>5. RowSound(e)'
    <2> SUFFICES ASSUME Automatic(e)' PROVE AsksOurs(e)' /\ KnowsOrAsks(e)'
      BY DEF RowSound
    <2>1. job'[e] = k
      BY <1>1, <1>2
    <2>2. Automatic(e)
      BY <1>0, <2>1 DEF Automatic, HasJob
    <2>3. AsksOurs(e) /\ KnowsOrAsks(e)
      BY <1>1, <2>2 DEF LInv, RowSound
    <2>4. AsksOurs(e)'
      BY <1>0, <2>1, <2>2, <2>3 DEF AsksOurs
    <2>5. KnowsOrAsks(e)'
      BY <1>0, <2>1, <2>2, <2>3 DEF KnowsOrAsks, Expired
    <2> QED BY <2>4, <2>5
  <1>6. AnswerSound'
    BY <1>3 DEF AnswerSound
  <1> QED BY <1>4, <1>5, <1>6 DEF LInv

LEMMA FinishSound == ASSUME IInv, LInv, Finish PROVE LInv'
  <1> DEFINE e == call.event
             j == job[e]
             n == call.attempts
             ok == call.answer.kind = "clip"
  <1>1. /\ call \in Call /\ e \in Events /\ n \in 1 .. MaxAttempts /\ call.answer \in Answer
        /\ call # NoCall /\ Ended /\ UNCHANGED <<age, clips>> /\ UNCHANGED <<config>>
        /\ call.answer.kind \in {"clip", "empty", "refused"}
    BY DEF Finish, IInv, TypeOK, Call, process
  <1>2. HasJob(e) => j \in Job
    BY <1>1 DEF IInv, TypeOK, HasJob
  <1>3. n \in 0 .. MaxAttempts /\ n > 0
    BY <1>1 DEF MediaJobsAssumption
  <1>4. ok => call.answer.id = <<config.source, e>>
    BY <1>1 DEF IInv, CallOK
  <1>5. Automatic(e) => AsksOurs(e) /\ KnowsOrAsks(e)
    BY <1>1 DEF LInv, RowSound
  <1>6. <<config.source, e>> # NoClip
    <2>1. <<config.source, e>> \in ClipIds
      BY <1>1 DEF IInv, TypeOK, ClipIds
    <2> QED BY <2>1 DEF NullAssumption
  <1>7. CASE call.op \in Jobs
    <2>1. HasJob(e)
      BY <1>1, <1>7 DEF IInv, CallOK
    <2>2. CASE ok /\ Matches(e, call.answer)
      <3> DEFINE k == ApplySnapshot(j, call.answer, call.op = "create")
                 l == [k EXCEPT !.attempts = n]
      <3>1. job' = [job EXCEPT ![e] = l]
        BY <1>7, <2>2 DEF Finish
      <3>2. /\ k \in Job /\ k.category = j.category /\ k.clip = call.answer.id
            /\ k.eventTime = j.eventTime
        <4>1. k \in Job
          BY <1>1, <1>2, <2>1, <2>2, ApplyType
        <4> QED BY <1>2, <2>1, <4>1 DEF ApplySnapshot, Job
      <3> HIDE DEF k
      <3>3. l \in Job /\ l.category = k.category /\ l.clip = k.clip /\ l.eventTime = k.eventTime
        BY <1>3, <3>2 DEF Job
      <3> HIDE DEF l
      <3>4. l.category = j.category /\ l.clip = <<config.source, e>> /\ l.eventTime = j.eventTime
        BY <1>4, <2>2, <3>2, <3>3
      <3>5. Automatic(e) => l.eventTime = NoSource
        BY <1>5, <3>4 DEF AsksOurs
      <3> QED BY <1>1, <1>6, <2>1, <3>1, <3>3, <3>4, <3>5, OutcomeSound
    <2>3. CASE ~(ok /\ Matches(e, call.answer))
      <3> DEFINE k == Blocked(j, n)
      <3>1. job' = [job EXCEPT ![e] = k]
        BY <1>7, <2>3 DEF Finish
      <3>2. /\ k \in Job /\ k.category = j.category /\ k.clip = j.clip
            /\ k.eventTime = j.eventTime /\ k.context = j.context /\ k.attempts = n
        BY <1>1, <1>2, <2>1, BlockedType DEF Blocked, Job
      <3> HIDE DEF k
      <3>3. ASSUME Automatic(e), j.clip = NoClip
            PROVE  Expired(e) /\ clips[config.source][e] = NoClip
        <4>1. ok => ~call.answer.eventTime
          BY <1>1, <1>7, <3>3 DEF LInv, AnswerSound
        <4>2. ~EventTimeRequested(e)
          BY <1>5, <3>3 DEF AsksOurs, EventTimeRequested
        <4>3. ok => call.answer.eventTime = FALSE
          BY <1>1, <4>1 DEF Answer
        <4>4. ~ok
          <5>1. EventTimeRequested(e) = FALSE
            BY <4>2 DEF EventTimeRequested
          <5>2. j.clip \in {NoClip, call.answer.id}
            BY <3>3
          <5> QED BY <2>3, <4>3, <5>1, <5>2 DEF Matches
        <4>5. call.answer.kind # "refused"
          BY <1>1, <1>7, <3>3 DEF LInv, AnswerSound
        <4>6. call.answer.kind = "empty"
          BY <1>1, <4>4, <4>5
        <4> QED BY <1>1, <1>7, <3>3, <4>6 DEF LInv, AnswerSound
      <3>4. Automatic(e) => /\ k.eventTime = NoSource
                            /\ k.clip \in {NoClip, <<config.source, e>>}
        BY <1>5, <3>2 DEF AsksOurs
      <3> QED BY <1>1, <1>3, <2>1, <3>1, <3>2, <3>3, <3>4, OutcomeSound
    <2> QED BY <2>2, <2>3
  <1>8. CASE call.op \notin Jobs
    <2>1. CASE ok /\ HasJob(e) /\ j.clip = call.answer.id /\ call.op = "delete"
      <3> DEFINE k == Refreshing(j)
      <3>1. job' = [job EXCEPT ![e] = k]
        BY <1>8, <2>1 DEF Finish
      <3>2. /\ k \in Job /\ k.category = j.category /\ k.clip = j.clip
            /\ k.eventTime = NoSource
        BY <1>2, <2>1, RefreshingType DEF Refreshing, Job
      <3> HIDE DEF k
      <3>3. k.clip = <<config.source, e>>
        BY <1>4, <2>1, <3>2
      <3> QED BY <1>1, <1>6, <2>1, <3>1, <3>2, <3>3, OutcomeSound
    <2>2. CASE /\ ok /\ HasJob(e) /\ j.clip = call.answer.id /\ call.op # "delete"
               /\ Matches(e, call.answer)
      <3> DEFINE k == ApplySnapshot(j, call.answer, FALSE)
      <3>1. job' = [job EXCEPT ![e] = k]
        BY <1>8, <2>2 DEF Finish
      <3>2. k \in Job
        BY <1>1, <1>2, <2>2, ApplyType
      <3>3. /\ k.category = j.category /\ k.clip = call.answer.id
            /\ k.eventTime = j.eventTime
        BY <1>2, <2>2 DEF ApplySnapshot, Job
      <3> HIDE DEF k
      <3>4. k.clip = <<config.source, e>>
        BY <1>4, <2>2, <3>3
      <3>5. Automatic(e) => k.eventTime = NoSource
        BY <1>5, <3>3 DEF AsksOurs
      <3> QED BY <1>1, <1>6, <2>2, <3>1, <3>2, <3>3, <3>4, <3>5, OutcomeSound
    <2>3. CASE \/ ~(ok /\ HasJob(e) /\ j.clip = call.answer.id)
               \/ call.op # "delete" /\ ~Matches(e, call.answer)
      <3>1. job' = job
        BY <1>8, <2>3 DEF Finish
      <3>2. \A f \in Events : RowSound(f)'
        BY <1>1, <1>8, <3>1, RowsUntouched
      <3>3. AnswerSound'
        BY <1>1 DEF AnswerSound, Ended
      <3> QED BY <3>2, <3>3 DEF LInv
    <2> QED BY <2>1, <2>2, <2>3
  <1> QED BY <1>7, <1>8

LEMMA FailSound == ASSUME IInv, LInv, Fail PROVE LInv'
  <1> DEFINE e == call.event
             n == call.attempts
             j == job[e]
  <1>1. /\ call \in Call /\ e \in Events /\ n \in 1 .. MaxAttempts
        /\ call # NoCall /\ Ended /\ UNCHANGED <<age, clips>> /\ UNCHANGED <<config>>
    BY DEF Fail, IInv, TypeOK, Call, process
  <1>2. CASE call.op \in Jobs
    <2> DEFINE k == Deferred(j, n)
    <2>1. HasJob(e) /\ j \in Job
      BY <1>1, <1>2 DEF IInv, CallOK, TypeOK, HasJob
    <2>2. job' = [job EXCEPT ![e] = k]
      BY <1>2 DEF Fail
    <2>3. k \in Job
      BY <1>1, <2>1, DeferredType
    <2>4. /\ k.category = j.category /\ k.clip = j.clip /\ k.status = j.status
          /\ k.eventTime = j.eventTime /\ k.context = j.context /\ k.attempts = n
      BY <2>1 DEF Deferred, Job
    <2> HIDE DEF k
    <2>5. Automatic(e) => AsksOurs(e) /\ KnowsOrAsks(e)
      BY <1>1 DEF LInv, RowSound
    <2>6. Automatic(e) => /\ k.eventTime = NoSource
                          /\ k.clip \in {NoClip, <<config.source, e>>}
      BY <2>4, <2>5 DEF AsksOurs
    <2>7. Automatic(e) /\ k.clip = NoClip /\ k.status = "blocked"
             => Expired(e) /\ clips[config.source][e] = NoClip
      BY <2>4, <2>5 DEF KnowsOrAsks
    <2>8. k.attempts > 0
      BY <1>1, <2>4 DEF MediaJobsAssumption
    <2> QED BY <1>1, <2>1, <2>2, <2>3, <2>4, <2>6, <2>7, <2>8, OutcomeSound
  <1>3. CASE call.op \notin Jobs
    <2>1. job' = job
      BY <1>3 DEF Fail
    <2>2. \A f \in Events : RowSound(f)'
      BY <1>1, <1>3, <2>1, RowsUntouched
    <2>3. AnswerSound'
      BY <1>1 DEF AnswerSound, Ended
    <2> QED BY <2>2, <2>3 DEF LInv
  <1> QED BY <1>2, <1>3

(* A clip is changed in a way that the rows do not notice: only the clips  *)
(* the service held already, never their time basis.                       *)
LEMMA AnswerAccepted ==
    ASSUME IInv, LInv, Waiting, NEW a \in Answer, Reply(a),
           UNCHANGED <<config, age, job>>,
           \A s \in Sources, e \in Events :
              \/ clips'[s][e] = clips[s][e]
              \/ /\ s = config.source /\ e = call.event /\ clips'[s][e] # NoClip
                 /\ IF clips[s][e] = NoClip
                      THEN call.op = "create" /\ (Automatic(e) => ~clips'[s][e].eventTime)
                      ELSE clips'[s][e].eventTime = clips[s][e].eventTime,
           call.op \in Jobs /\ Automatic(call.event) =>
              /\ a.kind = "clip" => ~a.eventTime
              /\ a.kind = "empty" =>
                    call.op = "list" /\ clips'[config.source][call.event] = NoClip
              /\ a.kind = "refused" => call.op = "get"
    PROVE  LInv'
  <1>0. PICK e \in Events : e = call.event
    BY DEF IInv, TypeOK, Call, Waiting
  <1>1. /\ call' \in Call /\ call' # NoCall /\ call'.answer = a
        /\ call'.op = call.op /\ call'.event = call.event
    BY ReplyType DEF IInv, Waiting
  <1>2. config.source \in Sources
    BY DEF IInv, TypeOK
  <1>3. \A f \in Events : JobCall(f) => JobCall(f)'
    BY <1>1 DEF JobCall
  <1>4. ASSUME NEW f \in Events,
               \A s \in Sources : clips[s][f] = NoClip => clips'[s][f] = NoClip
        PROVE  RowSound(f)'
    <2>1. RowSound(f) /\ (HasJob(f)' => HasJob(f)) /\ (HasJob(f) /\ Expired(f) => Expired(f)')
      BY DEF LInv, HasJob, Expired
    <2>2. \A s \in Sources : /\ clips'[s][f] = NoClip <=> clips[s][f] = NoClip
                             /\ clips[s][f] # NoClip =>
                                   clips'[s][f].eventTime = clips[s][f].eventTime
      BY <1>4
    <2> QED BY <1>2, <1>3, <2>1, <2>2, RowUntouched
  <1>5. ASSUME call.op = "create" PROVE RowSound(e)'
    <2> SUFFICES ASSUME Automatic(e)' PROVE AsksOurs(e)' /\ KnowsOrAsks(e)'
      BY DEF RowSound
    <2>1. Automatic(e)
      BY DEF Automatic, HasJob
    <2>2. AsksOurs(e) /\ KnowsOrAsks(e) /\ job[e].status # "blocked"
      BY <1>0, <1>5, <2>1 DEF LInv, RowSound, AnswerSound, Waiting, Jobs
    <2>3. \A s \in Sources : clips'[s][e] # NoClip => ~clips'[s][e].eventTime
      BY <2>1, <2>2 DEF AsksOurs
    <2>4. JobCall(e)'
      BY <1>0, <1>1, <1>5 DEF JobCall, Jobs
    <2>5. AsksOurs(e)'
      BY <2>2, <2>3 DEF AsksOurs
    <2>6. KnowsOrAsks(e)'
      BY <2>2, <2>4 DEF KnowsOrAsks
    <2> QED BY <2>5, <2>6
  <1>6. \A f \in Events : RowSound(f)'
    <2> TAKE f \in Events
    <2>1. CASE \A s \in Sources : clips[s][f] = NoClip => clips'[s][f] = NoClip
      BY <1>4, <2>1
    <2>2. CASE ~ \A s \in Sources : clips[s][f] = NoClip => clips'[s][f] = NoClip
      <3>1. f = e /\ call.op = "create"
        BY <1>0, <2>2
      <3> QED BY <1>5, <3>1
    <2> QED BY <2>1, <2>2
  <1>7. AnswerSound'
    <2>1. Automatic(e)' => Automatic(e)
      BY DEF Automatic, HasJob
    <2> QED BY <1>0, <1>1, <2>1 DEF LInv, AnswerSound, Waiting, Expired
  <1> QED BY <1>6, <1>7 DEF LInv

LEMMA MediaAnswersSound == ASSUME IInv, LInv, MediaAnswers PROVE LInv'
  <1> DEFINE s == config.source
             e == call.event
             c == clips[s][e]
             new == [status |-> "collecting", eventTime |-> EventTimeRequested(e),
                     late |-> age[e] > MaxDelay + HttpTimeout]
  <1>0. /\ Waiting /\ call \in Call /\ s \in Sources /\ e \in Events
        /\ c \in Clip \cup {NoClip} /\ call # NoCall
        /\ clips \in [Sources -> [Events -> Clip \cup {NoClip}]]
        /\ UNCHANGED <<config, age, job>>
    BY DEF MediaAnswers, Waiting, IInv, TypeOK, Call, process
  <1>1. [kind |-> "empty"] \in Answer /\ [kind |-> "refused"] \in Answer
    BY DEF Answer
  <1>2. Automatic(e) => /\ ~EventTimeRequested(e)
                        /\ c # NoClip => ~c.eventTime
    BY <1>0 DEF LInv, RowSound, AsksOurs, EventTimeRequested
  <1>3. CASE call.op = "create"
    <2> DEFINE kept == IF c = NoClip THEN new ELSE c
    <2>1. clips' = [clips EXCEPT ![s][e] = kept] /\ Reply(Snapshot(s, e, kept))
      BY <1>3 DEF MediaAnswers
    <2>2. new \in Clip /\ new.eventTime = EventTimeRequested(e)
      BY DEF Clip, RemoteStatus, EventTimeRequested
    <2>3. /\ kept \in Clip /\ kept # NoClip
          /\ c # NoClip => kept = c
      BY <1>0, <2>2 DEF NullAssumption
    <2>4. Automatic(e) => ~kept.eventTime
      <3>1. CASE c = NoClip
        <4>1. kept = new
          BY <3>1
        <4> QED BY <1>2, <2>2, <4>1
      <3>2. CASE c # NoClip
        <4>1. kept = c
          BY <3>2
        <4> QED BY <1>2, <3>2, <4>1
      <3> QED BY <3>1, <3>2
    <2> HIDE DEF kept
    <2>5. \A t \in Sources, f \in Events :
             clips'[t][f] = IF t = s /\ f = e THEN kept ELSE clips[t][f]
      BY <1>0, <2>1
    <2> DEFINE a == Snapshot(s, e, kept)
    <2>6. a \in Answer /\ a.kind = "clip" /\ a.eventTime = kept.eventTime
      BY <1>0, <2>3, SnapshotType DEF Snapshot
    <2>7. Reply(a)
      BY <2>1
    <2> HIDE DEF a
    <2>8. \A t \in Sources, f \in Events :
             \/ clips'[t][f] = clips[t][f]
             \/ /\ t = s /\ f = e /\ clips'[t][f] # NoClip
                /\ IF clips[t][f] = NoClip
                     THEN call.op = "create" /\ (Automatic(f) => ~clips'[t][f].eventTime)
                     ELSE clips'[t][f].eventTime = clips[t][f].eventTime
      <3> TAKE t \in Sources, f \in Events
      <3>1. CASE t = s /\ f = e
        <4>1. clips'[t][f] = kept /\ clips[t][f] = c
          BY <2>5, <3>1
        <4>2. CASE c = NoClip
          BY <1>3, <2>3, <2>4, <3>1, <4>1, <4>2
        <4>3. CASE c # NoClip
          BY <2>3, <4>1, <4>3
        <4> QED BY <4>2, <4>3
      <3>2. CASE ~(t = s /\ f = e)
        BY <2>5, <3>2
      <3> QED BY <3>1, <3>2
    <2>9. call.op \in Jobs /\ Automatic(e) =>
              /\ a.kind = "clip" => ~a.eventTime
              /\ a.kind = "empty" => call.op = "list" /\ clips'[s][e] = NoClip
              /\ a.kind = "refused" => call.op = "get"
      BY <2>4, <2>6
    <2> QED BY <1>0, <2>6, <2>7, <2>8, <2>9, AnswerAccepted
  <1>4. ASSUME NEW a \in Answer, Reply(a), clips' = clips,
               \/ a.kind = "clip" /\ c # NoClip /\ a.eventTime = c.eventTime
               \/ a.kind = "empty" /\ c = NoClip /\ call.op = "list"
               \/ a.kind = "refused" /\ call.op \in {"get", "read", "delete"}
        PROVE  LInv'
    <2>1. call.op \in Jobs /\ Automatic(e) =>
              /\ a.kind = "clip" => ~a.eventTime
              /\ a.kind = "empty" => call.op = "list" /\ clips'[s][e] = NoClip
              /\ a.kind = "refused" => call.op = "get"
      BY <1>2, <1>4 DEF Jobs
    <2> QED BY <1>0, <1>4, <2>1, AnswerAccepted
  <1>5. CASE call.op = "list"
    <2>1. CASE c = NoClip
      BY <1>1, <1>4, <1>5, <2>1 DEF MediaAnswers
    <2>2. CASE c # NoClip
      <3>1. Snapshot(s, e, c) \in Answer /\ Snapshot(s, e, c).kind = "clip"
        BY <1>0, <2>2, SnapshotType
      <3>2. Snapshot(s, e, c).eventTime = c.eventTime
        BY DEF Snapshot
      <3>3. Reply(Snapshot(s, e, c)) /\ clips' = clips
        BY <1>5, <2>2 DEF MediaAnswers
      <3> QED BY <1>4, <2>2, <3>1, <3>2, <3>3
    <2> QED BY <2>1, <2>2
  <1>6. CASE call.op \in {"get", "read"}
    <2>1. CASE c = NoClip \/ (call.op = "get" /\ job[e].clip # <<s, e>>)
      <3>1. Reply([kind |-> "refused"]) /\ clips' = clips
        BY <1>6, <2>1 DEF MediaAnswers
      <3> QED BY <1>1, <1>4, <1>6, <3>1
    <2>2. CASE ~(c = NoClip \/ (call.op = "get" /\ job[e].clip # <<s, e>>))
      <3>1. Snapshot(s, e, c) \in Answer /\ Snapshot(s, e, c).kind = "clip"
        BY <1>0, <2>2, SnapshotType
      <3>2. Snapshot(s, e, c).eventTime = c.eventTime
        BY DEF Snapshot
      <3>3. Reply(Snapshot(s, e, c)) /\ clips' = clips
        BY <1>6, <2>2 DEF MediaAnswers
      <3> QED BY <1>4, <2>2, <3>1, <3>2, <3>3
    <2> QED BY <2>1, <2>2
  <1>7. CASE call.op = "delete"
    <2> DEFINE gone == [c EXCEPT !.status = "deleted"]
    <2>1. c \in Clip /\ c # NoClip
      BY <1>0, <1>7 DEF IInv, CallOK
    <2>2. CASE c.status = "collecting"
      <3>1. Reply([kind |-> "refused"]) /\ clips' = clips
        BY <1>7, <2>2 DEF MediaAnswers
      <3> QED BY <1>1, <1>4, <1>7, <3>1
    <2>3. CASE c.status # "collecting"
      <3>1. clips' = [clips EXCEPT ![s][e].status = "deleted"] /\ Reply(Snapshot(s, e, gone))
        BY <1>7, <2>3 DEF MediaAnswers
      <3>2. gone \in Clip /\ gone # NoClip /\ gone.eventTime = c.eventTime
        BY <2>1 DEF Clip, RemoteStatus, NullAssumption
      <3>3. \A t \in Sources, f \in Events :
               clips'[t][f] = IF t = s /\ f = e THEN gone ELSE clips[t][f]
        BY <1>0, <3>1
      <3>4. Snapshot(s, e, gone) \in Answer
        BY <1>0, <3>2, SnapshotType
      <3> HIDE DEF gone
      <3> DEFINE a == Snapshot(s, e, gone)
      <3>5. a \in Answer /\ Reply(a)
        BY <3>1, <3>4
      <3> HIDE DEF a
      <3>6. \A t \in Sources, f \in Events :
               \/ clips'[t][f] = clips[t][f]
               \/ /\ t = s /\ f = e /\ clips'[t][f] # NoClip
                  /\ IF clips[t][f] = NoClip
                       THEN call.op = "create" /\ (Automatic(f) => ~clips'[t][f].eventTime)
                       ELSE clips'[t][f].eventTime = clips[t][f].eventTime
        BY <2>1, <3>2, <3>3
      <3>7. call.op \notin Jobs
        BY <1>7 DEF Jobs
      <3> QED BY <1>0, <3>5, <3>6, <3>7, AnswerAccepted
    <2> QED BY <2>2, <2>3
  <1> QED BY <1>0, <1>3, <1>5, <1>6, <1>7 DEF Call

(* Where the service gives no final refusals of its own. *)
LEMMA MediaRefusesSound == ASSUME IInv, LInv, ~Refusals, MediaRefuses PROVE LInv'
  <1>1. Reply([kind |-> "busy"]) /\ Waiting /\ UNCHANGED <<config, age, job, clips>>
    BY DEF MediaRefuses, process
  <1> DEFINE a == [kind |-> "busy"]
  <1>2. a \in Answer /\ a.kind = "busy" /\ Reply(a)
    BY <1>1 DEF Answer
  <1> HIDE DEF a
  <1> QED BY <1>1, <1>2, AnswerAccepted

LEMMA ClipChangesSound ==
    ASSUME IInv, LInv, NEW s \in Sources, NEW e \in Events, NEW from \in RemoteStatus,
           NEW to \in RemoteStatus, ClipChanges(s, e, from, to)
    PROVE  LInv'
  <1>0. UNCHANGED <<config, age, job, call>> /\ clips[s][e] # NoClip
    BY DEF ClipChanges, process
  <1>1. clips[s][e] \in Clip
    BY <1>0 DEF IInv, TypeOK
  <1>2. \A t \in Sources, f \in Events :
           /\ clips'[t][f] = NoClip <=> clips[t][f] = NoClip
           /\ clips[t][f] # NoClip => clips'[t][f].eventTime = clips[t][f].eventTime
    BY <1>1 DEF ClipChanges, IInv, TypeOK, Clip, NullAssumption
  <1>3. config.source \in Sources /\ (call # NoCall => call.event \in Events)
    BY DEF IInv, TypeOK, Call
  <1>4. ASSUME NEW f \in Events PROVE RowSound(f)'
    <2>1. RowSound(f) /\ (HasJob(f)' => HasJob(f)) /\ (HasJob(f) /\ Expired(f) => Expired(f)')
      BY <1>0 DEF LInv, HasJob, Expired
    <2>2. JobCall(f) => JobCall(f)'
      BY <1>0 DEF JobCall
    <2> QED BY <1>0, <1>2, <1>3, <2>1, <2>2, RowUntouched
  <1>5. AnswerSound'
    BY <1>0, <1>2, <1>3 DEF LInv, AnswerSound, Automatic, HasJob, Expired
  <1> QED BY <1>4, <1>5 DEF LInv

LEMMA WorkerQueuesSound == ASSUME IInv, LInv, WorkerQueues PROVE LInv'
  <1>0. LockFree /\ UNCHANGED <<config, age, call, clips>>
    BY DEF WorkerQueues
  <1>1. AnswerSound'
    BY <1>0 DEF AnswerSound, LockFree
  <1>2. CASE job' = job
    BY <1>0, <1>1, <1>2, RowsUntouched DEF LInv
  <1>3. CASE config.enabled /\ cursor.mine
    <2> DEFINE k == NewJob("v2", NoSource, config.source)
    <2>1. job' = [e \in Events |-> IF e \in Queued THEN k ELSE job[e]]
      BY <1>3 DEF WorkerQueues, QueueRecentEvents
    <2>2. /\ k.eventTime = NoSource /\ k.clip = NoClip /\ k.context = config.source
          /\ k.status = "pending"
      BY DEF NewJob
    <2> HIDE DEF k
    <2>3. ASSUME NEW e \in Events PROVE RowSound(e)'
      <3>1. CASE e \in Queued
        <4>1. job'[e] = k /\ ~HasJob(e)
          BY <2>1, <3>1 DEF Queued, Fresh
        <4>2. \A s \in Sources : clips[s][e] = NoClip
          BY <4>1 DEF IInv, ClipsHaveRows
        <4>3. config.source \in Sources
          BY DEF IInv, TypeOK
        <4>4. AsksOurs(e)'
          BY <1>0, <1>3, <2>2, <4>1, <4>2 DEF AsksOurs
        <4>5. KnowsOrAsks(e)'
          BY <1>0, <2>2, <4>1, <4>2, <4>3 DEF KnowsOrAsks
        <4> QED BY <4>4, <4>5 DEF RowSound
      <3>2. CASE e \notin Queued
        <4>1. job'[e] = job[e]
          BY <2>1, <3>2
        <4>2. RowSound(e) /\ (HasJob(e)' => HasJob(e)) /\ (HasJob(e) /\ Expired(e) => Expired(e)')
          BY <1>0, <4>1 DEF LInv, HasJob, Expired
        <4>3. ~JobCall(e) /\ config.source \in Sources
          BY <1>0 DEF JobCall, LockFree, IInv, TypeOK
        <4> QED BY <1>0, <4>1, <4>2, <4>3, RowUntouched
      <3> QED BY <3>1, <3>2
    <2> QED BY <1>1, <2>3 DEF LInv
  <1> QED BY <1>2, <1>3 DEF WorkerQueues, StartCursor

(* A row of another kind is not an automatic one. *)
LEMMA ManualSound ==
    ASSUME IInv, LInv, NEW e \in Events, ~HasJob(e), NEW k, k.category = "manual",
           UNCHANGED <<config, clips>>, job' = job \/ job' = [job EXCEPT ![e] = k],
           \A f \in Events : HasJob(f) => age'[f] = age[f],
           \A f \in Events : JobCall(f) => JobCall(f)'
    PROVE  \A f \in Events : RowSound(f)'
  <1> TAKE f \in Events
  <1>1. job'[f] = job[f] \/ (f = e /\ job'[f] = k)
    BY DEF IInv, TypeOK
  <1>2. CASE job'[f] = job[f]
    <2>1. /\ RowSound(f) /\ config.source \in Sources
          /\ (HasJob(f)' => HasJob(f)) /\ (HasJob(f) /\ Expired(f) => Expired(f)')
      BY <1>2 DEF LInv, HasJob, Expired, IInv, TypeOK
    <2> QED BY <1>2, <2>1, RowUntouched
  <1>3. CASE f = e /\ job'[f] = k
    BY <1>3 DEF RowSound, Automatic
  <1> QED BY <1>1, <1>2, <1>3

LEMMA RecordsSound ==
    ASSUME IInv, LInv, NEW e \in Events, RecordV2Event(e) \/ RecordLoggedEvent(e)
    PROVE  LInv'
  <1>0. ~HasJob(e) /\ UNCHANGED <<config, call, clips>>
    BY DEF RecordV2Event, RecordLoggedEvent, IInv, RowsHaveEvents, process
  <1>1. \A f \in Events : f # e => age'[f] = age[f]
    BY DEF RecordV2Event, RecordLoggedEvent, IInv, TypeOK
  <1>2. \A f \in Events : HasJob(f) => age'[f] = age[f]
    BY <1>0, <1>1
  <1>3. PICK k : k.category = "manual" /\ (job' = job \/ job' = [job EXCEPT ![e] = k])
    <2>1. NewJob("manual", NoSource, NoSource).category = "manual"
      BY DEF NewJob
    <2> QED BY <2>1 DEF RecordV2Event, RecordLoggedEvent
  <1>4. \A f \in Events : RowSound(f)'
    <2>1. \A f \in Events : JobCall(f) => JobCall(f)'
      BY <1>0 DEF JobCall
    <2> QED BY <1>0, <1>2, <1>3, <2>1, ManualSound
  <1>5. call # NoCall /\ call.op \in Jobs => /\ call.event \in Events /\ call.event # e
                                            /\ HasJob(call.event)
    BY <1>0 DEF IInv, TypeOK, Call, CallOK
  <1>6. call # NoCall /\ call.op \in Jobs =>
           job'[call.event] = job[call.event] /\ age'[call.event] = age[call.event]
    BY <1>1, <1>3, <1>5 DEF IInv, TypeOK
  <1>7. AnswerSound'
    BY <1>0, <1>5, <1>6 DEF LInv, AnswerSound, Automatic, HasJob, Expired
  <1> QED BY <1>4, <1>7 DEF LInv

LEMMA RequestNewClipSound ==
    ASSUME IInv, LInv, NEW e \in Events, NEW eventTime \in BOOLEAN, RequestNewClip(e, eventTime)
    PROVE  LInv'
  <1> DEFINE s == IF eventTime THEN config.source ELSE NoSource
             k == NewJob("manual", s, NoSource)
  <1>1. /\ k.category = "manual" /\ job' = [job EXCEPT ![e] = k] /\ Send("create", e, 1)
        /\ ~HasJob(e) /\ LockFree /\ UNCHANGED <<config, age, clips>>
    BY DEF NewJob, RequestNewClip, process
  <1> HIDE DEF k
  <1>2. \A f \in Events : RowSound(f)'
    <2>1. \A f \in Events : ~JobCall(f)
      BY <1>1 DEF JobCall, LockFree
    <2> QED BY <1>1, <2>1, ManualSound
  <1>3. 1 \in 1 .. MaxAttempts
    BY DEF MediaJobsAssumption
  <1>4. call'.event = e
    BY <1>1, <1>3, SentType
  <1>5. ~Automatic(e)'
    BY <1>1 DEF Automatic, IInv, TypeOK
  <1>6. AnswerSound'
    BY <1>4, <1>5 DEF AnswerSound, Automatic, HasJob
  <1> QED BY <1>2, <1>6 DEF LInv

LEMMA ReadOrDeleteSound ==
    ASSUME IInv, LInv, NEW e \in Events, ReadClip(e) \/ DeleteClip(e) PROVE LInv'
  <1>1. PICK op \in {"read", "delete"} : Send(op, e, 1)
    BY DEF ReadClip, DeleteClip
  <1>2. 1 \in 1 .. MaxAttempts
    BY DEF MediaJobsAssumption
  <1>3. call'.op = op
    BY <1>1, <1>2, SentType
  <1>4. LockFree /\ UNCHANGED <<config, age, job, clips>>
    BY DEF ReadClip, DeleteClip, process
  <1>5. AnswerSound'
    BY <1>3 DEF AnswerSound, Jobs
  <1>6. \A f \in Events : RowSound(f)'
    BY <1>4, RowsUntouched
  <1> QED BY <1>5, <1>6 DEF LInv

LEMMA TickSound == ASSUME IInv, LInv, Tick PROVE LInv'
  <1>0. config' = config /\ clips' = clips /\ config.source \in Sources
    BY DEF Tick, IInv, TypeOK
  <1>1. ASSUME NEW e \in Events PROVE Expired(e) => Expired(e)'
    <2>1. age[e] \in {-1} \cup 0 .. AgeCap
      BY DEF IInv, TypeOK, Absent
    <2>2. age'[e] = age[e] \/ age'[e] = Lesser(AgeCap, age[e] + 1)
      BY DEF Tick
    <2> QED BY <2>1, <2>2, WaitCapType DEF Expired, Lesser, MediaJobsAssumption
  <1>2. ASSUME NEW e \in Events
        PROVE  /\ HasJob(e)' <=> HasJob(e)
               /\ HasJob(e) => /\ job'[e].category = job[e].category
                               /\ job'[e].eventTime = job[e].eventTime
                               /\ job'[e].context = job[e].context
                               /\ job'[e].clip = job[e].clip
                               /\ job'[e].status = job[e].status
                               /\ job'[e].attempts = job[e].attempts
    <2>1. CASE HasJob(e) /\ job[e].wait > 0
      <3>1. job[e] \in Job
        BY <2>1 DEF IInv, TypeOK, HasJob
      <3>2. job[e].wait \in {Never} \cup 0 .. WaitCap
        BY <3>1 DEF Job
      <3>3. job[e].wait - 1 \in 0 .. WaitCap
        BY <2>1, <3>2, WaitCountsDown
      <3> DEFINE k == [job[e] EXCEPT !.wait = @ - 1]
      <3>4. job'[e] = k
        BY <2>1 DEF Tick
      <3>5. /\ k \in Job /\ k.category = job[e].category /\ k.eventTime = job[e].eventTime
            /\ k.context = job[e].context /\ k.clip = job[e].clip
            /\ k.status = job[e].status /\ k.attempts = job[e].attempts
        BY <3>1, <3>3 DEF Job
      <3> HIDE DEF k
      <3>6. k # NoJob
        BY <3>5 DEF NullAssumption
      <3> QED BY <2>1, <3>4, <3>5, <3>6 DEF HasJob
    <2>2. CASE ~(HasJob(e) /\ job[e].wait > 0)
      <3>1. job'[e] = job[e]
        BY <2>2 DEF Tick
      <3> QED BY <3>1 DEF HasJob
    <2> QED BY <2>1, <2>2
  <1>3. call # NoCall => /\ call' # NoCall /\ call'.op = call.op /\ call'.event = call.event
                         /\ call'.answer = call.answer /\ call.event \in Events
    <2> SUFFICES ASSUME call # NoCall
                 PROVE  /\ call' # NoCall /\ call'.op = call.op /\ call'.event = call.event
                        /\ call'.answer = call.answer /\ call.event \in Events
      OBVIOUS
    <2>1. call \in Call /\ call' = [call EXCEPT !.elapsed = @ + 1]
      BY DEF IInv, TypeOK, Tick
    <2>2. call.elapsed + 1 \in 0 .. HttpTimeout
      BY <2>1 DEF Tick, Call, MediaJobsAssumption
    <2>3. call' \in Call
      BY <2>1, <2>2 DEF Call
    <2> QED BY <2>1, <2>3 DEF Call, NullAssumption
  <1>4. call = NoCall => call' = NoCall
    BY DEF Tick
  <1>5. ASSUME NEW e \in Events PROVE RowSound(e)'
    <2>1. JobCall(e) => JobCall(e)'
      BY <1>3 DEF JobCall
    <2>2. RowSound(e)
      BY DEF LInv
    <2> QED BY <1>0, <1>1, <1>2, <2>1, <2>2, RowUntouched
  <1>6. AnswerSound'
    <2> SUFFICES ASSUME call' # NoCall, call'.op \in Jobs, Automatic(call.event)'
                 PROVE  AnswerSound'
      BY <1>3, <1>4 DEF AnswerSound, Automatic, HasJob
    <2>1. PICK e \in Events : e = call.event /\ call # NoCall /\ call'.event = e
      BY <1>3, <1>4
    <2>2. Automatic(e)
      BY <1>2, <1>3, <1>4, <2>1 DEF Automatic, HasJob
    <2> QED BY <1>0, <1>1, <1>2, <1>3, <1>4, <2>1, <2>2 DEF LInv, AnswerSound, Automatic
  <1> QED BY <1>5, <1>6 DEF LInv

LEMMA LostInv ==
    ASSUME ~Restarts, ~Refusals PROVE IInv /\ LInv /\ [Next]_vars => LInv'
  <1> SUFFICES ASSUME IInv, LInv, [Next]_vars PROVE LInv'
    OBVIOUS
  <1>1. ASSUME NEW e \in Events, RecordV2Event(e) \/ RecordLoggedEvent(e) PROVE LInv'
    BY <1>1, RecordsSound
  <1>2. ASSUME UNCHANGED <<config, age, job, call, clips>> PROVE LInv'
    BY <1>2 DEF LInv, RowSound, AnswerSound, Automatic, AsksOurs, KnowsOrAsks, Expired,
                HasJob, JobCall
  <1>3. ASSUME NEW e \in Events, WorkerTakes(e) PROVE LInv'
    <2>1. CASE Due(e)
      BY <1>3, <2>1, ProcessJobSound DEF WorkerTakes, Due
    <2>2. CASE ~Due(e)
      BY <1>2, <1>3, <2>2 DEF WorkerTakes
    <2> QED BY <2>1, <2>2
  <1>4. CASE Worker
    BY <1>2, <1>3, <1>4, WorkerQueuesSound DEF Worker, WorkerSelects, WorkerRests
  <1>5. ASSUME NEW e \in Events, NEW eventTime \in BOOLEAN, RequestKnownClip(e, eventTime)
        PROVE  LInv'
    BY <1>5, ProcessJobSound DEF RequestKnownClip, process
  <1>6. CASE Endpoints
    BY <1>5, <1>6, RequestNewClipSound, ReadOrDeleteSound, MediaJobsAssumption
    DEF Endpoints, MediaJobsAssumption
  <1>7. CASE Media
    <2>1. "collecting" \in RemoteStatus /\ "ready" \in RemoteStatus /\ "deleted" \in RemoteStatus
      BY DEF RemoteStatus
    <2>2. ASSUME NEW s \in Sources, NEW e \in Events, MediaFinishes(s, e) \/ MediaExpires(s, e)
          PROVE  LInv'
      BY <2>1, <2>2, ClipChangesSound DEF MediaFinishes, MediaExpires
    <2> QED BY <1>7, <2>2, MediaAnswersSound, MediaRefusesSound DEF Media
  <1>8. CASE Finish \/ Fail \/ Restart \/ Tick
    BY <1>8, FinishSound, FailSound, TickSound DEF Restart
  <1>9. CASE UNCHANGED vars
    BY <1>2, <1>9 DEF vars
  <1> QED BY <1>1, <1>4, <1>6, <1>7, <1>8, <1>9 DEF Next, Unattended, Events

(* The recovery of process_job: as long as the process lives and the       *)
(* service gives no final refusal of its own, an automatic job is given up *)
(* without a clip only where the service holds none, though any number of  *)
(* answers are lost.                                                       *)
THEOREM AnswersRecovered ==
    ASSUME ~Restarts, ~Refusals PROVE Spec => []LostAnswerRecovered
  <1>1. Init => LInv
    BY DEF Init, LInv, RowSound, Automatic, HasJob, AnswerSound
  <1>2. IInv /\ LInv => LostAnswerRecovered
    <2> SUFFICES ASSUME IInv, LInv, NEW e \in Events, HasJob(e), job[e].category = "v2",
                        job[e].status = "blocked", job[e].clip = NoClip
                 PROVE  clips[config.source][e] = NoClip
      BY DEF LostAnswerRecovered
    <2>1. KnowsOrAsks(e)
      BY DEF LInv, RowSound, Automatic
    <2> QED BY <2>1 DEF KnowsOrAsks
  <1> QED BY <1>1, <1>2, LostInv, Invariant, PTL DEF Spec

-----------------------------------------------------------------------------
(* What a sweep queues.                                                    *)

(* ORDER BY id LIMIT takes as many rows as the limit allows, if any fresh  *)
(* row is left out.                                                        *)
LEMMA FullSweep ==
    ASSUME NEW e \in V2Events, Fresh(e), e \notin Queued
    PROVE  Cardinality(Queued) = QueueLimit
  <1> DEFINE S == {f \in V2Events : Fresh(f)}
  <1>1. S \in SUBSET Nat /\ e \in S /\ QueueLimit \in Nat \ {0}
    BY DEF MediaJobsAssumption, Events
  <1>2. ASSUME NEW f \in V2Events
        PROVE  {g \in S : g < f} = {g \in V2Events : Fresh(g) /\ g < f}
    OBVIOUS
  <1>3. ~(Cardinality({g \in S : g < e}) < QueueLimit)
    BY <1>2 DEF Queued
  <1>4. Queued = {f \in S : Cardinality({g \in S : g < f}) < QueueLimit}
    BY <1>2 DEF Queued
  <1> HIDE DEF S
  <1> QED BY <1>1, <1>3, <1>4, FirstOnes

LEMMA SweepQueues ==
    ASSUME IInv, FromPresent, Next,
           phase = "queue", phase' = "select", config.enabled, cursor.mine
    PROVE  \/ Cardinality({e \in V2Events : job'[e] # job[e]}) = QueueLimit
           \/ \A e \in V2Events \ stale :
                 Visible(e) /\ age[e] <= Lesser(MaxDelay, cursor.age) => job'[e] # NoJob
  <1>1. WorkerQueues
    BY DEF Next, Unattended, Endpoints, Worker, Media, RecordV2Event, RecordLoggedEvent,
           WorkerSelects, WorkerTakes, WorkerRests, RequestNewClip, RequestKnownClip,
           ReadClip, DeleteClip, MediaAnswers, MediaRefuses, MediaFinishes, MediaExpires,
           ClipChanges, Finish, Fail, Restart, Tick, process
  <1> DEFINE k == NewJob("v2", NoSource, config.source)
  <1>2. job' = [e \in Events |-> IF e \in Queued THEN k ELSE job[e]]
    BY <1>1 DEF WorkerQueues, QueueRecentEvents
  <1>3. k # NoJob
    <2>1. k \in Job
      BY NewJobType DEF IInv, TypeOK
    <2> QED BY <2>1 DEF NullAssumption
  <1> HIDE DEF k
  <1>4. {e \in V2Events : job'[e] # job[e]} = Queued
    BY <1>2, <1>3 DEF Queued, Fresh, HasJob, Events
  <1>5. ASSUME NEW e \in V2Events \ stale, Visible(e),
               age[e] <= Lesser(MaxDelay, cursor.age), job'[e] = NoJob
        PROVE  Cardinality(Queued) = QueueLimit
    <2>1. e \in Events /\ e \notin Queued /\ ~HasJob(e)
      BY <1>2, <1>3, <1>5 DEF Events, HasJob
    <2>2. age[e] <= MaxDelay /\ age[e] <= cursor.age
      <3>1. /\ age[e] \in {-1} \cup 0 .. AgeCap /\ cursor.age \in 0 .. AgeCap
            /\ AgeCap \in Nat /\ MaxDelay \in Nat
        BY <2>1, WaitCapType DEF IInv, TypeOK, Absent, MediaJobsAssumption
      <3> QED BY <1>5, <3>1 DEF Lesser
    <2>3. Fresh(e)
      BY <1>5, <2>1, <2>2 DEF Fresh, FromPresent
    <2> QED BY <2>1, <2>3, FullSweep
  <1> QED BY <1>4, <1>5

(* queue_recent_events reads the ids again in every sweep: an event that   *)
(* became visible below the largest id is queued as long as it is recent,  *)
(* unless the sweep is full.                                               *)
THEOREM FreshQueued == Spec => FreshEventsQueued
  <1>1. Init => FromPresent
    BY DEF Init, FromPresent
  <1>2. IInv /\ FromPresent /\ [Next]_vars
           => [ phase = "queue" /\ phase' = "select" /\ config.enabled /\ cursor.mine =>
                \/ Cardinality({e \in V2Events : job'[e] # job[e]}) = QueueLimit
                \/ \A e \in V2Events \ stale :
                      Visible(e) /\ age[e] <= Lesser(MaxDelay, cursor.age)
                         => job'[e] # NoJob ]_vars
    BY SweepQueues
  <1>3. IInv => TypeOK
    BY DEF IInv
  <1> QED BY <1>1, <1>2, <1>3, FromPresentInv, Invariant, PTL DEF Spec, FreshEventsQueued
=============================================================================

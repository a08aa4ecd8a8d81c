----------------------------- MODULE EdgeReceiver -----------------------------
(***************************************************************************)
(* The v2 receiver: POST /api/edge/v2/* stores a message of an edge device *)
(* and acknowledges it, however often, in whatever order and by however    *)
(* many connections at once the device delivers it (accept_message), and   *)
(* device_status reads the newest status back.                             *)
(*                                                                         *)
(* One device: no row, lock or constraint here spans devices.  A handler   *)
(* is one request; each of its steps ends where the coroutine waits for    *)
(* the database.  What a handler has written is invisible to the others    *)
(* until it commits, and is gone if it aborts; its unique keys make others *)
(* wait.  Of a message, only what the code compares is kept.               *)
(***************************************************************************)
EXTENDS Integers, Sequences, FiniteSetsExt

CONSTANTS
    Messages,   \* bodies a device may send; two with one id differ in content
    Handlers,   \* requests in progress at once
    None,       \* null value
    Compact,    \* EDGE_V2_COMPACT_STORAGE_ENABLED
    Torn,       \* may handlers commit between the statements of a reader?
                \* (they may; FALSE narrows an instance to undisturbed reads)
    MaxTries,   \* attempts of store_artifacts (3)
    MaxIds      \* bound: no new message is sent while a row id or time of receipt
                \* above it is in sight

Kinds == {"measurement", "state", "status", "event"}

(* `event' stands for what is never projected: EVENT assessments,          *)
(* configurations and historical evidence.                                 *)
Projected == Kinds \ {"event"}

(* The body without its message_id. *)
Content(m) == [m EXCEPT !.id = None]

(* What edge_v2_latest keeps of a kind: the body, and the time up to which  *)
(* generated_at was seen.                                                  *)
Kept == [msg : Messages, gen : Nat]

(* gen is generated_at; key identifies the immutable artifact the body     *)
(* states; instance, seq and overall are orchestrator_instance_id, sequence*)
(* and overall_state of a status.                                          *)
ASSUME EdgeReceiverAssumption ==
    /\ None \notin Messages /\ None \notin Kept
    /\ \A m \in Messages :
          /\ DOMAIN m = {"id", "kind", "gen", "key", "instance", "seq", "overall"}
          /\ m.kind \in Kinds /\ m.gen \in Nat /\ m.seq \in Nat
          /\ m.overall \in {"usable", "down"}
          /\ Content(m) # None
    /\ Compact \in BOOLEAN /\ Torn \in BOOLEAN
    /\ MaxTries \in Nat \ {0} /\ MaxIds \in Nat

Keys == {m.key : m \in Messages}

VARIABLES
    receipts,    \* edge_v2_messages, committed
    artifacts,   \* edge_v2_artifacts: artifacts[key], the committed content or None
    latest,      \* edge_v2_latest: latest[kind] = [msg, gen] or None
    filter,      \* edge_v2_filters: the STATE it was filled by and the instance
                 \* in its scope, or None while its payload is {}
    transitions, \* the DEVICE_STATE_CHANGED rows of edge_v2_transitions
    lock,        \* the handler holding the device's row of edge_v2_filters
    handler,     \* handler[h]: a request in progress, or None
    reader,      \* a device_status call in progress, or None
    acks         \* history: the acknowledgements returned

vars == <<receipts, artifacts, latest, filter, transitions, lock, handler, reader, acks>>
stored == <<receipts, artifacts, latest, filter, transitions>>

Greater(a, b) == IF a > b THEN a ELSE b

-----------------------------------------------------------------------------
(* accept_message.                                                         *)

Known(id) == \E r \in receipts : r.msg.id = id
ReceiptOf(id) == CHOOSE r \in receipts : r.msg.id = id

Ack(m, received, duplicate) ==
    acks' = acks \cup {[msg |-> m, received |-> received, duplicate |-> duplicate]}

(* The request ends; what it has not committed is rolled back. *)
Ends(h) ==
    /\ handler' = [handler EXCEPT ![h] = None]
    /\ lock' = IF lock = h THEN None ELSE lock

(* Wrong on purpose: bodies are not compared. *)
ReplayAnyBody(h, m) ==
    /\ Ack(m, ReceiptOf(m.id).received, TRUE)
    /\ Ends(h)

(* A known id: the original receipt for the same body, else a 409. *)
Replay(h, m) ==
    /\ IF ReceiptOf(m.id).msg = m THEN Ack(m, ReceiptOf(m.id).received, TRUE)
                                  ELSE UNCHANGED acks
    /\ Ends(h)

(* Times of receipt and row ids are known by their order: the next one is  *)
(* above those in sight (of an aborted request nothing is left to see).    *)
Busy      == {h \in Handlers : handler[h] # None}
NextStamp == 1 + Max({0} \cup {r.received : r \in receipts} \cup {handler[h].received : h \in Busy})
NextRow   == 1 + Max({0} \cup {r.row : r \in receipts} \cup {handler[h].row : h \in Busy})

(* The device delivers a message, perhaps again, perhaps while an earlier  *)
(* delivery is still in progress.                                          *)
Deliver(h, m) ==
    /\ handler[h] = None
    /\ Known(m.id) \/ Greater(NextRow, NextStamp) <= MaxIds
    /\ handler' = [handler EXCEPT ![h] =
                     [step |-> "check", msg |-> m, received |-> 0, row |-> 0, tries |-> 0]]
    /\ UNCHANGED <<lock, reader, acks>> /\ UNCHANGED stored

At(h, step) == handler[h] # None /\ handler[h].step = step

Goto(h, step) == handler' = [handler EXCEPT ![h].step = step]

(* Uncommitted rows. *)
Inserted(h)  == handler[h] # None /\ handler[h].row # 0
WroteKey(h)  == At(h, "commit") /\ artifacts[handler[h].msg.key] = None

Check(h) ==
    /\ At(h, "check")
    /\ IF Known(handler[h].msg.id)
         THEN Replay(h, handler[h].msg)
         ELSE Goto(h, "lock") /\ UNCHANGED <<lock, acks>>
    /\ UNCHANGED reader /\ UNCHANGED stored

(* Wrong on purpose: the time of receipt is not taken. *)
LockUnstamped(h) ==
    /\ At(h, "lock")
    /\ IF Compact THEN lock = None /\ lock' = h ELSE UNCHANGED lock
    /\ Goto(h, "insert")
    /\ UNCHANGED <<reader, acks>> /\ UNCHANGED stored

(* lock_projection serializes a device in compact storage; then the time of *)
(* receipt is taken.                                                        *)
Lock(h) ==
    /\ At(h, "lock")
    /\ IF Compact THEN lock = None /\ lock' = h ELSE UNCHANGED lock
    /\ handler' = [handler EXCEPT ![h].step = "insert", ![h].received = NextStamp]
    /\ UNCHANGED <<reader, acks>> /\ UNCHANGED stored

(* Wrong on purpose: the unique constraint is not there. *)
InsertAnyway(h) ==
    /\ At(h, "insert")
    /\ handler' = [handler EXCEPT ![h].step = "artifacts", ![h].row = NextRow]
    /\ UNCHANGED <<lock, reader, acks>> /\ UNCHANGED stored

(* The receipt is flushed.  The unique constraint waits for an uncommitted *)
(* receipt of the same id and fails on a committed one, which is a replay. *)
Insert(h) ==
    LET m == handler[h].msg
    IN  /\ At(h, "insert")
        /\ \A g \in Handlers \ {h} : ~(Inserted(g) /\ handler[g].msg.id = m.id)
        /\ IF Known(m.id)
             THEN Replay(h, m)
             ELSE /\ handler' = [handler EXCEPT ![h].step = "artifacts", ![h].row = NextRow]
                  /\ UNCHANGED <<lock, acks>>
        /\ UNCHANGED reader /\ UNCHANGED stored

(* Wrong on purpose: an artifact that is known already is not compared. *)
ArtifactsUncompared(h) ==
    /\ At(h, "artifacts")
    /\ Goto(h, IF artifacts[handler[h].msg.key] = None THEN "write" ELSE "commit")
    /\ UNCHANGED <<lock, reader, acks>> /\ UNCHANGED stored

(* Wrong on purpose: a conflict is taken for a lost race and tried again. *)
ArtifactsRetried(h) ==
    LET m == handler[h].msg
    IN  /\ At(h, "artifacts")
        /\ Goto(h, IF artifacts[m.key] = None THEN "write"
                   ELSE IF artifacts[m.key] = Content(m) THEN "commit" ELSE "artifacts")
        /\ UNCHANGED <<lock, reader, acks>> /\ UNCHANGED stored

(* store_artifacts reads what is known: another content is a 409. *)
Artifacts(h) ==
    LET m == handler[h].msg
    IN  /\ At(h, "artifacts")
        /\ IF artifacts[m.key] = None
             THEN Goto(h, "write") /\ UNCHANGED lock
           ELSE IF artifacts[m.key] = Content(m)
             THEN Goto(h, "commit") /\ UNCHANGED lock
             ELSE Ends(h)
        /\ UNCHANGED <<reader, acks>> /\ UNCHANGED stored

(* The unique constraint arbitrates concurrent writers; the loser reads    *)
(* again, and gives up (503) on the last attempt.                          *)
Write(h) ==
    LET m == handler[h].msg
    IN  /\ At(h, "write")
        /\ \A g \in Handlers \ {h} : ~(WroteKey(g) /\ handler[g].msg.key = m.key)
        /\ IF artifacts[m.key] = None
             THEN Goto(h, "commit") /\ UNCHANGED lock
           ELSE IF handler[h].tries + 1 < MaxTries
             THEN /\ handler' = [handler EXCEPT ![h].step = "artifacts", ![h].tries = @ + 1]
                  /\ UNCHANGED lock
             ELSE Ends(h)
        /\ UNCHANGED <<reader, acks>> /\ UNCHANGED stored

-----------------------------------------------------------------------------
(* device_status.                                                          *)

Statuses == {r \in receipts : r.msg.kind = "status"}

Later(r, q)  == r.msg.gen > q.msg.gen \/ (r.msg.gen = q.msg.gen /\ r.row > q.row)
Higher(r, q) == r.msg.seq > q.msg.seq \/ (r.msg.seq = q.msg.seq /\ r.row > q.row)

(* The instance that reported with the latest generated_at, and of an      *)
(* instance the status with the highest sequence.                          *)
NewestInstance ==
    (CHOOSE r \in Statuses : \A q \in Statuses \ {r} : Later(r, q)).msg.instance
HighestStatus(x) ==
    LET own == {r \in Statuses : r.msg.instance = x}
    IN  (CHOOSE r \in own : \A q \in own \ {r} : Higher(r, q)).msg

(* In compact storage only the latest status keeps its body. *)
Retained(m) ==
    IF ~Compact THEN m
    ELSE IF latest["status"] # None /\ latest["status"].msg.instance = m.instance
                                    /\ latest["status"].msg.seq = m.seq
      THEN latest["status"].msg ELSE None

Snapshot == IF Statuses = {} THEN None ELSE Retained(HighestStatus(NewestInstance))

-----------------------------------------------------------------------------
(* project, and the commit.                                                *)

SameInstance(m) ==
    /\ m.kind = "status" /\ latest["status"] # None
    /\ latest["status"].msg.instance = m.instance

NewerThanLatest(m) == latest[m.kind] = None \/ m.gen > latest[m.kind].gen

(* Wrong on purpose: a status is chosen like a STATE; or the last message  *)
(* to arrive is the latest.                                                *)
ReplacesByTime(m) == NewerThanLatest(m)
ReplacesAlways(m) == TRUE

(* STATE and measurement are chosen by time; a status of the instance that *)
(* is kept already by its sequence.                                        *)
Replaces(m) ==
    IF SameInstance(m) THEN m.seq > latest["status"].msg.seq ELSE NewerThanLatest(m)

LatestAfter(m) ==
    LET old == latest[m.kind]
    IN  IF Replaces(m)
          THEN [latest EXCEPT ![m.kind] =
                  [msg |-> m, gen |-> IF old = None THEN m.gen ELSE Greater(old.gen, m.gen)]]
        ELSE IF SameInstance(m) /\ NewerThanLatest(m)
          THEN [latest EXCEPT ![m.kind].gen = m.gen]
          ELSE latest

(* Wrong on purpose: samples survive the restart of the orchestrator. *)
FilterKept(m) ==
    IF ~Replaces(m) THEN filter
    ELSE IF m.kind = "status" /\ m.overall # "usable" THEN None
    ELSE IF m.kind = "state"
      THEN [msg |-> m, instance |-> IF Snapshot = None THEN None ELSE Snapshot.instance]
      ELSE filter

(* Another instance or an unusable state empties the filter; a STATE is    *)
(* filtered under the instance of the present snapshot.                    *)
FilterAfter(m) ==
    IF ~Replaces(m) THEN filter
    ELSE IF m.kind = "status" /\ (~SameInstance(m) \/ m.overall # "usable") THEN None
    ELSE IF m.kind = "state"
      THEN [msg |-> m, instance |-> IF Snapshot = None THEN None ELSE Snapshot.instance]
      ELSE filter

(* Wrong on purpose: a delayed status that is not kept is recorded too. *)
TransitionsOfAll(m) ==
    IF /\ m.kind = "status" /\ latest["status"] # None
       /\ latest["status"].msg.overall # m.overall
      THEN Append(transitions, [previous |-> latest["status"].msg.overall,
                                current |-> m.overall])
      ELSE transitions

TransitionsAfter(m) ==
    IF /\ m.kind = "status" /\ Replaces(m) /\ latest["status"] # None
       /\ latest["status"].msg.overall # m.overall
      THEN Append(transitions, [previous |-> latest["status"].msg.overall,
                                current |-> m.overall])
      ELSE transitions

Projects(m) == Compact /\ m.kind \in Projected

(* One transaction: receipt, artifact and projection, then the ACK. *)
Commit(h) ==
    LET m == handler[h].msg
    IN  /\ At(h, "commit")
        /\ Torn \/ reader = None
        /\ receipts' = receipts \cup
              {[msg |-> m, row |-> handler[h].row, received |-> handler[h].received]}
        /\ artifacts' = [artifacts EXCEPT ![m.key] = Content(m)]
        /\ latest' = IF Projects(m) THEN LatestAfter(m) ELSE latest
        /\ filter' = IF Projects(m) THEN FilterAfter(m) ELSE filter
        /\ transitions' = IF Projects(m) THEN TransitionsAfter(m) ELSE transitions
        /\ Ack(m, handler[h].received, FALSE)
        /\ Ends(h)
        /\ UNCHANGED reader

(* A database error, a cancelled request or the death of the process.      *)
Abort(h) ==
    /\ handler[h] # None
    /\ Ends(h)
    /\ UNCHANGED <<reader, acks>> /\ UNCHANGED stored

-----------------------------------------------------------------------------
(* device_status again, statement by statement.                            *)

ReaderStarts ==
    /\ reader = None /\ Statuses # {}
    /\ reader' = [step |-> "select", instance |-> NewestInstance, highest |-> None,
                  snapshot |-> None]
    /\ UNCHANGED <<lock, handler, acks>> /\ UNCHANGED stored

ReaderSelects ==
    /\ reader # None /\ reader.step = "select"
    /\ reader' = [reader EXCEPT !.step = "fetch", !.highest = HighestStatus(reader.instance)]
    /\ UNCHANGED <<lock, handler, acks>> /\ UNCHANGED stored

ReaderFetches ==
    /\ reader # None /\ reader.step = "fetch"
    /\ reader' = [reader EXCEPT !.step = "answer", !.snapshot = Retained(reader.highest)]
    /\ UNCHANGED <<lock, handler, acks>> /\ UNCHANGED stored

ReaderAnswers ==
    /\ reader # None /\ reader.step = "answer"
    /\ reader' = None
    /\ UNCHANGED <<lock, handler, acks>> /\ UNCHANGED stored

-----------------------------------------------------------------------------
Init ==
    /\ receipts = {} /\ artifacts = [k \in Keys |-> None]
    /\ latest = [k \in Projected |-> None]
    /\ filter = None /\ transitions = <<>> /\ lock = None
    /\ handler = [h \in Handlers |-> None]
    /\ reader = None /\ acks = {}

Step(h) == Check(h) \/ Lock(h) \/ Insert(h) \/ Artifacts(h) \/ Write(h) \/ Commit(h)

Reader == ReaderStarts \/ ReaderSelects \/ ReaderFetches \/ ReaderAnswers

Next ==
    \/ \E h \in Handlers : Step(h) \/ Abort(h) \/ \E m \in Messages : Deliver(h, m)
    \/ Reader

Spec == Init /\ [][Next]_vars

(* The database answers every statement, and its locks and constraints let *)
(* each waiting request through in turn.  Devices and readers owe nothing. *)
FairSpec == Spec /\ \A h \in Handlers : SF_vars(Step(h))

-----------------------------------------------------------------------------
(* Properties.                                                             *)

(* Rows and requests have the shape of their tables and messages. *)
TypeOK ==
    /\ receipts \subseteq [msg : Messages, row : Nat \ {0}, received : Nat \ {0}]
    /\ artifacts \in [Keys -> {Content(m) : m \in Messages} \cup {None}]
    /\ latest \in [Projected -> Kept \cup {None}]
    /\ filter # None => filter.msg \in Messages
    /\ lock \in Handlers \cup {None}
    /\ handler \in [Handlers -> {None} \cup
           [step : {"check", "lock", "insert", "artifacts", "write", "commit"},
            msg : Messages, received : Nat, row : Nat, tries : 0 .. MaxTries - 1]]
    /\ acks \subseteq [msg : Messages, received : Nat, duplicate : BOOLEAN]

(* "Commit all artifacts before issuing the ACK; replay returns the        *)
(* original receipt": every acknowledgement, whatever was delivered twice  *)
(* at once, aborted or retried, names a stored receipt of exactly that     *)
(* body with its original time, and of one id only one is the original.    *)
AcksAreReceipts ==
    /\ \A a \in acks : \E r \in receipts : r.msg = a.msg /\ r.received = a.received
    /\ \A a, b \in acks : a.msg.id = b.msg.id /\ ~a.duplicate /\ ~b.duplicate => a = b

(* "Message and artifact uniqueness is the database's": ids, rows and      *)
(* times of receipt name one receipt each.                                 *)
ReceiptsAreUnique ==
    \A r, q \in receipts : r.msg.id = q.msg.id \/ r.row = q.row => r = q

(* A stored receipt has its immutable artifact stored with the content it  *)
(* was acknowledged with: no concurrent writer replaced it.                *)
ReceiptsHaveArtifacts ==
    \A r \in receipts : artifacts[r.msg.key] = Content(r.msg)

(* "STATE is chosen by generated_at": in whatever order and however often  *)
(* they arrive, the latest STATE and measurement are the newest stored.    *)
LatestIsNewest ==
    Compact => \A r \in receipts : r.msg.kind \in {"state", "measurement"} =>
                  latest[r.msg.kind] # None /\ latest[r.msg.kind].msg.gen >= r.msg.gen

(* "Another orchestrator instance empties the filter": samples are never   *)
(* kept across a restart of the orchestrator, however its statuses are     *)
(* delayed and reordered.                                                  *)
FilterOfOneInstance ==
    filter # None /\ latest["status"] # None =>
       filter.instance \in {latest["status"].msg.instance, None}

(* Each recorded change of the device's state starts from the state the    *)
(* one before ended in, and the last one ends in the state that is kept.   *)
TransitionsChain ==
    /\ \A k \in 1 .. Len(transitions) - 1 : transitions[k].current = transitions[k + 1].previous
    /\ transitions # <<>> =>
          transitions[Len(transitions)].current = latest["status"].msg.overall

(* The clocks of the devices' instances, as far as the status query needs  *)
(* them: two instances state no time alike, and where the clock of one     *)
(* steps back, it does not step back across a status of another.           *)
InstancesInTurn ==
    LET statuses == {m \in Messages : m.kind = "status"}
    IN  \A m, n \in statuses : m.instance # n.instance =>
           /\ m.gen # n.gen
           /\ \A k \in statuses : k.instance = m.instance /\ k.seq > m.seq =>
                 ~(k.gen < n.gen /\ n.gen < m.gen)

(* "Of one instance the snapshot with the highest sequence is chosen":     *)
(* a device that reported has a snapshot.                                  *)
SnapshotAnswered ==
    reader # None /\ reader.step = "answer" => reader.snapshot # None

(* Every delivery is answered. *)
DeliveriesEnd == \A h \in Handlers : handler[h] # None ~> handler[h] = None
=============================================================================

------------------------- MODULE EdgeReceiver_proofs -------------------------
(***************************************************************************)
(* Theorems about EdgeReceiver, for any number of concurrent handlers and  *)
(* any messages.                                                           *)
(***************************************************************************)
EXTENDS EdgeReceiver, LeastNumber, TLAPS

USE EdgeReceiverAssumption DEF EdgeReceiverAssumption

-----------------------------------------------------------------------------
(* The greatest of a bounded set of numbers. *)

LEMMA MaxOfBounded ==
    ASSUME NEW S \in SUBSET Nat, S # {}, NEW b \in Nat, \A x \in S : x <= b
    PROVE  Max(S) \in S /\ \A x \in S : x <= Max(S)
<1>1. PICK m \in S : \A x \in S : x <= m
  BY GreatestNat
<1> QED BY <1>1 DEF Max

-----------------------------------------------------------------------------
(* The inductive invariant. *)

Requests ==
    [step : {"check", "lock", "insert", "artifacts", "write", "commit"},
     msg : Messages, received : Nat, row : Nat, tries : 0 .. MaxTries - 1]

Acks == [msg : Messages, received : Nat, duplicate : BOOLEAN]

(* What a request has written, seen from what is committed. *)
RequestOK(x) ==
    x # None =>
       /\ x.step \in {"artifacts", "write", "commit"} <=> x.row # 0
       /\ x.step \in {"insert", "artifacts", "write", "commit"} => x.received # 0
       /\ x.row # 0 => ~Known(x.msg.id) /\ \A r \in receipts : r.row # x.row
       /\ x.step = "commit" => artifacts[x.msg.key] \in {None, Content(x.msg)}

(* Uncommitted rows of two requests never collide. *)
Apart(x, y) ==
    (x # None /\ y # None) =>
       /\ (x.row # 0 /\ y.row # 0) => x.msg.id # y.msg.id /\ x.row # y.row
       /\ (x.step = "commit" /\ y.step = "commit" /\ artifacts[x.msg.key] = None) =>
             x.msg.key # y.msg.key

RequestsOK ==
    /\ \A h \in Handlers : RequestOK(handler[h])
    /\ \A g, h \in Handlers : g # h => Apart(handler[g], handler[h])

(* What is in sight has a greatest row id and time of receipt. *)
InSight(b) ==
    /\ \A r \in receipts : r.row <= b /\ r.received <= b
    /\ \A h \in Handlers : handler[h] # None => handler[h].row <= b /\ handler[h].received <= b

Bounded == \E b \in Nat : InSight(b)

(* The projections of compact storage. *)
ByTime == {"state", "measurement"}

GenIsTime ==
    \A k \in ByTime : latest[k] # None => latest[k].gen = latest[k].msg.gen

Changes == [previous : {"usable", "down"}, current : {"usable", "down"}]

TransitionsOK ==
    /\ transitions \in Seq(Changes)
    /\ transitions # <<>> => latest["status"] # None

Projections ==
    GenIsTime /\ LatestIsNewest /\ FilterOfOneInstance /\ TransitionsOK /\ TransitionsChain

RInv ==
    /\ TypeOK /\ RequestsOK /\ Bounded
    /\ ReceiptsAreUnique /\ ReceiptsHaveArtifacts /\ AcksAreReceipts
    /\ Projections

LEMMA Initially == Init => RInv
<1> SUFFICES ASSUME Init PROVE RInv
  OBVIOUS
<1>1. TypeOK
  BY DEF Init, TypeOK
<1>2. RequestsOK
  BY DEF Init, RequestsOK, RequestOK, Apart
<1>3. Bounded
  <2>1. InSight(0)
    BY DEF Init, InSight
  <2> QED
    BY <2>1 DEF Bounded
<1>4. ReceiptsAreUnique /\ ReceiptsHaveArtifacts /\ AcksAreReceipts
  BY DEF Init, ReceiptsAreUnique, ReceiptsHaveArtifacts, AcksAreReceipts
<1>5. Projections
  BY DEF Init, Projections, GenIsTime, LatestIsNewest, FilterOfOneInstance, TransitionsOK,
         TransitionsChain, ByTime, Projected, Kinds
<1> QED
  BY <1>1, <1>2, <1>3, <1>4, <1>5 DEF RInv

-----------------------------------------------------------------------------
(* Row ids and times of receipt. *)

LEMMA FreshRow ==
    ASSUME TypeOK, Bounded
    PROVE  /\ NextRow \in Nat \ {0}
           /\ \A r \in receipts : r.row < NextRow
           /\ \A h \in Handlers : handler[h] # None => handler[h].row < NextRow
<1> DEFINE S == {0} \cup {r.row : r \in receipts} \cup {handler[h].row : h \in Busy}
<1>1. PICK b \in Nat : InSight(b)
  BY DEF Bounded
<1>2. S \in SUBSET Nat /\ \A x \in S : x <= b
  BY <1>1 DEF TypeOK, Busy, InSight
<1>3. Max(S) \in S /\ \A x \in S : x <= Max(S)
  BY <1>2, MaxOfBounded
<1>4. NextRow = 1 + Max(S) /\ Max(S) \in Nat
  BY <1>2, <1>3 DEF NextRow
<1>5. /\ \A r \in receipts : r.row \in S
      /\ \A h \in Handlers : handler[h] # None => handler[h].row \in S
  BY DEF Busy
<1> HIDE DEF S
<1>6. \A x \in S : x < NextRow
  BY <1>2, <1>3, <1>4
<1> QED
  BY <1>4, <1>5, <1>6

LEMMA FreshStamp ==
    ASSUME TypeOK, Bounded
    PROVE  NextStamp \in Nat \ {0}
<1> DEFINE S == {0} \cup {r.received : r \in receipts} \cup {handler[h].received : h \in Busy}
<1>1. PICK b \in Nat : InSight(b)
  BY DEF Bounded
<1>2. S \in SUBSET Nat /\ \A x \in S : x <= b
  BY <1>1 DEF TypeOK, Busy, InSight
<1>3. Max(S) \in S
  BY <1>2, MaxOfBounded
<1> QED
  BY <1>2, <1>3 DEF NextStamp

-----------------------------------------------------------------------------
(* Steps that commit nothing: one request goes on to x. *)

LEMMA OneRequest ==
    ASSUME RInv, UNCHANGED stored, NEW h \in Handlers, NEW x \in Requests \cup {None},
           handler' = [handler EXCEPT ![h] = x],
           RequestOK(x), \A g \in Handlers \ {h} : Apart(handler[g], x) /\ Apart(x, handler[g]),
           lock' \in Handlers \cup {None}, acks' \subseteq Acks, AcksAreReceipts'
    PROVE  RInv'
<1>1. TypeOK /\ RequestsOK /\ Bounded
  BY DEF RInv
<1>2. \A g \in Handlers : handler'[g] = IF g = h THEN x ELSE handler[g]
  BY <1>1 DEF TypeOK
<1>3. TypeOK'
  BY <1>1 DEF TypeOK, stored, Requests, Acks
<1>4. RequestsOK'
  <2>1. ASSUME NEW g \in Handlers PROVE RequestOK(handler[g])'
    BY <1>1, <1>2, <2>1 DEF RequestsOK, RequestOK, stored, Known
  <2>2. ASSUME NEW f \in Handlers, NEW g \in Handlers, f # g
        PROVE  Apart(handler[f], handler[g])'
    BY <1>1, <1>2, <2>2 DEF RequestsOK, Apart, stored
  <2> QED
    BY <2>1, <2>2 DEF RequestsOK
<1>5. Bounded'
  <2>1. PICK b \in Nat : InSight(b)
    BY <1>1 DEF Bounded
  <2> DEFINE c == IF x = None THEN b ELSE b + x.row + x.received
  <2>2. c \in Nat /\ b <= c /\ (x # None => x.row <= c /\ x.received <= c)
    BY DEF Requests
  <2> HIDE DEF c
  <2>3. InSight(c)'
    <3>1. ASSUME NEW r \in receipts PROVE r.row <= c /\ r.received <= c
      <4>1. r.row \in Nat /\ r.received \in Nat
        BY <1>1 DEF TypeOK
      <4> QED
        BY <2>1, <2>2, <4>1 DEF InSight
    <3>2. ASSUME NEW g \in Handlers, handler'[g] # None
          PROVE  handler'[g].row <= c /\ handler'[g].received <= c
      <4>1. CASE g = h
        BY <1>2, <2>2, <3>2, <4>1
      <4>2. CASE g # h
        <5>1. handler[g] \in Requests
          BY <1>1, <1>2, <3>2, <4>2 DEF TypeOK, Requests
        <5>2. handler[g].row \in Nat /\ handler[g].received \in Nat
          BY <5>1 DEF Requests
        <5> QED
          BY <1>2, <2>1, <2>2, <3>2, <4>2, <5>2 DEF InSight
      <4> QED
        BY <4>1, <4>2
    <3> QED
      BY <3>1, <3>2 DEF InSight, stored
  <2> QED
    BY <2>2, <2>3 DEF Bounded
<1>6. ReceiptsAreUnique' /\ ReceiptsHaveArtifacts' /\ Projections'
  BY DEF RInv, stored, ReceiptsAreUnique, ReceiptsHaveArtifacts, Projections,
         GenIsTime, LatestIsNewest, FilterOfOneInstance, TransitionsOK, TransitionsChain
<1> QED
  BY <1>3, <1>4, <1>5, <1>6 DEF RInv

(* No receipt and no acknowledgement is new. *)
LEMMA SameAcks ==
    ASSUME RInv, UNCHANGED stored, acks' = acks
    PROVE  acks' \subseteq Acks /\ AcksAreReceipts'
BY DEF RInv, TypeOK, Acks, AcksAreReceipts, stored

LEMMA GoesOn ==
    ASSUME RInv, UNCHANGED stored, NEW h \in Handlers, NEW x \in Requests \cup {None},
           handler' = [handler EXCEPT ![h] = x],
           RequestOK(x), \A g \in Handlers \ {h} : Apart(handler[g], x) /\ Apart(x, handler[g]),
           lock' \in Handlers \cup {None}, acks' = acks
    PROVE  RInv'
BY SameAcks, OneRequest

LEMMA NoRequest ==
    \A g \in Handlers : RequestOK(None) /\ Apart(handler[g], None) /\ Apart(None, handler[g])
BY DEF RequestOK, Apart

LEMMA EndsInv ==
    ASSUME RInv, UNCHANGED stored, NEW h \in Handlers, Ends(h), acks' = acks
    PROVE  RInv'
<1>1. lock' \in Handlers \cup {None}
  BY DEF RInv, TypeOK, Ends
<1> QED
  BY <1>1, NoRequest, GoesOn DEF Ends

(* A known id is answered with the receipt it has. *)
LEMMA ReplayInv ==
    ASSUME RInv, UNCHANGED stored, NEW h \in Handlers, NEW m \in Messages,
           Known(m.id), Replay(h, m)
    PROVE  RInv'
<1> DEFINE r == ReceiptOf(m.id)
<1>1. r \in receipts /\ r.msg.id = m.id
  BY DEF Known, ReceiptOf
<1>2. r.received \in Nat
  BY <1>1 DEF RInv, TypeOK
<1> HIDE DEF r
<1>3. CASE UNCHANGED acks
  BY <1>3, EndsInv DEF Replay
<1>4. CASE r.msg = m /\ Ack(m, r.received, TRUE)
  <2> DEFINE a == [msg |-> m, received |-> r.received, duplicate |-> TRUE]
  <2>1. acks' = acks \cup {a} /\ a \in Acks
    BY <1>2, <1>4 DEF Ack, Acks
  <2>2. a.msg = m /\ a.received = r.received /\ a.duplicate
    OBVIOUS
  <2> HIDE DEF a
  <2>3. acks' \subseteq Acks
    BY <2>1 DEF RInv, TypeOK, Acks
  <2>4. AcksAreReceipts'
    BY <1>1, <1>4, <2>1, <2>2 DEF RInv, AcksAreReceipts, stored
  <2>5. lock' \in Handlers \cup {None}
    BY DEF RInv, TypeOK, Replay, Ends
  <2> QED
    BY <2>3, <2>4, <2>5, NoRequest, OneRequest DEF Replay, Ends
<1> QED
  BY <1>3, <1>4 DEF Replay, r

-----------------------------------------------------------------------------
(* The requests up to their commit. *)

LEMMA DeliverInv ==
    ASSUME RInv, NEW h \in Handlers, NEW m \in Messages, Deliver(h, m)
    PROVE  RInv'
<1> DEFINE x == [step |-> "check", msg |-> m, received |-> 0, row |-> 0, tries |-> 0]
<1>1. x \in Requests
  BY DEF Requests
<1>2. RequestOK(x) /\ \A g \in Handlers : Apart(handler[g], x) /\ Apart(x, handler[g])
  BY DEF RequestOK, Apart
<1>3. handler' = [handler EXCEPT ![h] = x] /\ UNCHANGED stored /\ acks' = acks
  BY DEF Deliver
<1>4. lock' \in Handlers \cup {None}
  BY DEF RInv, TypeOK, Deliver
<1> HIDE DEF x
<1> QED
  BY <1>1, <1>2, <1>3, <1>4, GoesOn

(* A request in progress that reaches a step without writing. *)
LEMMA GotoInv ==
    ASSUME RInv, UNCHANGED stored, NEW h \in Handlers, handler[h] # None, NEW step,
           step \in {"lock", "insert", "artifacts", "write", "commit"},
           Goto(h, step), lock' \in Handlers \cup {None}, acks' = acks,
           step \in {"artifacts", "write", "commit"} <=> handler[h].row # 0,
           step \in {"insert", "artifacts", "write", "commit"} => handler[h].received # 0,
           step = "commit" => /\ artifacts[handler[h].msg.key] \in {None, Content(handler[h].msg)}
                              /\ artifacts[handler[h].msg.key] = None =>
                                    \A g \in Handlers \ {h} :
                                       ~(WroteKey(g) /\ handler[g].msg.key = handler[h].msg.key)
    PROVE  RInv'
<1> DEFINE x == [handler[h] EXCEPT !.step = step]
<1>1. TypeOK /\ RequestsOK
  BY DEF RInv
<1>2. handler[h] \in Requests
  BY <1>1 DEF TypeOK, Requests
<1>3. x \in Requests
  BY <1>2 DEF Requests
<1>4. /\ x.step = step /\ x.msg = handler[h].msg /\ x.row = handler[h].row
      /\ x.received = handler[h].received
  BY <1>2 DEF Requests
<1>5. handler' = [handler EXCEPT ![h] = x]
  BY <1>1, <1>2 DEF Goto, TypeOK, Requests
<1> HIDE DEF x
<1>6. RequestOK(x)
  BY <1>1, <1>4 DEF RequestsOK, RequestOK
<1>7. ASSUME NEW g \in Handlers \ {h} PROVE Apart(handler[g], x) /\ Apart(x, handler[g])
  BY <1>1, <1>4 DEF RequestsOK, Apart, WroteKey, At
<1> QED
  BY <1>3, <1>5, <1>6, <1>7, GoesOn

LEMMA CheckInv ==
    ASSUME RInv, NEW h \in Handlers, Check(h)
    PROVE  RInv'
<1>1. TypeOK /\ RequestsOK /\ handler[h] # None /\ handler[h].step = "check" /\ UNCHANGED stored
  BY DEF RInv, Check, At
<1>2. handler[h].msg \in Messages
  BY <1>1 DEF TypeOK
<1>3. CASE Known(handler[h].msg.id)
  BY <1>1, <1>2, <1>3, ReplayInv DEF Check
<1>4. CASE ~Known(handler[h].msg.id)
  <2>1. Goto(h, "lock") /\ lock' = lock /\ acks' = acks
    BY <1>4 DEF Check
  <2>2. handler[h].row = 0
    BY <1>1 DEF RequestsOK, RequestOK
  <2>3. lock' \in Handlers \cup {None}
    BY <1>1, <2>1 DEF TypeOK
  <2> QED
    BY <1>1, <2>1, <2>2, <2>3, GotoInv
<1> QED
  BY <1>3, <1>4

LEMMA LockInv ==
    ASSUME RInv, NEW h \in Handlers, Lock(h)
    PROVE  RInv'
<1> DEFINE n == NextStamp
           x == [handler[h] EXCEPT !.step = "insert", !.received = n]
<1>1. TypeOK /\ RequestsOK /\ handler[h] # None /\ handler[h].step = "lock" /\ UNCHANGED stored
  BY DEF RInv, Lock, At
<1>2. n \in Nat \ {0}
  BY FreshStamp DEF RInv
<1>3. handler' = [handler EXCEPT ![h].step = "insert", ![h].received = n] /\ acks' = acks
  BY DEF Lock
<1> HIDE DEF n
<1>4. handler[h] \in Requests
  BY <1>1 DEF TypeOK, Requests
<1>5. x \in Requests
  BY <1>2, <1>4 DEF Requests
<1>6. /\ x.step = "insert" /\ x.msg = handler[h].msg /\ x.row = handler[h].row
      /\ x.received = n
  BY <1>4 DEF Requests
<1>7. handler' = [handler EXCEPT ![h] = x]
  BY <1>1, <1>3, <1>4 DEF TypeOK, Requests
<1>8. lock' \in Handlers \cup {None}
  BY <1>1 DEF Lock, TypeOK
<1> HIDE DEF x
<1>9. RequestOK(x)
  BY <1>1, <1>2, <1>6 DEF RequestsOK, RequestOK
<1>10. ASSUME NEW g \in Handlers \ {h} PROVE Apart(handler[g], x) /\ Apart(x, handler[g])
  BY <1>1, <1>6 DEF RequestsOK, Apart
<1> QED
  BY <1>1, <1>3, <1>5, <1>7, <1>8, <1>9, <1>10, GoesOn

LEMMA InsertInv ==
    ASSUME RInv, NEW h \in Handlers, Insert(h)
    PROVE  RInv'
<1> DEFINE n == NextRow
           x == [handler[h] EXCEPT !.step = "artifacts", !.row = n]
<1>1. TypeOK /\ RequestsOK /\ handler[h] # None /\ handler[h].step = "insert" /\ UNCHANGED stored
  BY DEF RInv, Insert, At
<1>2. handler[h] \in Requests
  BY <1>1 DEF TypeOK, Requests
<1>3. CASE Known(handler[h].msg.id)
  <2>1. handler[h].msg \in Messages /\ Replay(h, handler[h].msg)
    BY <1>2, <1>3 DEF Insert, Requests
  <2> QED
    BY <1>1, <1>3, <2>1, ReplayInv
<1>4. CASE ~Known(handler[h].msg.id)
  <2>1. /\ n \in Nat \ {0}
        /\ \A r \in receipts : r.row < n
        /\ \A g \in Handlers : handler[g] # None => handler[g].row < n
    BY FreshRow DEF RInv
  <2>2. /\ handler' = [handler EXCEPT ![h].step = "artifacts", ![h].row = n]
        /\ acks' = acks /\ lock' = lock
        /\ \A g \in Handlers \ {h} : ~(Inserted(g) /\ handler[g].msg.id = handler[h].msg.id)
    BY <1>4 DEF Insert
  <2> HIDE DEF n
  <2>3. x \in Requests
    BY <1>2, <2>1 DEF Requests
  <2>4. /\ x.step = "artifacts" /\ x.msg = handler[h].msg /\ x.row = n
        /\ x.received = handler[h].received
    BY <1>2 DEF Requests
  <2>5. handler' = [handler EXCEPT ![h] = x]
    BY <1>1, <1>2, <2>2 DEF TypeOK, Requests
  <2> HIDE DEF x
  <2>6. \A r \in receipts : r.row # n
    BY <1>1, <2>1 DEF TypeOK
  <2>7. RequestOK(x)
    BY <1>1, <1>4, <2>1, <2>4, <2>6 DEF RequestsOK, RequestOK
  <2>8. ASSUME NEW g \in Handlers \ {h} PROVE Apart(handler[g], x) /\ Apart(x, handler[g])
    <3>1. handler[g] # None => handler[g].row # n
      <4>1. handler[g] # None => handler[g].row \in Nat
        BY <1>1 DEF TypeOK
      <4> QED
        BY <2>1, <4>1
    <3> QED
      BY <2>2, <2>4, <3>1 DEF Apart, Inserted
  <2>9. lock' \in Handlers \cup {None}
    BY <1>1, <2>2 DEF TypeOK
  <2> QED
    BY <1>1, <2>2, <2>3, <2>5, <2>7, <2>8, <2>9, GoesOn
<1> QED
  BY <1>3, <1>4

LEMMA ArtifactsInv ==
    ASSUME RInv, NEW h \in Handlers, Artifacts(h)
    PROVE  RInv'
<1> DEFINE m == handler[h].msg
<1>1. /\ TypeOK /\ RequestsOK /\ handler[h] # None /\ handler[h].step = "artifacts"
      /\ UNCHANGED stored /\ acks' = acks
  BY DEF RInv, Artifacts, At
<1>2. handler[h] \in Requests
  BY <1>1 DEF TypeOK, Requests
<1>3. handler[h].row # 0 /\ handler[h].received # 0
  BY <1>1 DEF RequestsOK, RequestOK
<1>4. Content(m) # None
  BY <1>2 DEF Requests
<1>5. CASE artifacts[m.key] = None
  <2>1. Goto(h, "write") /\ lock' \in Handlers \cup {None}
    BY <1>1, <1>5 DEF Artifacts, TypeOK
  <2> QED
    BY <1>1, <1>3, <2>1, GotoInv
<1>6. CASE artifacts[m.key] = Content(m)
  <2>1. Goto(h, "commit") /\ lock' \in Handlers \cup {None}
    BY <1>1, <1>4, <1>6 DEF Artifacts, TypeOK
  <2> QED
    BY <1>1, <1>3, <1>4, <1>6, <2>1, GotoInv
<1>7. CASE artifacts[m.key] \notin {None, Content(m)}
  BY <1>1, <1>7, EndsInv DEF Artifacts
<1> QED
  BY <1>5, <1>6, <1>7

LEMMA WriteInv ==
    ASSUME RInv, NEW h \in Handlers, Write(h)
    PROVE  RInv'
<1> DEFINE m == handler[h].msg
           n == handler[h].tries + 1
           x == [handler[h] EXCEPT !.step = "artifacts", !.tries = n]
<1>1. /\ TypeOK /\ RequestsOK /\ handler[h] # None /\ handler[h].step = "write"
      /\ UNCHANGED stored /\ acks' = acks
  BY DEF RInv, Write, At
<1>2. handler[h] \in Requests
  BY <1>1 DEF TypeOK, Requests
<1>3. handler[h].row # 0 /\ handler[h].received # 0
  BY <1>1 DEF RequestsOK, RequestOK
<1>4. CASE artifacts[m.key] = None
  <2>1. Goto(h, "commit") /\ lock' \in Handlers \cup {None}
    BY <1>1, <1>4 DEF Write, TypeOK
  <2>2. \A g \in Handlers \ {h} : ~(WroteKey(g) /\ handler[g].msg.key = m.key)
    BY DEF Write
  <2> QED
    BY <1>1, <1>3, <1>4, <2>1, <2>2, GotoInv
<1>5. CASE artifacts[m.key] # None /\ handler[h].tries + 1 < MaxTries
  <2>1. handler' = [handler EXCEPT ![h].step = "artifacts", ![h].tries = n] /\ lock' = lock
    BY <1>1, <1>2, <1>5 DEF Write, TypeOK
  <2>2. n \in 0 .. MaxTries - 1
    BY <1>2, <1>5 DEF Requests
  <2> HIDE DEF n
  <2>8. x \in Requests
    BY <1>2, <2>2 DEF Requests
  <2>3. /\ x.step = "artifacts" /\ x.msg = handler[h].msg /\ x.row = handler[h].row
        /\ x.received = handler[h].received
    BY <1>2 DEF Requests
  <2>4. handler' = [handler EXCEPT ![h] = x]
    BY <1>1, <1>2, <2>1 DEF TypeOK, Requests
  <2> HIDE DEF x
  <2>5. RequestOK(x)
    BY <1>1, <1>3, <2>3 DEF RequestsOK, RequestOK
  <2>6. ASSUME NEW g \in Handlers \ {h} PROVE Apart(handler[g], x) /\ Apart(x, handler[g])
    BY <1>1, <2>3 DEF RequestsOK, Apart
  <2>7. lock' \in Handlers \cup {None}
    BY <1>1, <2>1 DEF TypeOK
  <2> QED
    BY <1>1, <2>8, <2>4, <2>5, <2>6, <2>7, GoesOn
<1>6. CASE artifacts[m.key] # None /\ ~(handler[h].tries + 1 < MaxTries)
  BY <1>1, <1>6, EndsInv DEF Write
<1> QED
  BY <1>4, <1>5, <1>6

LEMMA AbortInv ==
    ASSUME RInv, NEW h \in Handlers, Abort(h)
    PROVE  RInv'
BY EndsInv DEF Abort

(* A reader writes nothing. *)
LEMMA ReaderInv ==
    ASSUME RInv, Reader \/ UNCHANGED vars
    PROVE  RInv'
<1>1. UNCHANGED <<lock, handler, acks>> /\ UNCHANGED stored
  BY DEF Reader, ReaderStarts, ReaderSelects, ReaderFetches, ReaderAnswers, vars, stored
<1>2. TypeOK' /\ ReceiptsAreUnique' /\ ReceiptsHaveArtifacts' /\ AcksAreReceipts'
  BY <1>1 DEF RInv, stored, TypeOK, ReceiptsAreUnique, ReceiptsHaveArtifacts, AcksAreReceipts
<1>3. RequestsOK' /\ Bounded'
  BY <1>1 DEF RInv, stored, RequestsOK, RequestOK, Apart, Known, Bounded, InSight
<1>4. Projections'
  BY <1>1 DEF RInv, stored, Projections, GenIsTime, LatestIsNewest, FilterOfOneInstance,
              TransitionsOK, TransitionsChain
<1> QED
  BY <1>2, <1>3, <1>4 DEF RInv

-----------------------------------------------------------------------------
(* The projection a commit writes. *)

LEMMA ProjectedKinds ==
    /\ Projected = {"measurement", "state", "status"}
    /\ \A m \in Messages : m.kind \in Projected => m.kind \in ByTime \/ m.kind = "status"
BY DEF Projected, Kinds, ByTime

(* What is kept of the kind after m, and of the other kinds. *)
LEMMA LatestCases ==
    ASSUME RInv, NEW m \in Messages, m.kind \in Projected, latest' = LatestAfter(m)
    PROVE  /\ latest' \in [Projected -> Kept \cup {None}]
           /\ \A j \in Projected \ {m.kind} : latest'[j] = latest[j]
           /\ latest'[m.kind] # None
           /\ Replaces(m) => /\ latest'[m.kind].msg = m
                             /\ m.kind \in ByTime => latest'[m.kind].gen = m.gen
           /\ ~Replaces(m) => /\ latest[m.kind] # None
                              /\ latest'[m.kind].msg = latest[m.kind].msg
                              /\ m.kind \in ByTime => latest'[m.kind] = latest[m.kind]
<1> DEFINE k == m.kind
           old == latest[k]
           g == IF old = None THEN m.gen ELSE Greater(old.gen, m.gen)
           new == [msg |-> m, gen |-> g]
<1>1. latest \in [Projected -> Kept \cup {None}] /\ m.gen \in Nat
  BY DEF RInv, TypeOK
<1>2. old \in Kept \cup {None}
  BY <1>1
<1>3. old # None => old.gen \in Nat
  BY <1>2 DEF Kept
<1>4. g \in Nat
  BY <1>1, <1>3 DEF Greater
<1>5. CASE Replaces(m)
  <2>1. latest' = [latest EXCEPT ![k] = new]
    BY <1>5 DEF LatestAfter
  <2>2. new \in Kept /\ new.msg = m /\ new.gen = g
    BY <1>4 DEF Kept
  <2>3. k \in ByTime => g = m.gen
    BY <1>1, <1>3, <1>5 DEF Replaces, SameInstance, NewerThanLatest, Greater, ByTime
  <2> HIDE DEF new, g
  <2>4. new # None
    BY <2>2
  <2> QED
    BY <1>1, <1>5, <2>1, <2>2, <2>3, <2>4
<1>6. CASE ~Replaces(m)
  <2>1. old # None
    BY <1>6 DEF Replaces, SameInstance, NewerThanLatest
  <2>2. CASE SameInstance(m) /\ NewerThanLatest(m)
    <3> DEFINE new2 == [old EXCEPT !.gen = m.gen]
    <3>1. old \in Kept
      BY <1>2, <2>1
    <3>2. latest' = [latest EXCEPT ![k] = new2]
      BY <1>1, <1>6, <2>2, <3>1 DEF LatestAfter, Kept
    <3>3. new2 \in Kept /\ new2.msg = old.msg
      BY <1>1, <3>1 DEF Kept
    <3>4. k \notin ByTime
      BY <2>2 DEF SameInstance, ByTime
    <3> HIDE DEF new2
    <3>5. new2 # None
      BY <3>3
    <3> QED
      BY <1>1, <1>6, <2>1, <3>2, <3>3, <3>4, <3>5
  <2>3. CASE ~(SameInstance(m) /\ NewerThanLatest(m))
    <3>1. latest' = latest
      BY <1>6, <2>3 DEF LatestAfter
    <3> QED
      BY <1>1, <1>6, <2>1, <3>1
  <2> QED
    BY <2>2, <2>3
<1> QED
  BY <1>5, <1>6

(* A snapshot that can be read in compact storage is of the instance kept. *)
LEMMA SnapshotKept ==
    ASSUME Compact
    PROVE  Snapshot = None \/ (latest["status"] # None /\ Snapshot = latest["status"].msg)
BY DEF Snapshot, Retained

LEMMA ProjectionInv ==
    ASSUME RInv, NEW h \in Handlers, Commit(h)
    PROVE  /\ Projections'
           /\ latest' \in [Projected -> Kept \cup {None}]
           /\ filter' # None => filter'.msg \in Messages
<1> DEFINE m == handler[h].msg
<1>1. /\ TypeOK /\ GenIsTime /\ LatestIsNewest /\ FilterOfOneInstance /\ TransitionsOK
      /\ TransitionsChain
  BY DEF RInv, Projections
<1>2. m \in Messages /\ m.kind \in Kinds
  BY <1>1 DEF Commit, At, TypeOK
<1>3. \A r \in receipts' : r \in receipts \/ r.msg = m
  BY DEF Commit
<1>4. CASE ~Projects(m)
  <2>1. UNCHANGED <<latest, filter, transitions>>
    BY <1>4 DEF Commit
  <2>2. LatestIsNewest'
    BY <1>1, <1>2, <1>3, <1>4, <2>1 DEF LatestIsNewest, Projects, Projected
  <2> QED
    BY <1>1, <2>1, <2>2 DEF Projections, GenIsTime, FilterOfOneInstance, TransitionsOK,
                            TransitionsChain, TypeOK
<1>5. CASE Projects(m)
  <2>1. Compact /\ m.kind \in Projected /\ m.gen \in Nat /\ m.overall \in {"usable", "down"}
    BY <1>2, <1>5 DEF Projects
  <2>2. latest' = LatestAfter(m) /\ filter' = FilterAfter(m) /\ transitions' = TransitionsAfter(m)
    BY <1>5 DEF Commit
  <2> HIDE DEF m
  <2>3. /\ latest' \in [Projected -> Kept \cup {None}]
        /\ \A j \in Projected \ {m.kind} : latest'[j] = latest[j]
        /\ latest'[m.kind] # None
        /\ Replaces(m) => /\ latest'[m.kind].msg = m
                          /\ m.kind \in ByTime => latest'[m.kind].gen = m.gen
        /\ ~Replaces(m) => /\ latest[m.kind] # None
                           /\ latest'[m.kind].msg = latest[m.kind].msg
                           /\ m.kind \in ByTime => latest'[m.kind] = latest[m.kind]
    BY <1>2, <2>1, <2>2, LatestCases
  <2>4. "status" \in Projected /\ ByTime \subseteq Projected /\ "status" \notin ByTime
    BY ProjectedKinds DEF ByTime
  <2>5. GenIsTime'
    BY <1>1, <2>3, <2>4 DEF GenIsTime
  <2>6. LatestIsNewest'
    <3>1. ASSUME NEW r \in receipts', r.msg.kind \in ByTime
          PROVE  latest'[r.msg.kind] # None /\ latest'[r.msg.kind].msg.gen >= r.msg.gen
      <4> DEFINE k == r.msg.kind
      <4>1. CASE r \in receipts /\ k # m.kind
        BY <1>1, <2>1, <2>3, <2>4, <3>1, <4>1 DEF LatestIsNewest, ByTime
      <4>2. CASE k = m.kind /\ ~Replaces(m)
        <5>1. latest'[k] = latest[k] /\ latest[k] # None /\ latest[k].gen = latest[k].msg.gen
          BY <1>1, <2>3, <3>1, <4>2 DEF GenIsTime
        <5>2. CASE r \in receipts
          BY <1>1, <2>1, <3>1, <5>1, <5>2 DEF LatestIsNewest, ByTime
        <5>3. CASE r.msg = m
          <6>1. ~(m.gen > latest[k].gen)
            BY <3>1, <4>2 DEF Replaces, SameInstance, NewerThanLatest, ByTime
          <6>2. latest[k] \in Kept
            BY <1>1, <2>4, <3>1, <5>1 DEF TypeOK
          <6>3. latest[k].gen \in Nat
            BY <6>2 DEF Kept
          <6> QED
            BY <2>1, <5>1, <5>3, <6>1, <6>3
        <5> QED
          BY <1>3, <5>2, <5>3
      <4>3. CASE k = m.kind /\ Replaces(m)
        <5>1. latest'[k].msg = m /\ latest'[k] # None
          BY <2>3, <4>3
        <5>2. CASE r \in receipts
          <6>1. latest[k] # None /\ latest[k].msg.gen >= r.msg.gen /\ latest[k].gen = latest[k].msg.gen
            BY <1>1, <2>1, <3>1, <5>2 DEF LatestIsNewest, GenIsTime, ByTime
          <6>2. m.gen > latest[k].gen
            BY <3>1, <4>3, <6>1 DEF Replaces, SameInstance, NewerThanLatest, ByTime
          <6>3. latest[k] \in Kept /\ r.msg \in Messages
            BY <1>1, <2>4, <3>1, <5>2, <6>1 DEF TypeOK
          <6>4. latest[k].gen \in Nat /\ r.msg.gen \in Nat
            BY <6>3 DEF Kept
          <6> QED
            BY <2>1, <5>1, <6>1, <6>2, <6>4
        <5>3. CASE r.msg = m
          BY <2>1, <5>1, <5>3
        <5> QED
          BY <1>3, <5>2, <5>3
      <4> QED
        BY <1>3, <4>1, <4>2, <4>3
    <3> QED
      BY <3>1 DEF LatestIsNewest, ByTime
  <2>7. FilterOfOneInstance' /\ (filter' # None => filter'.msg \in Messages)
    <3>1. CASE ~Replaces(m)
      <4>1. filter' = filter
        BY <2>2, <3>1 DEF FilterAfter
      <4>2. latest'["status"] # None => /\ latest["status"] # None
                                        /\ latest'["status"].msg = latest["status"].msg
        BY <2>3, <2>4, <3>1
      <4> QED
        BY <1>1, <4>1, <4>2 DEF FilterOfOneInstance, TypeOK
    <3>2. CASE Replaces(m) /\ m.kind = "status"
      <4>1. CASE ~SameInstance(m) \/ m.overall # "usable"
        <5>1. filter' = None
          BY <2>2, <3>2, <4>1 DEF FilterAfter
        <5> QED
          BY <5>1 DEF FilterOfOneInstance
      <4>2. CASE SameInstance(m) /\ m.overall = "usable"
        <5>1. filter' = filter
          BY <2>2, <3>2, <4>2 DEF FilterAfter
        <5>2. latest["status"] # None /\ latest["status"].msg.instance = m.instance
          BY <4>2 DEF SameInstance
        <5>3. latest'["status"].msg = m
          BY <2>3, <3>2
        <5> QED
          BY <1>1, <5>1, <5>2, <5>3 DEF FilterOfOneInstance, TypeOK
      <4> QED
        BY <4>1, <4>2
    <3>3. CASE Replaces(m) /\ m.kind = "state"
      <4>1. filter' = [msg |-> m, instance |-> IF Snapshot = None THEN None ELSE Snapshot.instance]
        BY <2>2, <3>3 DEF FilterAfter
      <4>2. latest'["status"] = latest["status"]
        BY <2>3, <2>4, <3>3
      <4>3. filter'.msg = m /\ filter'.instance = IF Snapshot = None THEN None ELSE Snapshot.instance
        BY <4>1
      <4>4. Snapshot = None \/ (latest["status"] # None /\ Snapshot = latest["status"].msg)
        BY <2>1, SnapshotKept
      <4> QED
        BY <1>2, <4>2, <4>3, <4>4 DEF FilterOfOneInstance, m
    <3>4. CASE Replaces(m) /\ m.kind = "measurement"
      <4>1. filter' = filter /\ latest'["status"] = latest["status"]
        BY <2>2, <2>3, <2>4, <3>4 DEF FilterAfter
      <4> QED
        BY <1>1, <4>1 DEF FilterOfOneInstance, TypeOK
    <3> QED
      BY <2>1, <3>1, <3>2, <3>3, <3>4 DEF Projected, Kinds
  <2>8. TransitionsOK' /\ TransitionsChain'
    <3> DEFINE old == latest["status"]
    <3>1. old # None => old.msg.overall \in {"usable", "down"}
      <4>1. old # None => old \in Kept
        BY <1>1, <2>4 DEF TypeOK
      <4> QED
        BY <4>1 DEF Kept
    <3>2. latest'["status"] # None \/ latest["status"] = None
      BY <2>3, <2>4
    <3>3. CASE m.kind = "status" /\ Replaces(m) /\ old # None /\ old.msg.overall # m.overall
      <4> DEFINE c == [previous |-> old.msg.overall, current |-> m.overall]
      <4>1. transitions' = Append(transitions, c)
        BY <2>2, <3>3 DEF TransitionsAfter
      <4>2. c \in Changes /\ c.previous = old.msg.overall /\ c.current = m.overall
        BY <2>1, <3>1, <3>3 DEF Changes
      <4>3. latest'["status"] # None /\ latest'["status"].msg = m
        BY <2>3, <3>3
      <4> HIDE DEF c
      <4>4. transitions \in Seq(Changes)
        BY <1>1 DEF TransitionsOK
      <4>5. /\ transitions' \in Seq(Changes) /\ Len(transitions') = Len(transitions) + 1
            /\ \A j \in 1 .. Len(transitions) : transitions'[j] = transitions[j]
            /\ transitions'[Len(transitions) + 1] = c
        BY <4>1, <4>2, <4>4
      <4>6. TransitionsOK'
        BY <4>3, <4>5 DEF TransitionsOK
      <4>7. ASSUME NEW j \in 1 .. Len(transitions') - 1
            PROVE  transitions'[j].current = transitions'[j + 1].previous
        <5>1. CASE j < Len(transitions)
          <6>1. j \in 1 .. Len(transitions) - 1 /\ j \in 1 .. Len(transitions)
                /\ j + 1 \in 1 .. Len(transitions)
            BY <4>4, <4>5, <4>7, <5>1
          <6> QED
            BY <1>1, <4>5, <6>1 DEF TransitionsChain
        <5>2. CASE j = Len(transitions)
          <6>1. transitions # <<>> /\ j \in 1 .. Len(transitions)
            BY <4>4, <4>7, <5>2
          <6> QED
            BY <1>1, <4>2, <4>5, <5>2, <6>1 DEF TransitionsChain
        <5> QED
          BY <4>4, <4>5, <4>7, <5>1, <5>2
      <4>8. transitions'[Len(transitions')].current = latest'["status"].msg.overall
        BY <4>2, <4>3, <4>5
      <4> QED
        BY <4>6, <4>7, <4>8 DEF TransitionsChain
    <3>4. CASE ~(m.kind = "status" /\ Replaces(m) /\ old # None /\ old.msg.overall # m.overall)
      <4>1. transitions' = transitions
        BY <2>2, <3>4 DEF TransitionsAfter
      <4>2. transitions # <<>> => latest'["status"].msg.overall = latest["status"].msg.overall
        BY <1>1, <2>3, <2>4, <3>4 DEF TransitionsOK
      <4> QED
        BY <1>1, <3>2, <4>1, <4>2 DEF TransitionsOK, TransitionsChain
    <3> QED
      BY <3>3, <3>4
  <2> QED
    BY <2>3, <2>5, <2>6, <2>7, <2>8 DEF Projections
<1> QED
  BY <1>4, <1>5

-----------------------------------------------------------------------------
(* The commit. *)

LEMMA CommitInv ==
    ASSUME RInv, NEW h \in Handlers, Commit(h)
    PROVE  RInv'
<1> DEFINE m == handler[h].msg
           r == [msg |-> m, row |-> handler[h].row, received |-> handler[h].received]
           a == [msg |-> m, received |-> handler[h].received, duplicate |-> FALSE]
<1>1. /\ TypeOK /\ RequestsOK /\ ReceiptsAreUnique /\ ReceiptsHaveArtifacts /\ AcksAreReceipts
      /\ handler[h] # None /\ handler[h].step = "commit"
  BY DEF RInv, Commit, At
<1>2. handler[h] \in Requests
  BY <1>1 DEF TypeOK, Requests
<1>3. m \in Messages /\ handler[h].received \in Nat \ {0} /\ handler[h].row \in Nat \ {0}
  BY <1>1, <1>2 DEF Requests, RequestsOK, RequestOK
<1>4. /\ receipts' = receipts \cup {r} /\ acks' = acks \cup {a}
      /\ artifacts' = [artifacts EXCEPT ![m.key] = Content(m)]
      /\ handler' = [handler EXCEPT ![h] = None]
      /\ lock' \in Handlers \cup {None}
  BY <1>1 DEF Commit, Ack, Ends, TypeOK
<1>5. /\ r \in [msg : Messages, row : Nat \ {0}, received : Nat \ {0}]
      /\ r.msg = m /\ r.row = handler[h].row /\ r.received = handler[h].received
  BY <1>3
<1>6. a \in Acks /\ a.msg = m /\ a.received = handler[h].received /\ a.duplicate = FALSE
  BY <1>3 DEF Acks
<1>7. /\ ~Known(m.id) /\ \A q \in receipts : q.row # handler[h].row
      /\ artifacts[m.key] \in {None, Content(m)}
  BY <1>1, <1>3 DEF RequestsOK, RequestOK
<1>8. m.key \in Keys /\ Content(m) # None
  BY <1>3 DEF Keys
<1>9. \A k \in Keys : artifacts'[k] = IF k = m.key THEN Content(m) ELSE artifacts[k]
  BY <1>1, <1>4, <1>8 DEF TypeOK
<1>10. \A g \in Handlers : handler'[g] = IF g = h THEN None ELSE handler[g]
  BY <1>1, <1>4 DEF TypeOK
<1> HIDE DEF r, a
<1>11. TypeOK'
  <2>1. receipts' \subseteq [msg : Messages, row : Nat \ {0}, received : Nat \ {0}]
    BY <1>1, <1>4, <1>5 DEF TypeOK
  <2>2. artifacts' \in [Keys -> {Content(n) : n \in Messages} \cup {None}]
    BY <1>1, <1>3, <1>4 DEF TypeOK
  <2>3. handler' \in [Handlers -> {None} \cup Requests]
    BY <1>1, <1>4 DEF TypeOK, Requests
  <2>4. acks' \subseteq Acks
    BY <1>1, <1>4, <1>6 DEF TypeOK, Acks
  <2> QED
    BY <1>4, <2>1, <2>2, <2>3, <2>4, ProjectionInv DEF TypeOK, Requests, Acks
<1>12. RequestsOK'
  <2>1. ASSUME NEW g \in Handlers PROVE RequestOK(handler[g])'
    <3>1. CASE g = h
      BY <1>10, <3>1 DEF RequestOK
    <3>2. CASE g # h /\ handler[g] # None
      <4> DEFINE x == handler[g]
      <4>1. x \in Requests /\ x.msg \in Messages /\ x.msg.key \in Keys
        BY <1>1, <3>2 DEF TypeOK, Requests, Keys
      <4>2. RequestOK(x) /\ Apart(x, handler[h])
        BY <1>1, <3>2 DEF RequestsOK
      <4>3. x.row # 0 => ~Known(x.msg.id)' /\ \A q \in receipts' : q.row # x.row
        BY <1>1, <1>3, <1>4, <1>5, <3>2, <4>2 DEF RequestOK, Apart, Known
      <4>4. x.step = "commit" => artifacts'[x.msg.key] \in {None, Content(x.msg)}
        BY <1>1, <1>7, <1>8, <1>9, <3>2, <4>1, <4>2 DEF RequestOK, Apart
      <4> QED
        BY <1>10, <3>2, <4>2, <4>3, <4>4 DEF RequestOK, Known
    <3> QED
      BY <1>10, <3>1, <3>2 DEF RequestOK
  <2>2. ASSUME NEW f \in Handlers, NEW g \in Handlers, f # g
        PROVE  Apart(handler[f], handler[g])'
    <3>1. CASE f = h \/ g = h \/ handler[f] = None
      BY <1>10, <3>1 DEF Apart
    <3>2. CASE f # h /\ g # h /\ handler[f] # None
      <4>1. Apart(handler[f], handler[g]) /\ handler[f].msg.key \in Keys
        BY <1>1, <2>2, <3>2 DEF RequestsOK, TypeOK, Keys
      <4>2. artifacts'[handler[f].msg.key] = None => artifacts[handler[f].msg.key] = None
        BY <1>8, <1>9, <4>1
      <4> QED
        BY <1>10, <3>2, <4>1, <4>2 DEF Apart
    <3> QED
      BY <3>1, <3>2
  <2> QED
    BY <2>1, <2>2 DEF RequestsOK
<1>13. Bounded'
  <2>1. PICK b \in Nat : InSight(b)
    BY DEF RInv, Bounded
  <2>2. InSight(b)'
    BY <1>1, <1>4, <1>5, <1>10, <2>1 DEF InSight
  <2> QED
    BY <2>2 DEF Bounded
<1>14. ReceiptsAreUnique'
  BY <1>1, <1>4, <1>5, <1>7 DEF ReceiptsAreUnique, Known
<1>15. ReceiptsHaveArtifacts'
  <2>1. ASSUME NEW q \in receipts PROVE artifacts'[q.msg.key] = Content(q.msg)
    <3>1. q.msg \in Messages /\ q.msg.key \in Keys
      BY <1>1 DEF TypeOK, Keys
    <3>2. artifacts[q.msg.key] = Content(q.msg) /\ Content(q.msg) # None
      BY <1>1, <3>1 DEF ReceiptsHaveArtifacts
    <3> QED
      BY <1>7, <1>9, <3>1, <3>2
  <2>2. artifacts'[m.key] = Content(m)
    BY <1>8, <1>9
  <2> QED
    BY <1>4, <1>5, <2>1, <2>2 DEF ReceiptsHaveArtifacts
<1>16. AcksAreReceipts'
  <2>1. \A b \in acks' : \E q \in receipts' : q.msg = b.msg /\ q.received = b.received
    BY <1>1, <1>4, <1>5, <1>6 DEF AcksAreReceipts
  <2>2. \A b \in acks : b.msg.id # m.id
    BY <1>1, <1>7 DEF AcksAreReceipts, Known
  <2>3. \A b, c \in acks' : b.msg.id = c.msg.id /\ ~b.duplicate /\ ~c.duplicate => b = c
    BY <1>1, <1>4, <1>6, <2>2 DEF AcksAreReceipts
  <2> QED
    BY <2>1, <2>3 DEF AcksAreReceipts
<1> QED
  BY <1>11, <1>12, <1>13, <1>14, <1>15, <1>16, ProjectionInv DEF RInv

LEMMA NextInv == RInv /\ [Next]_vars => RInv'
<1> SUFFICES ASSUME RInv, [Next]_vars PROVE RInv'
  OBVIOUS
<1>1. ASSUME NEW h \in Handlers, Step(h) PROVE RInv'
  BY <1>1, CheckInv, LockInv, InsertInv, ArtifactsInv, WriteInv, CommitInv DEF Step
<1>2. ASSUME NEW h \in Handlers, Abort(h) PROVE RInv'
  BY <1>2, AbortInv
<1>3. ASSUME NEW h \in Handlers, NEW m \in Messages, Deliver(h, m) PROVE RInv'
  BY <1>3, DeliverInv
<1>4. CASE Reader \/ UNCHANGED vars
  BY <1>4, ReaderInv
<1> QED
  BY <1>1, <1>2, <1>3, <1>4 DEF Next

-----------------------------------------------------------------------------
(* The inductive invariant holds of every behaviour of the receiver: every *)
(* step of accept_message, its commits and its aborts preserve it.         *)
THEOREM Invariant == Spec => []RInv
<1>1. Init => RInv
  BY Initially
<1>2. RInv /\ [Next]_vars => RInv'
  BY NextInv
<1> QED
  BY <1>1, <1>2, PTL DEF Spec

(* Committed rows and requests in progress keep their shape. *)
THEOREM TypeCorrect == Spec => []TypeOK
<1>1. RInv => TypeOK
  BY DEF RInv
<1> QED
  BY <1>1, Invariant, PTL

(* Whatever is delivered twice, at once or again after an abort, an        *)
(* acknowledgement of accept_message names a committed receipt of exactly  *)
(* that body, and one original is acknowledged for an id.                  *)
THEOREM Acknowledged == Spec => []AcksAreReceipts
<1>1. RInv => AcksAreReceipts
  BY DEF RInv
<1> QED
  BY <1>1, Invariant, PTL

(* The unique keys of edge_v2_messages: an id and a row id name one        *)
(* receipt, though requests number their rows before they commit.          *)
THEOREM Unique == Spec => []ReceiptsAreUnique
<1>1. RInv => ReceiptsAreUnique
  BY DEF RInv
<1> QED
  BY <1>1, Invariant, PTL

(* A committed receipt has its artifact with the acknowledged content,     *)
(* however many writers of the artifact raced (store_artifacts).           *)
THEOREM ArtifactsStored == Spec => []ReceiptsHaveArtifacts
<1>1. RInv => ReceiptsHaveArtifacts
  BY DEF RInv
<1> QED
  BY <1>1, Invariant, PTL

(* project keeps the newest STATE and measurement of a device in whatever  *)
(* order they arrive and commit.                                           *)
THEOREM NewestKept == Spec => []LatestIsNewest
<1>1. RInv => LatestIsNewest
  BY DEF RInv, Projections
<1> QED
  BY <1>1, Invariant, PTL

(* No sample of the filter survives a restart of the orchestrator.         *)
THEOREM FilterScoped == Spec => []FilterOfOneInstance
<1>1. RInv => FilterOfOneInstance
  BY DEF RInv, Projections
<1> QED
  BY <1>1, Invariant, PTL

(* The recorded changes of a device's state form a chain that ends in the  *)
(* state that is kept.                                                     *)
THEOREM Chained == Spec => []TransitionsChain
<1>1. RInv => TransitionsChain
  BY DEF RInv, Projections
<1> QED
  BY <1>1, Invariant, PTL


-----------------------------------------------------------------------------
(* The status query chooses among all receipts what project has chosen by  *)
(* comparing one message after the other.                                  *)

(* What is in sight of clocks and sequences has a greatest. *)
ClocksBounded ==
    \E b \in Nat : \A r \in receipts : r.msg.gen <= b /\ r.msg.seq <= b

(* The retained status, seen from all that are stored. *)
StatusIsHighest ==
    IF latest["status"] = None THEN Statuses = {}
    ELSE LET kept == latest["status"] IN
         /\ \E r \in Statuses : r.msg = kept.msg
         /\ \E r \in Statuses : r.msg.gen = kept.gen /\ r.msg.instance = kept.msg.instance
         /\ \A r \in Statuses : r.msg.gen <= kept.gen
         /\ \A r \in Statuses : r.msg.instance = kept.msg.instance => r.msg.seq <= kept.msg.seq

(* What a reader has selected; in compact storage no commit came between.  *)
ReaderKnows ==
    reader # None =>
       /\ reader.step \in {"select", "fetch", "answer"}
       /\ \E r \in Statuses : r.msg.instance = reader.instance
       /\ reader.step = "fetch" => reader.highest \in Messages
       /\ reader.step = "answer" /\ ~Compact => reader.snapshot \in Messages
       /\ Compact =>
             /\ reader.step = "select" => reader.instance = NewestInstance
             /\ reader.step = "fetch" => reader.highest = HighestStatus(NewestInstance)
             /\ reader.step = "answer" =>
                   reader.snapshot = Retained(HighestStatus(NewestInstance))

QInv == RInv /\ ClocksBounded /\ (Compact => StatusIsHighest) /\ ReaderKnows

(* A set of rows with two bounded numbers has a greatest in their order.   *)
LEMMA GreatestRow ==
    ASSUME NEW S, S # {}, NEW key \in [S -> Nat], NEW row \in [S -> Nat], NEW b \in Nat,
           \A r \in S : key[r] <= b /\ row[r] <= b
    PROVE  \E r \in S : \A q \in S :
              key[r] > key[q] \/ (key[r] = key[q] /\ row[r] >= row[q])
<1> DEFINE keys == {key[r] : r \in S}
<1>1. PICK k \in keys : \A x \in keys : x <= k
  <2>1. keys \in SUBSET Nat /\ keys # {} /\ \A x \in keys : x <= b
    OBVIOUS
  <2> HIDE DEF keys
  <2> QED
    BY <2>1, GreatestNat
<1> DEFINE rows == {row[r] : r \in {q \in S : key[q] = k}}
<1>2. PICK n \in rows : \A x \in rows : x <= n
  <2>1. rows \in SUBSET Nat /\ rows # {} /\ \A x \in rows : x <= b
    BY <1>1
  <2> HIDE DEF rows
  <2> QED
    BY <2>1, GreatestNat
<1>3. PICK r \in S : key[r] = k /\ row[r] = n
  BY <1>2
<1>4. ASSUME NEW q \in S PROVE key[r] > key[q] \/ (key[r] = key[q] /\ row[r] >= row[q])
  <2>1. key[q] <= k /\ key[q] \in Nat /\ k \in Nat
    BY <1>1, <1>3
  <2>2. CASE key[q] = k
    <3>1. row[q] \in rows
      BY <2>2
    <3>2. row[q] <= n /\ row[q] \in Nat /\ n \in Nat
      BY <1>2, <1>3, <3>1
    <3> QED
      BY <1>3, <2>2, <3>2
  <2> QED
    BY <1>3, <2>1, <2>2
<1> QED
  BY <1>4

(* The newest instance and its highest status are those of receipts. *)
LEMMA NewestChosen ==
    ASSUME RInv, ClocksBounded, Statuses # {}
    PROVE  \E r \in Statuses : /\ r.msg.instance = NewestInstance
                               /\ \A q \in Statuses : q.msg.gen <= r.msg.gen
<1>1. TypeOK /\ ReceiptsAreUnique /\ Bounded
  BY DEF RInv
<1>2. PICK c \in Nat : InSight(c)
  BY <1>1 DEF Bounded
<1>3. PICK d \in Nat : \A r \in receipts : r.msg.gen <= d /\ r.msg.seq <= d
  BY DEF ClocksBounded
<1> DEFINE gens == [r \in Statuses |-> r.msg.gen]
           rows == [r \in Statuses |-> r.row]
<1>4. \A r \in Statuses : r \in receipts /\ r.msg.gen \in Nat /\ r.row \in Nat
  BY <1>1 DEF Statuses, TypeOK
<1>5. PICK r \in Statuses : \A q \in Statuses :
         gens[r] > gens[q] \/ (gens[r] = gens[q] /\ rows[r] >= rows[q])
  <2>1. gens \in [Statuses -> Nat] /\ rows \in [Statuses -> Nat]
    BY <1>4
  <2>2. c + d \in Nat /\ \A q \in Statuses : gens[q] <= c + d /\ rows[q] <= c + d
    BY <1>2, <1>3, <1>4 DEF InSight
  <2> HIDE DEF gens, rows
  <2> QED
    BY <2>1, <2>2, GreatestRow
<1>6. \A q \in Statuses \ {r} : Later(r, q)
  <2> SUFFICES ASSUME NEW q \in Statuses \ {r} PROVE Later(r, q)
    OBVIOUS
  <2>1. r.row # q.row
    BY <1>1, <1>4 DEF ReceiptsAreUnique
  <2>2. r.msg.gen > q.msg.gen \/ (r.msg.gen = q.msg.gen /\ r.row >= q.row)
    BY <1>5
  <2>3. r.row \in Nat /\ q.row \in Nat
    BY <1>4
  <2> QED
    BY <2>1, <2>2, <2>3 DEF Later
<1> DEFINE best == CHOOSE x \in Statuses : \A q \in Statuses \ {x} : Later(x, q)
<1>7. best \in Statuses /\ \A q \in Statuses \ {best} : Later(best, q)
  BY <1>6
<1>8. NewestInstance = best.msg.instance
  BY DEF NewestInstance
<1> HIDE DEF best
<1>9. \A q \in Statuses : q.msg.gen <= best.msg.gen
  BY <1>4, <1>7 DEF Later
<1> QED
  BY <1>7, <1>8, <1>9

LEMMA HighestChosen ==
    ASSUME RInv, ClocksBounded, NEW x, \E r \in Statuses : r.msg.instance = x
    PROVE  \E r \in Statuses : /\ r.msg = HighestStatus(x) /\ r.msg.instance = x
                               /\ \A q \in Statuses : q.msg.instance = x => q.msg.seq <= r.msg.seq
<1>1. TypeOK /\ ReceiptsAreUnique /\ Bounded
  BY DEF RInv
<1>2. PICK c \in Nat : InSight(c)
  BY <1>1 DEF Bounded
<1>3. PICK d \in Nat : \A r \in receipts : r.msg.gen <= d /\ r.msg.seq <= d
  BY DEF ClocksBounded
<1> DEFINE own == {r \in Statuses : r.msg.instance = x}
           seqs == [r \in own |-> r.msg.seq]
           rows == [r \in own |-> r.row]
<1>4. \A r \in own : r \in receipts /\ r.msg.seq \in Nat /\ r.row \in Nat
  BY <1>1 DEF Statuses, TypeOK
<1>5. PICK r \in own : \A q \in own :
         seqs[r] > seqs[q] \/ (seqs[r] = seqs[q] /\ rows[r] >= rows[q])
  <2>1. seqs \in [own -> Nat] /\ rows \in [own -> Nat] /\ own # {}
    BY <1>4
  <2>2. c + d \in Nat /\ \A q \in own : seqs[q] <= c + d /\ rows[q] <= c + d
    BY <1>2, <1>3, <1>4 DEF InSight
  <2> HIDE DEF seqs, rows, own
  <2> QED
    BY <2>1, <2>2, GreatestRow
<1>6. \A q \in own \ {r} : Higher(r, q)
  <2> SUFFICES ASSUME NEW q \in own \ {r} PROVE Higher(r, q)
    OBVIOUS
  <2>1. r.row # q.row
    BY <1>1, <1>4 DEF ReceiptsAreUnique
  <2>2. r.msg.seq > q.msg.seq \/ (r.msg.seq = q.msg.seq /\ r.row >= q.row)
    BY <1>5
  <2>3. r.row \in Nat /\ q.row \in Nat
    BY <1>4
  <2> QED
    BY <2>1, <2>2, <2>3 DEF Higher
<1> DEFINE best == CHOOSE y \in own : \A q \in own \ {y} : Higher(y, q)
<1>7. best \in own /\ \A q \in own \ {best} : Higher(best, q)
  BY <1>6
<1>8. HighestStatus(x) = best.msg
  BY DEF HighestStatus
<1> HIDE DEF best
<1>9. \A q \in own : q.msg.seq <= best.msg.seq
  BY <1>4, <1>7 DEF Higher
<1> QED
  BY <1>7, <1>8, <1>9

(* In compact storage both are what is retained. *)
LEMMA RetainedIsHighest ==
    ASSUME InstancesInTurn, Compact, RInv, ClocksBounded, StatusIsHighest, Statuses # {}
    PROVE  Retained(HighestStatus(NewestInstance)) \in Messages
<1> DEFINE kept == latest["status"]
<1>1. TypeOK /\ "status" \in Projected
  BY DEF RInv, Projected, Kinds
<1>2. /\ kept # None /\ kept \in Kept
      /\ \A r \in Statuses : r.msg.gen <= kept.gen
      /\ \A r \in Statuses : r.msg.instance = kept.msg.instance => r.msg.seq <= kept.msg.seq
  BY <1>1 DEF StatusIsHighest, TypeOK
<1>3. PICK r \in Statuses : r.msg = kept.msg
  BY <1>2 DEF StatusIsHighest
<1>4. PICK w \in Statuses : w.msg.gen = kept.gen /\ w.msg.instance = kept.msg.instance
  BY <1>2 DEF StatusIsHighest
<1>5. PICK n \in Statuses : /\ n.msg.instance = NewestInstance
                            /\ \A q \in Statuses : q.msg.gen <= n.msg.gen
  BY NewestChosen
<1>6. \A q \in Statuses : /\ q.msg \in Messages /\ q.msg.kind = "status"
                          /\ q.msg.gen \in Nat /\ q.msg.seq \in Nat
  BY <1>1 DEF Statuses, TypeOK
<1>7. NewestInstance = kept.msg.instance
  <2>1. n.msg.gen <= w.msg.gen /\ w.msg.gen <= n.msg.gen
    BY <1>2, <1>4, <1>5
  <2>2. n.msg.gen = w.msg.gen
    BY <1>6, <2>1
  <2> QED
    BY <1>4, <1>5, <1>6, <2>2 DEF InstancesInTurn
<1>8. PICK g \in Statuses :
         /\ g.msg = HighestStatus(NewestInstance) /\ g.msg.instance = NewestInstance
         /\ \A q \in Statuses : q.msg.instance = NewestInstance => q.msg.seq <= g.msg.seq
  BY <1>5, HighestChosen
<1>9. g.msg.seq = kept.msg.seq
  <2>1. g.msg.seq <= kept.msg.seq /\ kept.msg.seq <= g.msg.seq
    BY <1>2, <1>3, <1>7, <1>8
  <2> QED
    BY <1>3, <1>6, <2>1
<1> QED
  BY <1>2, <1>3, <1>6, <1>7, <1>8, <1>9 DEF Retained

(* project: the retained status after a commit. *)
LEMMA StatusCommitted ==
    ASSUME InstancesInTurn, Compact, RInv, StatusIsHighest, NEW h \in Handlers, Commit(h)
    PROVE  StatusIsHighest'
<1> DEFINE m == handler[h].msg
           r == [msg |-> m, row |-> handler[h].row, received |-> handler[h].received]
           old == latest["status"]
<1>1. TypeOK /\ "status" \in Projected
  BY DEF RInv, Projected, Kinds
<1>2. m \in Messages /\ m.gen \in Nat /\ m.seq \in Nat
  BY <1>1 DEF Commit, At, TypeOK
<1>3. receipts' = receipts \cup {r} /\ r.msg = m
  BY DEF Commit
<1> HIDE DEF r
<1>4. CASE m.kind # "status"
  <2>1. Statuses' = Statuses
    BY <1>3, <1>4 DEF Statuses
  <2>2. latest'["status"] = old
    BY <1>1, <1>4 DEF Commit, LatestAfter
  <2> QED
    BY <2>1, <2>2 DEF StatusIsHighest
<1>5. CASE m.kind = "status"
  <2>1. Statuses' = Statuses \cup {r}
    BY <1>3, <1>5 DEF Statuses
  <2>2. latest' = LatestAfter(m)
    BY <1>1, <1>5 DEF Commit, Projects
  <2>3. \A q \in Statuses : /\ q.msg \in Messages /\ q.msg.kind = "status"
                            /\ q.msg.gen \in Nat /\ q.msg.seq \in Nat
    BY <1>1 DEF Statuses, TypeOK
  <2>4. old # None => old \in Kept /\ old.gen \in Nat /\ old.msg.seq \in Nat
    BY <1>1 DEF TypeOK, Kept
  <2>5. latest \in [Projected -> Kept \cup {None}]
    BY <1>1 DEF TypeOK
  <2>6. CASE Replaces(m)
    <3> DEFINE g == IF old = None THEN m.gen ELSE Greater(old.gen, m.gen)
               new == [msg |-> m, gen |-> g]
    <3>1. latest'["status"] = new /\ new.msg = m /\ new.gen = g
      BY <1>1, <1>5, <2>2, <2>5, <2>6 DEF LatestAfter
    <3>2. g \in Nat /\ m.gen <= g /\ (old # None => old.gen <= g)
      BY <1>2, <2>4 DEF Greater
    <3>3. new \in Kept
      BY <1>2, <3>2 DEF Kept
    <3> HIDE DEF new
    <3>4. latest'["status"] # None
      BY <3>1, <3>3
    <3>5. \A q \in Statuses' : q.msg.gen <= g
      BY <1>2, <1>3, <2>1, <2>3, <2>4, <3>2 DEF StatusIsHighest
    <3>6. \E q \in Statuses' : q.msg.gen = g /\ q.msg.instance = m.instance
      <4>1. CASE g = m.gen
        BY <1>3, <2>1, <4>1
      <4>2. CASE g # m.gen
        <5>1. old # None /\ g = old.gen /\ ~(m.gen > old.gen)
          BY <1>2, <2>4, <4>2 DEF Greater
        <5>2. old.msg.instance = m.instance
          BY <1>5, <2>6, <5>1 DEF Replaces, NewerThanLatest, SameInstance
        <5> QED
          BY <2>1, <5>1, <5>2 DEF StatusIsHighest
      <4> QED
        BY <4>1, <4>2
    <3>7. ASSUME NEW q \in Statuses, q.msg.instance = m.instance PROVE q.msg.seq <= m.seq
      <4>1. old # None
        BY DEF StatusIsHighest
      <4>2. CASE SameInstance(m)
        <5>1. m.seq > old.msg.seq /\ old.msg.instance = m.instance
          BY <2>6, <4>2 DEF Replaces, SameInstance
        <5>2. q.msg.seq <= old.msg.seq
          BY <3>7, <4>1, <5>1 DEF StatusIsHighest
        <5> QED
          BY <1>2, <2>3, <2>4, <4>1, <5>1, <5>2
      <4>3. CASE ~SameInstance(m)
        <5>1. old.msg.instance # m.instance /\ m.gen > old.gen
          BY <1>5, <2>6, <4>1, <4>3 DEF Replaces, SameInstance, NewerThanLatest
        <5>2. PICK w \in Statuses : w.msg.gen = old.gen /\ w.msg.instance = old.msg.instance
          BY <4>1 DEF StatusIsHighest
        <5>3. q.msg.gen <= old.gen
          BY <4>1 DEF StatusIsHighest
        <5>4. w.msg.gen < m.gen /\ w.msg.gen # q.msg.gen /\ q.msg.gen < w.msg.gen
          <6>1. w.msg.gen # q.msg.gen
            BY <2>3, <3>7, <5>1, <5>2 DEF InstancesInTurn
          <6> QED
            BY <1>2, <2>3, <2>4, <4>1, <5>1, <5>2, <5>3, <6>1
        <5>5. ~(q.msg.seq > m.seq)
          BY <1>2, <1>5, <2>3, <3>7, <5>1, <5>2, <5>4 DEF InstancesInTurn
        <5> QED
          BY <1>2, <2>3, <5>5
      <4> QED
        BY <4>2, <4>3
    <3>8. \A q \in Statuses' : q.msg.instance = m.instance => q.msg.seq <= m.seq
      BY <1>2, <1>3, <2>1, <3>7
    <3>9. \E q \in Statuses' : q.msg = m
      BY <1>3, <2>1
    <3> HIDE DEF g
    <3> QED
      BY <3>1, <3>4, <3>5, <3>6, <3>8, <3>9 DEF StatusIsHighest
  <2>7. CASE ~Replaces(m)
    <3>1. old # None
      BY <1>5, <2>7 DEF Replaces, SameInstance, NewerThanLatest
    <3>2. old \in Kept /\ old.gen \in Nat /\ old.msg.seq \in Nat
      BY <2>4, <3>1
    <3>3. CASE SameInstance(m) /\ NewerThanLatest(m)
      <4> DEFINE new == [old EXCEPT !.gen = m.gen]
      <4>1. latest'["status"] = new
        BY <1>1, <1>5, <2>2, <2>5, <2>7, <3>2, <3>3 DEF LatestAfter, Kept
      <4>2. new \in Kept /\ new.msg = old.msg /\ new.gen = m.gen
        BY <1>2, <3>2 DEF Kept
      <4> HIDE DEF new
      <4>3. /\ old.msg.instance = m.instance /\ ~(m.seq > old.msg.seq) /\ m.gen > old.gen
        BY <1>5, <2>7, <3>1, <3>3 DEF Replaces, SameInstance, NewerThanLatest
      <4>4. \A q \in Statuses' : q.msg.gen <= m.gen
        BY <1>2, <1>3, <2>1, <2>3, <3>1, <3>2, <4>3 DEF StatusIsHighest
      <4>5. \A q \in Statuses' : q.msg.instance = old.msg.instance => q.msg.seq <= old.msg.seq
        BY <1>2, <1>3, <2>1, <2>3, <3>1, <3>2, <4>3 DEF StatusIsHighest
      <4>6. \E q \in Statuses' : q.msg = old.msg
        BY <2>1, <3>1 DEF StatusIsHighest
      <4>7. \E q \in Statuses' : q.msg.gen = m.gen /\ q.msg.instance = old.msg.instance
        BY <1>3, <2>1, <4>3
      <4>8. latest'["status"] # None
        BY <4>1, <4>2
      <4> QED
        BY <4>1, <4>2, <4>4, <4>5, <4>6, <4>7, <4>8 DEF StatusIsHighest
    <3>4. CASE ~(SameInstance(m) /\ NewerThanLatest(m))
      <4>1. latest'["status"] = old
        BY <2>2, <2>7, <3>4 DEF LatestAfter
      <4>2. ~(m.gen > old.gen)
        BY <1>5, <2>7, <3>1, <3>4 DEF Replaces, SameInstance, NewerThanLatest
      <4>3. m.instance = old.msg.instance => ~(m.seq > old.msg.seq)
        BY <1>5, <2>7, <3>1 DEF Replaces, SameInstance
      <4>4. \A q \in Statuses' : q.msg.gen <= old.gen
        BY <1>2, <1>3, <2>1, <2>3, <3>1, <3>2, <4>2 DEF StatusIsHighest
      <4>5. \A q \in Statuses' : q.msg.instance = old.msg.instance => q.msg.seq <= old.msg.seq
        BY <1>2, <1>3, <2>1, <2>3, <3>1, <3>2, <4>3 DEF StatusIsHighest
      <4>6. /\ \E q \in Statuses' : q.msg = old.msg
            /\ \E q \in Statuses' : q.msg.gen = old.gen /\ q.msg.instance = old.msg.instance
        BY <2>1, <3>1 DEF StatusIsHighest
      <4> QED
        BY <3>1, <4>1, <4>4, <4>5, <4>6 DEF StatusIsHighest
    <3> QED
      BY <3>3, <3>4
  <2> QED
    BY <2>6, <2>7
<1> QED
  BY <1>4, <1>5

LEMMA ClocksInv ==
    ASSUME RInv, ClocksBounded, [Next]_vars
    PROVE  ClocksBounded'
<1>1. PICK b \in Nat : \A r \in receipts : r.msg.gen <= b /\ r.msg.seq <= b
  BY DEF ClocksBounded
<1>2. CASE receipts' = receipts
  BY <1>1, <1>2 DEF ClocksBounded
<1>3. ASSUME NEW h \in Handlers, Commit(h) PROVE ClocksBounded'
  <2> DEFINE m == handler[h].msg
             c == b + m.gen + m.seq
  <2>1. TypeOK
    BY DEF RInv
  <2>2. m.gen \in Nat /\ m.seq \in Nat
    BY <1>3, <2>1 DEF Commit, At, TypeOK
  <2>3. \A r \in receipts' : r \in receipts \/ r.msg = m
    BY <1>3 DEF Commit
  <2>4. \A r \in receipts : r.msg.gen \in Nat /\ r.msg.seq \in Nat
    BY <2>1 DEF TypeOK
  <2>5. \A r \in receipts' : r.msg.gen <= c /\ r.msg.seq <= c
    BY <1>1, <2>2, <2>3, <2>4
  <2>6. c \in Nat
    BY <2>2
  <2> HIDE DEF c
  <2> QED
    BY <2>5, <2>6 DEF ClocksBounded
<1>4. UNCHANGED stored => receipts' = receipts
  BY DEF stored
<1> QED
  BY <1>2, <1>3, <1>4
     DEF Next, Step, Check, Lock, Insert, Artifacts, Write, Abort, Deliver, Reader,
         ReaderStarts, ReaderSelects, ReaderFetches, ReaderAnswers, vars

(* A step writes nothing, or it is a commit. *)
LEMMA CommitOrNot ==
    ASSUME [Next]_vars
    PROVE  \/ UNCHANGED stored /\ UNCHANGED reader
           \/ UNCHANGED stored /\ Reader
           \/ \E h \in Handlers : Commit(h)
BY DEF Next, Step, Check, Lock, Insert, Artifacts, Write, Abort, Deliver, Reader, ReaderStarts,
       ReaderSelects, ReaderFetches, ReaderAnswers, vars, stored

LEMMA SameQuery ==
    ASSUME UNCHANGED stored
    PROVE  /\ Statuses' = Statuses
           /\ NewestInstance' = NewestInstance
           /\ \A x : HighestStatus(x)' = HighestStatus(x)
           /\ \A m : Retained(m)' = Retained(m)
BY DEF stored, Statuses, NewestInstance, HighestStatus, Retained

LEMMA ReaderStep ==
    ASSUME QInv, UNCHANGED stored, Reader
    PROVE  ReaderKnows'
<1>1. /\ Statuses' = Statuses /\ NewestInstance' = NewestInstance
      /\ HighestStatus(NewestInstance)' = HighestStatus(NewestInstance)
      /\ Retained(HighestStatus(NewestInstance))' = Retained(HighestStatus(NewestInstance))
  BY SameQuery
<1>2. RInv /\ TypeOK /\ ClocksBounded /\ ReaderKnows
  BY DEF QInv, RInv
<1>3. CASE ReaderStarts
  <2>1. \E r \in Statuses : r.msg.instance = NewestInstance
    BY <1>2, <1>3, NewestChosen DEF ReaderStarts
  <2>2. /\ reader'.step = "select" /\ reader'.instance = NewestInstance
    BY <1>3 DEF ReaderStarts
  <2> QED
    BY <1>1, <2>1, <2>2 DEF ReaderKnows
<1>4. CASE ReaderSelects
  <2>1. PICK r \in Statuses : /\ r.msg = HighestStatus(reader.instance)
                              /\ r.msg.instance = reader.instance
    BY <1>2, <1>4, HighestChosen DEF ReaderKnows, ReaderSelects
  <2>2. r.msg \in Messages
    BY <1>2 DEF TypeOK, Statuses
  <2> QED
    BY <1>1, <1>2, <1>4, <2>1, <2>2 DEF ReaderKnows, ReaderSelects
<1>5. CASE ReaderFetches
  BY <1>1, <1>2, <1>5 DEF ReaderKnows, ReaderFetches, Retained
<1>6. CASE ReaderAnswers
  BY <1>6 DEF ReaderKnows, ReaderAnswers
<1> QED
  BY <1>3, <1>4, <1>5, <1>6 DEF Reader

LEMMA QueryInv ==
    ASSUME Compact => ~Torn /\ InstancesInTurn, QInv, [Next]_vars
    PROVE  QInv'
<1>1. RInv' /\ ClocksBounded'
  BY NextInv, ClocksInv DEF QInv
<1>2. CASE UNCHANGED stored /\ UNCHANGED reader
  <2>1. Compact => StatusIsHighest'
    BY <1>2 DEF QInv, StatusIsHighest, Statuses, stored
  <2>2. ReaderKnows'
    BY <1>2, SameQuery DEF QInv, ReaderKnows
  <2> QED
    BY <1>1, <2>1, <2>2 DEF QInv
<1>3. CASE UNCHANGED stored /\ Reader
  <2>1. Compact => StatusIsHighest'
    BY <1>3 DEF QInv, StatusIsHighest, Statuses, stored
  <2> QED
    BY <1>1, <1>3, <2>1, ReaderStep DEF QInv
<1>4. ASSUME NEW h \in Handlers, Commit(h) PROVE QInv'
  <2>1. Compact => StatusIsHighest'
    BY <1>4, StatusCommitted DEF QInv
  <2>2. ReaderKnows'
    <3>1. reader' = reader /\ \A r \in Statuses : r \in Statuses'
      BY <1>4 DEF Commit, Statuses
    <3>2. Compact => reader = None
      BY <1>4 DEF Commit
    <3> QED
      BY <3>1, <3>2 DEF QInv, ReaderKnows
  <2> QED
    BY <1>1, <2>1, <2>2 DEF QInv
<1> QED
  BY <1>2, <1>3, <1>4, CommitOrNot

(* A device that has reported has a snapshot, though its messages arrive   *)
(* in any order: device_status finds what project retained. In compact     *)
(* storage that takes undisturbed reads, and clocks in the order of the    *)
(* instances: without either the query looks for a body that is gone.      *)
THEOREM Answered ==
    ASSUME Compact => ~Torn /\ InstancesInTurn
    PROVE  Spec => []SnapshotAnswered
<1>1. Init => QInv
  BY Initially DEF QInv, Init, ClocksBounded, StatusIsHighest, Statuses, ReaderKnows, Projected,
                   Kinds
<1>2. QInv /\ [Next]_vars => QInv'
  BY QueryInv
<1>3. QInv => SnapshotAnswered
  <2> SUFFICES ASSUME QInv, reader # None, reader.step = "answer"
               PROVE  reader.snapshot \in Messages
    BY DEF SnapshotAnswered
  <2>1. CASE Compact
    <3>1. Statuses # {}
      BY DEF QInv, ReaderKnows
    <3> QED
      BY <2>1, <3>1, RetainedIsHighest DEF QInv, ReaderKnows
  <2>2. CASE ~Compact
    BY <2>2 DEF QInv, ReaderKnows
  <2> QED
    BY <2>1, <2>2
<1> QED
  BY <1>1, <1>2, <1>3, PTL DEF Spec
=============================================================================

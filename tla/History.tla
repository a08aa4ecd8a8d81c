-------------------------------- MODULE History --------------------------------
(***************************************************************************)
(* The history of the load: per-minute rows of the newest projections with *)
(* a summary beside the samples, the command that fills missing summaries, *)
(* the move of the database from SQLite to PostgreSQL, and the question    *)
(* that answers from summaries, from samples or from the receipts of STATE *)
(* messages that were stored in full.                                      *)
(*                                                                         *)
(* Times are ticks of half a second.  Every row here was written by this   *)
(* code, so that its samples lie in its own minute, sixty at most.         *)
(***************************************************************************)
EXTENDS Storage, Integers, FiniteSets, FiniteSetsExt

CONSTANTS
    MinuteTicks,   \* ticks of a minute
    MinuteCount,   \* bound: minutes of time
    Inputs,        \* EDGE_STATE, HEIGHT_SECTIONS: where the filter's samples come from
    Samples,       \* [at, origin, value]: the messages, in no order; value may be NoValue
    LegacyRows,    \* rows of before there were summaries: minute -> row or NoMinute
    Spans,         \* <<from, to, ticks of a bucket>> that are asked for
    MaxSwitches,   \* bound: restarts with other settings
    NoValue, NoMinute, NoTime, NoSummary, NoGroup, NoQuestion   \* null values

End == MinuteCount * MinuteTicks
Seconds == 0 .. (End \div 2) - 1
Values == Nat \union {NoValue}
Messages == [at : Nat, origin : Inputs, value : Values]

(* What rows, their samples and what they amount to may be. *)
HeldSlots == [value : Values, origin : Inputs, at : Nat \union {NoTime}]
Slots == [time : Nat, value : Values, origin : Inputs, evidence : Messages]
Groups == [count : Nat, invalid : Nat, total : Nat, low : Values, high : Values,
           origins : SUBSET Inputs, last : Slots]
Summaries == [generated : Nat, group : Groups \union {NoGroup}]
Rows == [generated : Nat, last : Messages,
         slots : UNION {[D -> HeldSlots] : D \in SUBSET Seconds},
         summary : Summaries \union {NoSummary}]

(* A row of before there were summaries: the slot of the second of its     *)
(* last message has its value, and one with a time of its own has that of  *)
(* a message.                                                              *)
IsSlotOf(slot, s, last) ==
    /\ slot \in HeldSlots
    /\ IF slot.at = NoTime THEN s = last.at \div 2 => slot.value = last.value
       ELSE /\ slot.at \div 2 = s
            /\ \E sample \in Samples : sample.at = slot.at /\ sample.value = slot.value

IsRowOf(row, m) ==
    /\ row = [generated |-> row.last.at, last |-> row.last,
              slots |-> [s \in DOMAIN row.slots |-> row.slots[s]], summary |-> row.summary]
    /\ row.last \in Samples /\ row.last.at \div MinuteTicks = m
    /\ \A s \in DOMAIN row.slots :
         /\ s \in Seconds /\ (2 * s) \div MinuteTicks = m
         /\ IsSlotOf(row.slots[s], s, row.last)

(* The intervals one may choose are multiples of a minute. *)
ASSUME HistoryAssumption ==
    /\ {MinuteTicks, MinuteCount} \subseteq Nat \ {0} /\ MinuteTicks % 2 = 0
    /\ \A sample \in Samples : sample \in Messages /\ sample.at < End
    /\ \A span \in Spans : /\ {span[1], span[2]} \subseteq 0 .. End /\ span[1] < span[2]
                           /\ span[3] \in Nat \ {0} /\ span[3] % MinuteTicks = 0
    /\ \A rows \in LegacyRows :
         /\ rows = [m \in 0 .. MinuteCount - 1 |-> rows[m]]
         /\ \A m \in 0 .. MinuteCount - 1 :
              rows[m] # NoMinute => rows[m].summary = NoSummary /\ IsRowOf(rows[m], m)
    /\ NoValue \notin Nat /\ NoTime \notin Nat /\ NoGroup \notin Groups
    /\ NoSummary \notin Summaries /\ NoMinute \notin Rows

VARIABLES
    input,         \* in force: one of Inputs, or "RECEIPTS" without compact storage
    switches,      \* bound: restarts so far
    newest,        \* input -> generation time of its newest message, or NoTime
    receipts,      \* STATE messages that were stored in full
    minutes,       \* minute -> [generated, last, slots, summary], or NoMinute
    filling,       \* backfill: [minute, row] between its read and its commit, or NoMinute
    cursor,        \* backfill: the last minute it went over
    question       \* a request: [span, begun, asked, parts, seen, receipts, left], or NoQuestion

historyVars == <<dialect, input, switches, newest, receipts, minutes, filling, cursor, question>>

MinuteIds == 0 .. MinuteCount - 1
MinuteOf(t) == t \div MinuteTicks
SecondOf(t) == t \div 2
StartOf(m) == m * MinuteTicks
IsValid(slot) == slot.value # NoValue

-----------------------------------------------------------------------------
(* What a row's samples amount to.  A slot has its own time when its       *)
(* metadata was kept, and its second otherwise, with the row's last sample *)
(* as the evidence.                                                        *)

SlotOfRow(row, s) ==
    LET slot == row.slots[s]
    IN  IF slot.at = NoTime
          THEN [time |-> 2 * s, value |-> slot.value, origin |-> slot.origin, evidence |-> row.last]
          ELSE [time |-> slot.at, value |-> slot.value, origin |-> slot.origin,
                evidence |-> [at |-> slot.at, origin |-> slot.origin, value |-> slot.value]]

SlotsOf(row) == {SlotOfRow(row, s) : s \in DOMAIN row.slots}

Extreme(values, Best(_)) == IF values = {} THEN NoValue ELSE Best(values)

(* Of samples with the same time there is one, the slot of their second.   *)
GroupOf(slots) ==
    IF slots = {} THEN NoGroup
    ELSE LET valid  == {slot \in slots : IsValid(slot)}
             values == {slot.value : slot \in valid}
         IN  [count |-> Cardinality(valid), invalid |-> Cardinality(slots \ valid),
              total |-> MapThenSumSet(LAMBDA slot : slot.value, valid),
              low |-> Extreme(values, Min), high |-> Extreme(values, Max),
              origins |-> {slot.origin : slot \in valid},
              last |-> CHOOSE slot \in slots : \A other \in slots : other.time <= slot.time]

(* merge_summary: groups of different rows of one bucket. *)
Better(a, b, Best(_)) == Extreme({a, b} \ {NoValue}, Best)

(* Wrong on purpose: what is read last is taken for the last. *)
LaterOfLast(a, b) == b.last

LaterOf(a, b) == IF b.last.time >= a.last.time THEN b.last ELSE a.last

MergedGroup(a, b) ==
    IF a = NoGroup THEN b ELSE IF b = NoGroup THEN a
    ELSE [count |-> a.count + b.count, invalid |-> a.invalid + b.invalid,
          total |-> a.total + b.total,
          low |-> Better(a.low, b.low, Min), high |-> Better(a.high, b.high, Max),
          origins |-> a.origins \union b.origins, last |-> LaterOf(a, b)]

-----------------------------------------------------------------------------
(* The summary of a row, and whether a reader may use it: only PostgreSQL  *)
(* has readers of summaries.                                               *)

HasSummaries == dialect = "postgresql"

SummaryOf(row) == [generated |-> row.generated, group |-> GroupOf(SlotsOf(row))]

(* Wrong on purpose: any summary will do. *)
RestorableIfPresent(row) == row.summary # NoSummary

Restorable(row) == row.summary # NoSummary /\ row.summary.generated = row.generated

(* Wrong on purpose: a minute that begins inside the span is whole. *)
WholeInSpanBegun(m, span) == span[1] <= StartOf(m)

WholeInSpan(m, span) == span[1] <= StartOf(m) /\ StartOf(m) + MinuteTicks <= span[2]

InSpan(m, span) == StartOf(MinuteOf(span[1])) <= StartOf(m) /\ StartOf(m) < span[2]

BucketOf(t, span) == t \div span[3]
BucketsOf(span) == BucketOf(span[1], span) .. BucketOf(span[2] - 1, span)

(* A part of the answer: what one row adds to each bucket. *)
SummaryPart(row, m, span) ==
    [b \in BucketsOf(span) |-> IF b = BucketOf(StartOf(m), span) THEN row.summary.group ELSE NoGroup]

InSpanOf(t, span) == span[1] <= t /\ t < span[2]

(* All samples of a row belong to the bucket its minute begins in.         *)
AggregatePart(row, m, span) ==
    [b \in BucketsOf(span) |-> IF b = BucketOf(StartOf(m), span) THEN GroupOf(SlotsOf(row)) ELSE NoGroup]

(* Each sample by its own time.                                            *)
BoundaryPart(row, span) ==
    [b \in BucketsOf(span) |->
        GroupOf({slot \in SlotsOf(row) : InSpanOf(slot.time, span) /\ BucketOf(slot.time, span) = b})]

OriginalPart(row, m, span) ==
    IF HasSummaries /\ WholeInSpan(m, span) THEN AggregatePart(row, m, span)
    ELSE BoundaryPart(row, span)

-----------------------------------------------------------------------------
(* The writer: a message that is newer than those of its kind replaces     *)
(* what its second held and the summary with it; it waits for a row the    *)
(* backfill has locked.                                                    *)

IsNewer(sample) == newest[sample.origin] # NoTime => sample.at > newest[sample.origin]

RowAfter(row, sample) ==
    LET slot  == [value |-> sample.value, origin |-> sample.origin, at |-> sample.at]
        slots == IF row = NoMinute THEN [s \in {SecondOf(sample.at)} |-> slot]
                 ELSE [s \in DOMAIN row.slots \union {SecondOf(sample.at)} |->
                         IF s = SecondOf(sample.at) THEN slot ELSE row.slots[s]]
        after == [generated |-> sample.at, last |-> sample, slots |-> slots, summary |-> NoSummary]
    IN  [after EXCEPT !.summary = SummaryOf(after)]

RecordSample(sample) ==
    /\ input \in Inputs /\ IsNewer(sample) /\ sample \notin receipts
    /\ newest' = [newest EXCEPT ![sample.origin] = sample.at]
    /\ \/ /\ input = sample.origin
          /\ ~(RowLocks /\ filling # NoMinute /\ filling.minute = MinuteOf(sample.at))
          /\ minutes' = [minutes EXCEPT ![MinuteOf(sample.at)] = RowAfter(@, sample)]
       \/ input # sample.origin /\ UNCHANGED minutes
    /\ UNCHANGED <<dialect, input, switches, receipts, filling, cursor, question>>

(* Without compact storage a STATE is kept whole and nothing is projected; *)
(* one that was projected before is known and not stored again.            *)
IsProjected(sample) ==
    LET row == minutes[MinuteOf(sample.at)]
    IN  row # NoMinute /\ \E s \in DOMAIN row.slots : row.slots[s].at = sample.at

RecordReceipt(sample) ==
    /\ input = "RECEIPTS" /\ sample.origin = "EDGE_STATE"
    /\ sample \notin receipts /\ ~IsProjected(sample)
    /\ receipts' = receipts \union {sample}
    /\ UNCHANGED <<dialect, input, switches, newest, minutes, filling, cursor, question>>

(* A restart with other settings ends a request that was being answered.  *)
SwitchInput(new) ==
    /\ switches < MaxSwitches /\ switches' = switches + 1
    /\ new # input /\ input' = new /\ question' = NoQuestion
    /\ UNCHANGED <<dialect, newest, receipts, minutes, filling, cursor>>

-----------------------------------------------------------------------------
(* The backfill, a process of its own: one row a batch.  On SQLite the row *)
(* is not locked between read and update; on PostgreSQL one that a writer  *)
(* has locked is skipped.                                                  *)

BackfillReads ==
    /\ filling = NoMinute
    /\ \E m \in MinuteIds :
         /\ m > cursor /\ minutes[m] # NoMinute /\ minutes[m].summary = NoSummary
         /\ ~RowLocks => \A n \in cursor + 1 .. m - 1 :
                            minutes[n] = NoMinute \/ minutes[n].summary # NoSummary
         /\ filling' = [minute |-> m, row |-> minutes[m]]
    /\ UNCHANGED <<dialect, input, switches, newest, receipts, minutes, cursor, question>>

BackfillCommits ==
    /\ filling # NoMinute
    /\ minutes' = [minutes EXCEPT ![filling.minute].summary = SummaryOf(filling.row)]
    /\ cursor' = filling.minute /\ filling' = NoMinute
    /\ UNCHANGED <<dialect, input, switches, newest, receipts, question>>

(* The command ends, or is interrupted, and may be given again. *)
BackfillEnds ==
    /\ filling # NoMinute \/ cursor # -1
    /\ filling' = NoMinute /\ cursor' = -1
    /\ UNCHANGED <<dialect, input, switches, newest, receipts, minutes, question>>

(* transfer_database: everything is stopped, every row is copied as it is. *)
Transfer ==
    /\ dialect = "sqlite" /\ filling = NoMinute /\ question = NoQuestion
    /\ dialect' = "postgresql" /\ cursor' = -1
    /\ UNCHANGED <<input, switches, newest, receipts, minutes, filling, question>>

-----------------------------------------------------------------------------
(* A question reads the receipts, and then the minutes.  On PostgreSQL one *)
(* statement delivers the summaries of the minutes, page by page, and      *)
(* another the samples of those it cannot use (a page is a row here).  On  *)
(* SQLite one aggregates the whole minutes and another reads the rows at   *)
(* the span's ends.                                                        *)

EmptyPart(span) == [b \in BucketsOf(span) |-> NoGroup]

MinutesIn(span) == {m \in MinuteIds : InSpan(m, span) /\ minutes[m] # NoMinute}

WholeStart(span) ==
    IF StartOf(MinuteOf(span[1])) = span[1] THEN span[1] ELSE StartOf(MinuteOf(span[1])) + MinuteTicks
EndMinute(span) == StartOf(MinuteOf(span[2]))

Aggregated(span) == {m \in MinuteIds : minutes[m] # NoMinute /\ WholeStart(span) <= StartOf(m)
                                                          /\ StartOf(m) < EndMinute(span)}
(* Wrong on purpose: the minute the span ends in is forgotten. *)
BoundaryOfStart(span) == {MinuteOf(t) : t \in {u \in {span[1]} : u # StartOf(MinuteOf(u))}}

Boundaries(span) == {MinuteOf(t) : t \in {u \in {span[1], span[2]} : u # StartOf(MinuteOf(u))}}

(* History: the minutes with samples of the span when they were asked for. *)
Asked(span) == {m \in MinuteIds : minutes[m] # NoMinute /\
                   \E slot \in SlotsOf(minutes[m]) : InSpanOf(slot.time, span)}

Asks(span) ==
    /\ question = NoQuestion
    /\ question' = [span |-> span, begun |-> FALSE, asked |-> {},
                    parts |-> [m \in MinuteIds |-> EmptyPart(span)],
                    seen |-> [m \in MinuteIds |-> NoMinute],
                    receipts |-> {r \in receipts : span[1] <= r.at /\ r.at < span[2]}, left |-> {}]
    /\ UNCHANGED <<dialect, input, switches, newest, receipts, minutes, filling, cursor>>

ReadSummaries ==
    /\ question # NoQuestion /\ ~question.begun
    /\ LET span  == question.span
           ready == IF HasSummaries
                      THEN {m \in MinutesIn(span) : WholeInSpan(m, span) /\ Restorable(minutes[m])}
                      ELSE Aggregated(span)
           part(m) == IF HasSummaries THEN SummaryPart(minutes[m], m, span)
                      ELSE AggregatePart(minutes[m], m, span)
       IN  question' =
             [span |-> span, begun |-> TRUE, asked |-> Asked(span),
              parts |-> [m \in MinuteIds |-> IF m \in ready THEN part(m) ELSE EmptyPart(span)],
              seen |-> [m \in MinuteIds |-> IF m \in ready THEN minutes[m] ELSE NoMinute],
              receipts |-> question.receipts,
              left |-> IF HasSummaries THEN MinutesIn(span) \ ready ELSE Boundaries(span)]
    /\ UNCHANGED <<dialect, input, switches, newest, receipts, minutes, filling, cursor>>

ReadOriginals ==
    /\ question # NoQuestion /\ question.left # {}
    /\ LET now == IF HasSummaries THEN {Min(question.left)} ELSE question.left
           found == {m \in now : minutes[m] # NoMinute}
       IN  question' =
             [question EXCEPT
               !.parts = [m \in MinuteIds |-> IF m \in found
                            THEN OriginalPart(minutes[m], m, question.span) ELSE @[m]],
               !.seen = [m \in MinuteIds |-> IF m \in found THEN minutes[m] ELSE @[m]],
               !.left = @ \ now]
    /\ UNCHANGED <<dialect, input, switches, newest, receipts, minutes, filling, cursor>>

(* Wrong on purpose: the row's last message will do as evidence. *)
IsRetainedAnyway(group, span) == InSpanOf(group.last.time, span)

IsRetained(group, span) ==
    /\ InSpanOf(group.last.evidence.at, span)
    /\ SecondOf(group.last.evidence.at) = SecondOf(group.last.time)

(* _compact_result: the sample a bucket shows. *)
Shows(group, span) ==
    LET evidence == group.last.evidence
        kept  == IsRetained(group, span)
        mixed == Cardinality(group.origins) > 1
    IN  [generated |-> IF kept THEN evidence.at ELSE NoTime,
         at |-> IF kept THEN evidence.at ELSE group.last.time,
         origin |-> IF mixed THEN "MIXED"
                    ELSE IF group.origins # {} THEN CHOOSE o \in group.origins : TRUE
                    ELSE group.last.origin,
         value |-> IF mixed THEN NoValue ELSE group.last.value,
         total |-> IF mixed THEN NoValue ELSE group.total,
         low |-> IF mixed THEN NoValue ELSE group.low,
         high |-> IF mixed THEN NoValue ELSE group.high,
         count |-> IF mixed THEN 0 ELSE group.count,
         invalid |-> IF mixed THEN group.invalid + group.count ELSE group.invalid]

(* A STATE that was stored in full stands for its bucket unless a row's    *)
(* sample is later.                                                        *)
ShowsReceipt(sample) ==
    [generated |-> sample.at, at |-> sample.at, origin |-> "EDGE_STATE", value |-> sample.value,
     total |-> NoValue, low |-> NoValue, high |-> NoValue, count |-> 0, invalid |-> 0]

BucketShown(stored, group, span) ==
    LET newestOf == CHOOSE r \in stored : \A other \in stored : other.at <= r.at
    IN  IF group = NoGroup THEN IF stored = {} THEN NoGroup ELSE ShowsReceipt(newestOf)
        ELSE IF stored # {} /\ Shows(group, span).at <= newestOf.at THEN ShowsReceipt(newestOf)
        ELSE Shows(group, span)

StoredIn(b, q) == {r \in q.receipts : BucketOf(r.at, q.span) = b}

(* Rows come in no particular order.  *)
ReadOrders == {order \in [1 .. MinuteCount -> MinuteIds] : MinuteIds = {order[i] : i \in 1 .. MinuteCount}}

Accumulated(q, b, order) ==
    LET add[i \in 0 .. MinuteCount] ==
            IF i = 0 THEN NoGroup ELSE MergedGroup(add[i - 1], q.parts[order[i]][b])
    IN  add[MinuteCount]

AnswerOf(q, order) ==
    [b \in BucketsOf(q.span) |-> BucketShown(StoredIn(b, q), Accumulated(q, b, order), q.span)]

IsAnswered == question # NoQuestion /\ question.begun /\ question.left = {}

EndsQuestion ==
    /\ IsAnswered /\ question' = NoQuestion
    /\ UNCHANGED <<dialect, input, switches, newest, receipts, minutes, filling, cursor>>

NewestOf(samples, origin) ==
    LET times == {sample.at : sample \in {other \in samples : other.origin = origin}}
    IN  IF times = {} THEN NoTime ELSE Max(times)

HistoryInit ==
    /\ dialect \in Dialects
    /\ input \in Inputs \union {"RECEIPTS"} /\ switches = 0
    /\ minutes \in LegacyRows
    /\ newest = [i \in Inputs |-> NewestOf({minutes[m].last : m \in {n \in MinuteIds : minutes[n] # NoMinute}}, i)]
    /\ receipts = {}
    /\ filling = NoMinute /\ cursor = -1 /\ question = NoQuestion

HistoryNext ==
    \/ \E sample \in Samples : RecordSample(sample) \/ RecordReceipt(sample)
    \/ \E new \in Inputs \union {"RECEIPTS"} : SwitchInput(new)
    \/ BackfillReads \/ BackfillCommits \/ BackfillEnds \/ Transfer
    \/ \E span \in Spans : Asks(span)
    \/ ReadSummaries \/ ReadOriginals \/ EndsQuestion

HistorySpec == HistoryInit /\ [][HistoryNext]_historyVars

-----------------------------------------------------------------------------
(* The samples of a bucket, as the question found their rows.              *)
SlotsSeen(q, b) ==
    UNION {{slot \in SlotsOf(q.seen[m]) : InSpanOf(slot.time, q.span) /\ BucketOf(slot.time, q.span) = b} :
             m \in {n \in MinuteIds : q.seen[n] # NoMinute}}

(* "Derived history summaries preserve original results": whatever mixture *)
(* of summaries, aggregates and samples was read, beside a writer and a    *)
(* backfill, no minute is left out and each bucket shows what its own      *)
(* samples amount to.                                                      *)
AnswerIsOfOriginals ==
    IsAnswered =>
        /\ \A m \in question.asked : question.seen[m] # NoMinute
        /\ \A order \in ReadOrders, b \in BucketsOf(question.span) :
              AnswerOf(question, order)[b] =
                  BucketShown(StoredIn(b, question), GroupOf(SlotsSeen(question, b)), question.span)

(* "Partial-range queries must not borrow the minute's newer last          *)
(* observation": a message named beside a value is in the span that was    *)
(* asked for, and is the message the value came from.                      *)
EvidenceIsOfItsValue ==
    IsAnswered =>
        \A order \in ReadOrders, b \in BucketsOf(question.span) :
            LET shown == AnswerOf(question, order)[b]
            IN  shown # NoGroup /\ shown.generated # NoTime =>
                    /\ InSpanOf(shown.generated, question.span)
                    /\ \E sample \in Samples :
                           /\ sample.at = shown.generated
                           /\ shown.origin # "MIXED" => sample.value = shown.value

(* An answer is that of the original samples, and its evidence is its own. *)
HistoryIsOriginal == AnswerIsOfOriginals /\ EvidenceIsOfItsValue
=============================================================================

------------------------------- MODULE Settings -------------------------------
(***************************************************************************)
(* The configuration of one pit: its row in pit_configs, its row in        *)
(* alert_policies and the history of their changes.  Two endpoints write   *)
(* the first row, one of them both; reads create what is missing           *)
(* (alert_policy_service.py, api/v1/config.py, settings_history_service.py)*)
(*                                                                         *)
(* Between its reads and its first change a request holds row locks on     *)
(* PostgreSQL and nothing on SQLite.  From the first change to the commit  *)
(* nobody else can write what it writes nor see it, so that part is one    *)
(* step; a request that fails in it leaves nothing (RequestFails).         *)
(***************************************************************************)
EXTENDS Storage, Integers, Sequences, SequencesExt

CONSTANTS
    Requests,        \* requests, each made once
    Names,           \* pit names; DefaultName is the one a read gives
    DefaultName,
    Thresholds,      \* <<warn, crit>> pairs that administrators send
    DefaultWarn, DefaultCrit

ASSUME SettingsAssumption ==
    /\ DefaultName \in Names
    /\ \A t \in Thresholds : t[1] \in 0 .. 100 /\ t[2] \in 0 .. 100
    /\ 0 <= DefaultWarn /\ DefaultWarn + 5 <= DefaultCrit /\ DefaultCrit <= 100

VARIABLES
    pit,      \* the pit_configs row
    policy,   \* the alert_policies row
    history,  \* settings_history in commit order
    shown,    \* what GET and PUT answered: [tag, values]
    clock,    \* updated_at of the next change: the clock never repeats itself
    request   \* request[r]: where request r is and what it read

settingsVars == <<pit, policy, history, shown, clock, request>>

Percent == 0 .. 100
NoPit    == [kind |-> "none"]
NoPolicy == [kind |-> "none"]
Keep == -1   \* a field that PUT /config/pits leaves out

PitRow(w, c, n, at) == [kind |-> "pit", warn |-> w, crit |-> c, name |-> n, at |-> at]
(* `enabled' stands for every column of the policy; the version counts. *)
PolicyRow(e, v) == [kind |-> "policy", enabled |-> e, version |-> v]

DefaultPit    == PitRow(DefaultWarn, DefaultCrit, DefaultName, clock)
DefaultPolicy == PolicyRow(TRUE, 1)

(* validate_alert_thresholds, whose margin is the recovery band. *)
Ordered(warn, crit) == 0 <= warn /\ warn <= crit - 5 /\ crit <= 100

(* Wrong on purpose: the policy's version alone. *)
TagOfPolicy(p, q) == [warn |-> 0, crit |-> 0, at |-> 0, version |-> q.version]

(* The entity tag: a digest of exactly these. *)
Tag(p, q) == [warn |-> p.warn, crit |-> p.crit, at |-> p.at, version |-> q.version]

Values(p, q) == [warn |-> p.warn, crit |-> p.crit, enabled |-> q.enabled]
PitValues(p) == [warn |-> p.warn, crit |-> p.crit, name |-> p.name]

Show(p, q) == shown' = shown \cup {[tag |-> Tag(p, q), values |-> Values(p, q)]}

(* record_change: only what really changed, in the writer's transaction. *)
Record(resource, before, after) ==
    history' = IF before = after THEN history
               ELSE Append(history, [resource |-> resource, before |-> before, after |-> after])

(* Row locks, held from the SELECT ... FOR UPDATE to the end. *)
PitLocked == RowLocks /\ \E r \in Requests : request[r].pc \in {"policy", "replace", "update"}
                                              /\ request[r].op # "get"

Ends(r)   == request' = [request EXCEPT ![r] = [op |-> @.op, pc |-> "over"]]
Refuse(r) == Ends(r) /\ UNCHANGED <<pit, policy, history, shown, clock>>

-----------------------------------------------------------------------------
(* GET /settings/alerts: settings_rows reads the pit, then the policy, in  *)
(* two statements, and creates what is missing.  An insert that meets the  *)
(* row of another first reader is dropped, so the row counts as read then. *)

Asks(r) ==
    /\ request[r].pc = "fresh"
    /\ request' = [request EXCEPT ![r] = [op |-> "get", pc |-> "pit"]]
    /\ UNCHANGED <<pit, policy, history, shown, clock>>

GetReadsPit(r) ==
    /\ request[r].op = "get" /\ request[r].pc = "pit"
    /\ IF pit = NoPit
       THEN /\ pit' = DefaultPit /\ policy' = DefaultPolicy /\ clock' = clock + 1
            /\ Show(DefaultPit, DefaultPolicy) /\ Ends(r)
       ELSE /\ request' = [request EXCEPT ![r] = [op |-> "get", pc |-> "policy", pit |-> pit]]
            /\ UNCHANGED <<pit, policy, shown, clock>>
    /\ UNCHANGED history

GetReadsPolicy(r) ==
    /\ request[r].op = "get" /\ request[r].pc = "policy"
    /\ policy' = IF policy = NoPolicy THEN DefaultPolicy ELSE policy
    /\ Show(request[r].pit, policy') /\ Ends(r)
    /\ UNCHANGED <<pit, history, clock>>

-----------------------------------------------------------------------------
(* PUT /settings/alerts with If-Match (replace_settings).                  *)

Replaces(r) ==
    /\ request[r].pc = "fresh"
    /\ \E s \in shown, t \in Thresholds, e \in BOOLEAN :
          /\ Ordered(t[1], t[2])   \* AlertSettingsUpdate; else 422
          /\ request' = [request EXCEPT ![r] =
                [op |-> "put", pc |-> "pit", tag |-> s.tag,
                 new |-> [warn |-> t[1], crit |-> t[2], enabled |-> e]]]
    /\ UNCHANGED <<pit, policy, history, shown, clock>>

PutReadsPit(r) ==
    /\ request[r].op = "put" /\ request[r].pc = "pit" /\ ~PitLocked
    /\ IF pit = NoPit THEN Refuse(r)
       ELSE /\ request' = [request EXCEPT ![r] =
                  [op |-> "put", pc |-> "policy", tag |-> @.tag, new |-> @.new, pit |-> pit]]
            /\ UNCHANGED <<pit, policy, history, shown, clock>>

(* 412 unless the rows just read are those the client has seen. *)
PutReadsPolicy(r) ==
    /\ request[r].op = "put" /\ request[r].pc = "policy"
    /\ IF policy # NoPolicy /\ request[r].tag = Tag(request[r].pit, policy)
       THEN /\ request' = [request EXCEPT ![r] =
                  [op |-> "put", pc |-> "replace", tag |-> @.tag, new |-> @.new,
                   pit |-> @.pit, policy |-> policy]]
            /\ UNCHANGED <<pit, policy, history, shown, clock>>
       ELSE Refuse(r)

(* Wrong on purpose: only the policy's version is compared. *)
VersionAsRead(q) == policy.version = q.policy.version

(* The WHERE clauses of the two UPDATEs. *)
RowsAsRead(q) ==
    /\ policy.version = q.policy.version
    /\ pit.at = q.pit.at /\ pit.warn = q.pit.warn /\ pit.crit = q.pit.crit

PutWrites(r) ==
    LET q == request[r]
        p == [pit EXCEPT !.warn = q.new.warn, !.crit = q.new.crit, !.at = clock]
        n == PolicyRow(q.new.enabled, q.policy.version + 1)
    IN /\ q.pc = "replace"
       /\ IF RowsAsRead(q)
          THEN /\ pit' = p /\ policy' = n /\ clock' = clock + 1
               /\ Record("alert_settings", Values(q.pit, q.policy), Values(p, n))
               /\ Show(p, n) /\ Ends(r)
          ELSE Refuse(r)

-----------------------------------------------------------------------------
(* PUT /config/pits/{pit_id} (update_pit_config): any subset of the fields, *)
(* without If-Match.                                                       *)

Updates(r) ==
    /\ request[r].pc = "fresh"
    /\ \E t \in Thresholds, w, c \in BOOLEAN, n \in Names \cup {Keep} :
          request' = [request EXCEPT ![r] =
             [op |-> "pit", pc |-> "read",
              new |-> [warn |-> IF w THEN t[1] ELSE Keep, crit |-> IF c THEN t[2] ELSE Keep,
                       name |-> n]]]
    /\ UNCHANGED <<pit, policy, history, shown, clock>>

(* Wrong on purpose: a field left out is written as left out. *)
Sent(value, other) == value

Given(value, other) == IF value = Keep THEN other ELSE value

(* The values asked for, over the row read or the defaults. *)
Merged(new, row) ==
    LET old == IF row = NoPit THEN DefaultPit ELSE row
    IN [warn |-> Given(new.warn, old.warn), crit |-> Given(new.crit, old.crit),
        name |-> Given(new.name, old.name)]

Acceptable(v) == Ordered(v.warn, v.crit)

PitReads(r) ==
    /\ request[r].pc = "read" /\ ~PitLocked
    /\ IF Acceptable(Merged(request[r].new, pit))
       THEN /\ request' = [request EXCEPT ![r] =
                  [op |-> "pit", pc |-> IF pit = NoPit THEN "create" ELSE "update",
                   new |-> Merged(@.new, pit), pit |-> pit]]
            /\ UNCHANGED <<pit, policy, history, shown, clock>>
       ELSE Refuse(r)   \* 422

(* The insert meets another one's row: 409. *)
PitCreates(r) ==
    LET v == request[r].new
        p == PitRow(v.warn, v.crit, v.name, clock)
    IN /\ request[r].pc = "create"
       /\ IF pit = NoPit
          THEN /\ pit' = p /\ clock' = clock + 1
               /\ Record("pit_config", NoPit, PitValues(p)) /\ Ends(r)
               /\ UNCHANGED <<policy, shown>>
          ELSE Refuse(r)

(* Wrong on purpose: FOR UPDATE is trusted to have locked the row. *)
PitPresent(q) == TRUE

(* The WHERE clause: every former value and updated_at; else 409. *)
PitAsRead(q) == pit = q.pit

PitWrites(r) ==
    LET q == request[r]
        unchanged == q.new = PitValues(q.pit)
        p == PitRow(q.new.warn, q.new.crit, q.new.name, IF unchanged THEN q.pit.at ELSE clock)
    IN /\ q.pc = "update"
       /\ IF PitAsRead(q)
          THEN /\ pit' = p /\ clock' = IF unchanged THEN clock ELSE clock + 1
               /\ Record("pit_config", PitValues(q.pit), PitValues(p)) /\ Ends(r)
               /\ UNCHANGED <<policy, shown>>
          ELSE Refuse(r)

-----------------------------------------------------------------------------
(* GET /config/pits on an empty table adds a default pit; a second reader  *)
(* that does so at once fails.                                             *)
ListPits(r) ==
    /\ request[r].pc = "fresh" /\ pit = NoPit
    /\ pit' = DefaultPit /\ clock' = clock + 1
    /\ request' = [request EXCEPT ![r] = [op |-> "list", pc |-> "over"]]
    /\ UNCHANGED <<policy, history, shown>>

RequestFails(r) ==
    /\ request[r].pc \notin {"fresh", "over"}
    /\ Refuse(r)
=============================================================================

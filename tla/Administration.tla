---------------------------- MODULE Administration ----------------------------
(***************************************************************************)
(* Administrators at work: the requests of Settings, each let in by a      *)
(* session of Sessions (api/admin_access.py).  The check is a transaction  *)
(* of its own, rolled back before the request proper begins, so a session  *)
(* may end while its request goes on.                                      *)
(***************************************************************************)
EXTENDS Sessions, Settings

vars == <<dialect, account, session, login, reset, leaving,
          pit, policy, history, shown, clock, request>>

(* require_administrator, require_admin_change: 401 without a session.     *)
LetIn == \E t \in Tokens : Honoured(t)

(* The database as an administrator may find it: new, with a pit that an   *)
(* earlier release left without a policy, or configured and on a screen.   *)
ConfigurationInit ==
    /\ clock = 1 /\ history = <<>>
    /\ request = [r \in Requests |-> [op |-> "none", pc |-> "fresh"]]
    /\ \/ pit = NoPit /\ policy = NoPolicy /\ shown = {}
       \/ /\ pit = PitRow(DefaultWarn, DefaultCrit, DefaultName, 0)
          /\ \/ policy = NoPolicy /\ shown = {}
             \/ /\ policy = DefaultPolicy
                /\ shown = {[tag |-> Tag(pit, policy), values |-> Values(pit, policy)]}

Init ==
    /\ dialect \in Dialects
    /\ SessionsInit
    /\ ConfigurationInit

Begins(r) ==
    /\ LetIn
    /\ Asks(r) \/ Replaces(r) \/ Updates(r) \/ ListPits(r)

Continues(r) ==
    \/ GetReadsPit(r) \/ GetReadsPolicy(r)
    \/ PutReadsPit(r) \/ PutReadsPolicy(r) \/ PutWrites(r)
    \/ PitReads(r) \/ PitCreates(r) \/ PitWrites(r)
    \/ RequestFails(r)

Next ==
    \/ SessionsNext /\ UNCHANGED <<dialect, settingsVars>>
    \/ \E r \in Requests : (Begins(r) \/ Continues(r)) /\ UNCHANGED <<dialect, sessionsVars>>

Spec == Init /\ [][Next]_vars

-----------------------------------------------------------------------------
(* Properties.                                                             *)

TypeOK ==
    /\ dialect \in Dialects
    /\ SessionsTypeOK
    /\ pit = NoPit \/ pit \in [kind : {"pit"}, warn : Percent, crit : Percent,
                                name : Names, at : 0 .. clock - 1]
    /\ policy = NoPolicy \/ policy \in [kind : {"policy"}, enabled : BOOLEAN, version : Nat]
    /\ policy # NoPolicy => pit # NoPit

(* A client that holds the current tag has seen the current values, even   *)
(* if its GET read the two rows at different moments.                      *)
TagsTellTheTruth ==
    policy # NoPolicy =>
       \A s \in shown : s.tag = Tag(pit, policy) => s.values = Values(pit, policy)

(* If-Match: a PUT that succeeds replaces exactly the version its client   *)
(* named.  No change of either endpoint is overwritten unseen, on either   *)
(* database ("Compare-and-update is necessary on SQLite").                 *)
NoLostUpdate ==
    [][\A r \in Requests :
          request[r].pc = "replace" /\ policy' # policy /\ request'[r].pc = "over"
             => request[r].tag = Tag(pit, policy)]_vars

(* The latest recorded value of a field before entry i, if any. *)
Recorded(field, i) ==
    LET carriers == {j \in 1 .. i - 1 : field \in DOMAIN history[j].after}
    IN IF carriers = {} THEN {}
       ELSE {history[CHOOSE j \in carriers : \A k \in carriers : k <= j].after[field]}

Current(field) == IF field = "enabled" THEN policy.enabled ELSE pit[field]

(* The history of both endpoints is one story: every entry starts from     *)
(* what the entries before it left, and the last ones left what is stored  *)
(* ("the history cannot claim a predecessor that another writer replaced").*)
HistoryReplays ==
    /\ \A i \in DOMAIN history : \A field \in DOMAIN history[i].before \ {"kind"} :
          Recorded(field, i) \subseteq {history[i].before[field]}
    /\ \A field \in {"warn", "crit", "name", "enabled"} :
          Recorded(field, Len(history) + 1) # {} =>
             Recorded(field, Len(history) + 1) = {Current(field)}
=============================================================================

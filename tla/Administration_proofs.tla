------------------------ MODULE Administration_proofs ------------------------
(***************************************************************************)
(* Theorems about Administration: any number of cookies, of resets and of  *)
(* requests, on either database; and about Recipients: any number of       *)
(* editors, addresses, recipients and versions.                            *)
(***************************************************************************)
EXTENDS Administration, Recipients, LeastNumber, TLAPS

USE SessionsAssumption DEF SessionsAssumption

-----------------------------------------------------------------------------
(* Sessions.  A reset replaces the hash and the version together, so that  *)
(* what knows the version in force knows the hash in force.                *)

(* Resets are counted by the version; the bound admits the one under way.  *)
ResetsCounted ==
    /\ account.version = account.hash + 1
    /\ reset = "write" => account.version <= MaxResets

(* A hash that was verified under a version is that version's. *)
Knows(hash, version) ==
    /\ version <= account.version
    /\ version = account.version => hash = account.hash

LoginsKnow ==
    \A t \in Tokens : login[t].pc \in {"lookup", "insert"} => Knows(login[t].hash, login[t].version)

RowsKnow == \A t \in Tokens : HasRow(t) => Knows(session[t].knew, session[t].version)

SInv == SessionsTypeOK /\ ResetsCounted /\ LoginsKnow /\ RowsKnow

LEMMA SessionsBegin == SessionsInit => SInv
BY DEF SessionsInit, SInv, SessionsTypeOK, ResetsCounted, LoginsKnow, RowsKnow, Hashes, Versions,
       NoRow, Fresh, Logins, HasRow

LEMMA AuthenticateKeeps == ASSUME SInv, NEW t \in Tokens, Authenticate(t) PROVE SInv'
<1>1. SessionsTypeOK'
  BY DEF SInv, SessionsTypeOK, Authenticate, Logins
<1>2. ResetsCounted' /\ RowsKnow'
  BY DEF SInv, ResetsCounted, RowsKnow, HasRow, Knows, Authenticate
<1>3. LoginsKnow'
  BY DEF SInv, SessionsTypeOK, LoginsKnow, Knows, Authenticate, Hashes, Versions
<1> QED BY <1>1, <1>2, <1>3 DEF SInv

LEMMA LookupKeeps == ASSUME SInv, NEW t \in Tokens, Lookup(t) PROVE SInv'
<1>1. login[t] \in [pc : {"lookup", "insert"}, hash : Hashes, version : Versions]
  BY DEF SInv, SessionsTypeOK, Logins, Lookup, Fresh, Over
<1>2. SessionsTypeOK'
  BY <1>1 DEF SInv, SessionsTypeOK, Lookup, Logins
<1>3. ResetsCounted' /\ RowsKnow'
  BY DEF SInv, ResetsCounted, RowsKnow, HasRow, Knows, Lookup
<1>4. LoginsKnow'
  BY <1>1 DEF SInv, SessionsTypeOK, LoginsKnow, Knows, Lookup, SameCredential, Over, Hashes, Versions
<1> QED BY <1>2, <1>3, <1>4 DEF SInv

LEMMA InsertKeeps == ASSUME SInv, NEW t \in Tokens, Insert(t) PROVE SInv'
<1>1. login[t] \in [pc : {"lookup", "insert"}, hash : Hashes, version : Versions]
  BY DEF SInv, SessionsTypeOK, Logins, Insert, Fresh, Over
<1>2. Row(login[t].version, login[t].hash) \in Rows
  BY <1>1 DEF Row, Rows
<1>3. SessionsTypeOK'
  <2>1. session' \in [Tokens -> {NoRow} \cup Rows]
    BY <1>2 DEF SInv, SessionsTypeOK, Insert
  <2> QED BY <2>1 DEF SInv, SessionsTypeOK, Insert, Logins
<1>4. ResetsCounted' /\ LoginsKnow'
  BY DEF SInv, SessionsTypeOK, ResetsCounted, LoginsKnow, Knows, Insert, Over
<1>5. RowsKnow'
  BY <1>1 DEF SInv, LoginsKnow, RowsKnow, HasRow, Knows, Insert, Row, NoRow
<1> QED BY <1>3, <1>4, <1>5 DEF SInv

(* What only ends log-ins, ends rows or lets them expire, teaches nobody.  *)
LEMMA EndingKeeps ==
    ASSUME SInv, NEW t \in Tokens,
           LoginFails(t) \/ LogoutChecks(t) \/ LogoutDeletes(t) \/ Expire(t)
    PROVE  SInv'
<1>1. CASE LoginFails(t)
  BY <1>1 DEF SInv, SessionsTypeOK, ResetsCounted, LoginsKnow, RowsKnow, HasRow, Knows,
              LoginFails, Logins, Over
<1>2. CASE LogoutChecks(t)
  BY <1>2 DEF SInv, SessionsTypeOK, ResetsCounted, LoginsKnow, RowsKnow, HasRow, Knows, LogoutChecks
<1>3. CASE LogoutDeletes(t)
  BY <1>3 DEF SInv, SessionsTypeOK, ResetsCounted, LoginsKnow, RowsKnow, HasRow, Knows,
              LogoutDeletes, NoRow
<1>4. CASE Expire(t)
  <2>1. session[t] \in Rows
    BY <1>4 DEF SInv, SessionsTypeOK, Expire, HasRow, NoRow
  <2>2. [session[t] EXCEPT !.expired = TRUE] \in Rows
    BY <2>1 DEF Rows
  <2> QED BY <1>4, <2>1, <2>2 DEF SInv, SessionsTypeOK, ResetsCounted, LoginsKnow, RowsKnow,
                                 HasRow, Knows, Expire, Rows
<1> QED BY <1>1, <1>2, <1>3, <1>4

(* The commit of a reset leaves no row, and every log-in on its way behind. *)
LEMMA ResetKeeps ==
    ASSUME SInv, ResetLocks \/ ResetWrites \/ ResetFails PROVE SInv'
<1>1. CASE ResetLocks
  BY <1>1 DEF SInv, SessionsTypeOK, ResetsCounted, LoginsKnow, RowsKnow, HasRow, Knows, ResetLocks
<1>2. CASE ResetWrites
  <2>1. account' \in [hash : Hashes, version : Versions] /\ ResetsCounted'
    BY <1>2 DEF SInv, SessionsTypeOK, ResetsCounted, ResetWrites, Hashes, Versions
  <2>2. SessionsTypeOK' /\ RowsKnow'
    BY <1>2, <2>1 DEF SInv, SessionsTypeOK, RowsKnow, HasRow, NoRow, ResetWrites
  <2>3. LoginsKnow'
    <3> SUFFICES ASSUME NEW t \in Tokens, login[t].pc \in {"lookup", "insert"}
                 PROVE  Knows(login[t].hash, login[t].version)'
      BY <1>2 DEF LoginsKnow, ResetWrites
    <3>1. login[t].version \in Versions /\ login[t].version <= account.version
      BY DEF SInv, SessionsTypeOK, LoginsKnow, Knows, Logins, Fresh, Over
    <3> QED BY <1>2, <3>1 DEF SInv, SessionsTypeOK, ResetWrites, Knows, Versions
  <2> QED BY <2>1, <2>2, <2>3 DEF SInv
<1>3. CASE ResetFails
  BY <1>3 DEF SInv, SessionsTypeOK, ResetsCounted, LoginsKnow, RowsKnow, HasRow, Knows, ResetFails
<1> QED BY <1>1, <1>2, <1>3

LEMMA SessionsStep == ASSUME SInv, [SessionsNext]_sessionsVars PROVE SInv'
<1>1. CASE SessionsNext
  BY <1>1, ResetKeeps, AuthenticateKeeps, LookupKeeps, InsertKeeps, EndingKeeps DEF SessionsNext
<1>2. CASE UNCHANGED sessionsVars
  BY <1>2 DEF sessionsVars, SInv, SessionsTypeOK, ResetsCounted, LoginsKnow, RowsKnow, HasRow, Knows
<1> QED BY <1>1, <1>2

(* A password reset ends every earlier session for good: whoever get_session *)
(* honours has proved the password in force.                               *)
THEOREM PasswordKnown == Spec => []HonouredKnowThePassword
<1>1. Init => SInv
  BY SessionsBegin DEF Init
<1>2. SInv /\ [Next]_vars => SInv'
  <2>1. [Next]_vars => [SessionsNext]_sessionsVars
    BY DEF Next, vars, sessionsVars
  <2> QED BY <2>1, SessionsStep
<1>3. SInv => HonouredKnowThePassword
  BY DEF SInv, RowsKnow, Knows, HonouredKnowThePassword, Honoured
<1> QED BY <1>1, <1>2, <1>3, PTL DEF Spec
-----------------------------------------------------------------------------
(* Settings.  A PUT that has compared its tag remembers the rows it is the *)
(* tag of; a version of the policy is one setting, and so is a tag.        *)

(* A row of the pit, whatever its values; DOMAIN is all that is needed of  *)
(* the requests' type.                                                     *)
PitRows(S) == [kind : {"pit"}, warn : S, crit : S, name : S, at : S]

PolicyOK ==
    /\ DOMAIN request = Requests
    /\ pit # NoPit => \E S : pit \in PitRows(S)
    /\ policy # NoPolicy => policy.version \in Nat /\ pit # NoPit

(* A pit that was read stays, and so does a policy; and a PUT is carried   *)
(* out under the tag of what it read.                                      *)
ReplacesOK ==
    \A r \in Requests :
        /\ request[r].pc = "policy" => pit # NoPit
        /\ request[r].pc = "replace" =>
              /\ policy # NoPolicy
              /\ request[r].tag = Tag(request[r].pit, request[r].policy)

ShownOK ==
    /\ policy = NoPolicy => shown = {}
    /\ \A s \in shown :
          /\ s.values = [warn |-> s.tag.warn, crit |-> s.tag.crit,
                         enabled |-> s.values.enabled]
          /\ s.tag.version \in Nat /\ s.tag.version <= policy.version
          /\ s.tag.version = policy.version => s.values.enabled = policy.enabled

TInv == PolicyOK /\ ReplacesOK /\ ShownOK

LEMMA PoliciesExist ==
    /\ NoPolicy # DefaultPolicy /\ NoPit # DefaultPit
    /\ DefaultPolicy.version = 1
    /\ \A e, v : NoPolicy # PolicyRow(e, v) /\ PolicyRow(e, v).version = v
    /\ \A S : NoPit \notin PitRows(S)
BY DEF NoPolicy, DefaultPolicy, PolicyRow, NoPit, DefaultPit, PitRow, PitRows

LEMMA IsPitRow ==
    ASSUME NEW w, NEW c, NEW n, NEW at
    PROVE  /\ PitRow(w, c, n, at) # NoPit
           /\ \E S : PitRow(w, c, n, at) \in PitRows(S)
<1>1. PitRow(w, c, n, at) \in PitRows({w, c, n, at})
  BY DEF PitRow, PitRows
<1> QED BY <1>1 DEF PitRow, NoPit

LEMMA SettingsBegin == ConfigurationInit => TInv
<1> SUFFICES ASSUME ConfigurationInit PROVE TInv
  OBVIOUS
<1>1. PolicyOK
  <2>1. pit # NoPit => \E S : pit \in PitRows(S)
    BY IsPitRow DEF ConfigurationInit
  <2>2. policy # NoPolicy => policy.version \in Nat /\ pit # NoPit
    BY PoliciesExist, IsPitRow DEF ConfigurationInit
  <2> QED BY <2>1, <2>2 DEF ConfigurationInit, PolicyOK
<1>2. ReplacesOK
  BY DEF ConfigurationInit, ReplacesOK
<1>3. ShownOK
  BY PoliciesExist DEF ConfigurationInit, ShownOK, Tag, Values, DefaultPolicy, PolicyRow
<1> QED BY <1>1, <1>2, <1>3 DEF TInv

(* A request that neither shows nor changes anything but itself. *)
LEMMA RequestMoves ==
    ASSUME TInv, NEW r \in Requests, NEW q,
           request' = [request EXCEPT ![r] = q],
           UNCHANGED <<policy, shown>>,
           pit' = pit \/ \E S : pit' \in PitRows(S),
           q.pc = "policy" => pit # NoPit,
           q.pc = "replace" => policy # NoPolicy /\ q.tag = Tag(q.pit, q.policy)
    PROVE  TInv'
<1>1. DOMAIN request = Requests
  BY DEF TInv, PolicyOK
<1>2. \A s \in Requests : request'[s] = IF s = r THEN q ELSE request[s]
  BY <1>1
<1>3. PolicyOK'
  BY <1>1 DEF TInv, PolicyOK, NoPit, NoPolicy, PitRows
<1>4. ReplacesOK'
  <2> SUFFICES ASSUME NEW s \in Requests
               PROVE  /\ request'[s].pc = "policy" => pit # NoPit
                      /\ request'[s].pc = "replace" =>
                            policy # NoPolicy /\ request'[s].tag = Tag(request'[s].pit, request'[s].policy)
    BY DEF ReplacesOK, NoPolicy, NoPit, PitRows, Tag
  <2>1. CASE s = r
    BY <1>2, <2>1
  <2>2. CASE s # r
    BY <1>2, <2>2 DEF TInv, ReplacesOK
  <2> QED BY <2>1, <2>2
<1>5. ShownOK'
  BY DEF TInv, ShownOK, NoPolicy
<1> QED BY <1>3, <1>4, <1>5 DEF TInv

LEMMA RefuseKeeps == ASSUME TInv, NEW r \in Requests, Refuse(r) PROVE TInv'
<1> DEFINE q == [op |-> request[r].op, pc |-> "over"]
<1>1. request' = [request EXCEPT ![r] = q] /\ UNCHANGED <<pit, policy, shown>>
  BY DEF Refuse, Ends
<1>2. q.pc = "over"
  OBVIOUS
<1> HIDE DEF q
<1> QED BY <1>1, <1>2, RequestMoves

(* What a request shows, it shows of the policy in force. *)
LEMMA ShowKeeps ==
    ASSUME TInv, NEW p, NEW n, n # NoPolicy, n.version \in Nat, Show(p, n), policy' = n,
           policy # NoPolicy => n = policy \/ n.version > policy.version
    PROVE  ShownOK'
<1> SUFFICES ASSUME NEW s \in shown'
             PROVE  /\ s.values = [warn |-> s.tag.warn, crit |-> s.tag.crit,
                                   enabled |-> s.values.enabled]
                    /\ s.tag.version \in Nat /\ s.tag.version <= n.version
                    /\ s.tag.version = n.version => s.values.enabled = n.enabled
  BY DEF ShownOK, NoPolicy
<1>1. CASE s = [tag |-> Tag(p, n), values |-> Values(p, n)]
  BY <1>1 DEF Tag, Values
<1>2. CASE s \in shown
  <2>1. policy # NoPolicy
    BY <1>2 DEF TInv, ShownOK
  <2>2. policy.version \in Nat
    BY <2>1 DEF TInv, PolicyOK
  <2> QED BY <1>2, <2>1, <2>2 DEF TInv, ShownOK
<1> QED BY <1>1, <1>2 DEF Show

(* A request that ends; the policy may be made, or replaced by a later one. *)
LEMMA EndKeeps ==
    ASSUME TInv, NEW r \in Requests, Ends(r), policy' # NoPolicy, pit' # NoPit, PolicyOK', ShownOK'
    PROVE  TInv'
<1>1. \A s \in Requests : request'[s] = IF s = r THEN [op |-> request[r].op, pc |-> "over"]
                                        ELSE request[s]
  BY DEF TInv, PolicyOK, Ends
<1>2. ReplacesOK'
  BY <1>1 DEF TInv, ReplacesOK, NoPolicy, NoPit, Tag
<1> QED BY <1>2 DEF TInv

LEMMA DomainKept ==
    ASSUME TInv, NEW r \in Requests, Ends(r) PROVE DOMAIN request' = Requests
BY DEF TInv, PolicyOK, Ends

LEMMA PutWritesKeeps ==
    ASSUME TInv, NEW r \in Requests, PutWrites(r) PROVE TInv'
<1> DEFINE q == request[r]
           p == [pit EXCEPT !.warn = q.new.warn, !.crit = q.new.crit, !.at = clock]
           n == PolicyRow(q.new.enabled, q.policy.version + 1)
<1>1. CASE ~RowsAsRead(q)
  BY <1>1, RefuseKeeps DEF PutWrites
<1>2. CASE RowsAsRead(q)
  <2>1. /\ pit' = p /\ policy' = n /\ Show(p, n) /\ Ends(r) /\ q.pc = "replace"
        /\ policy # NoPolicy /\ policy.version = q.policy.version
    BY <1>2 DEF PutWrites, RowsAsRead, TInv, ReplacesOK
  <2>2. n # NoPolicy /\ n.version = q.policy.version + 1 /\ policy.version \in Nat /\ pit # NoPit
    BY <2>1, PoliciesExist DEF TInv, PolicyOK
  <2>3. \E S : p \in PitRows(S)
    <3>1. PICK S : pit \in PitRows(S)
      BY <2>2 DEF TInv, PolicyOK
    <3> DEFINE T == S \cup {q.new.warn, q.new.crit, clock}
    <3>2. pit \in PitRows(T) /\ q.new.warn \in T /\ q.new.crit \in T /\ clock \in T
      BY <3>1 DEF PitRows
    <3> HIDE DEF T
    <3>3. p \in PitRows(T)
      BY <3>2 DEF PitRows
    <3> QED BY <3>3
  <2> HIDE DEF p, n
  <2>4. PolicyOK'
    BY <2>1, <2>2, <2>3, DomainKept, PoliciesExist DEF PolicyOK, NoPolicy, NoPit
  <2>5. ShownOK'
    BY <2>1, <2>2, ShowKeeps
  <2> QED BY <2>1, <2>2, <2>3, <2>4, <2>5, PoliciesExist, EndKeeps DEF NoPolicy, NoPit
<1> QED BY <1>1, <1>2

(* GET makes what is missing. *)
LEMMA GetKeeps ==
    ASSUME TInv, NEW r \in Requests, GetReadsPit(r) \/ GetReadsPolicy(r) PROVE TInv'
<1>1. CASE GetReadsPit(r) /\ pit = NoPit
  <2>1. /\ pit' = DefaultPit /\ policy' = DefaultPolicy /\ Show(DefaultPit, DefaultPolicy) /\ Ends(r)
        /\ policy = NoPolicy
    BY <1>1 DEF GetReadsPit, TInv, PolicyOK
  <2>2. \E S : DefaultPit \in PitRows(S)
    BY IsPitRow DEF DefaultPit
  <2>3. PolicyOK'
    <3> HIDE DEF DefaultPit
    <3> QED BY <2>1, <2>2, PoliciesExist, DomainKept DEF PolicyOK, NoPit, NoPolicy
  <2>4. ShownOK'
    BY <2>1, PoliciesExist, ShowKeeps
  <2> QED BY <2>1, <2>3, <2>4, PoliciesExist, EndKeeps DEF NoPolicy, NoPit
<1>2. CASE GetReadsPit(r) /\ pit # NoPit
  <2> DEFINE q == [op |-> "get", pc |-> "policy", pit |-> pit]
  <2>1. /\ request' = [request EXCEPT ![r] = q] /\ UNCHANGED <<pit, policy, shown>>
        /\ q.pc = "policy" /\ pit # NoPit
    BY <1>2 DEF GetReadsPit
  <2> HIDE DEF q
  <2> QED BY <2>1, RequestMoves
<1>3. CASE GetReadsPolicy(r)
  <2>1. /\ policy' = IF policy = NoPolicy THEN DefaultPolicy ELSE policy
        /\ Show(request[r].pit, policy') /\ Ends(r) /\ UNCHANGED pit
    BY <1>3 DEF GetReadsPolicy
  <2>2. pit # NoPit => \E S : pit \in PitRows(S)
    BY DEF TInv, PolicyOK
  <2>3. pit # NoPit
    BY <1>3 DEF GetReadsPolicy, TInv, ReplacesOK
  <2>4. /\ policy' # NoPolicy /\ policy'.version \in Nat
        /\ policy # NoPolicy => policy' = policy
    BY <2>1, PoliciesExist DEF TInv, PolicyOK
  <2>5. PolicyOK'
    BY <2>1, <2>2, <2>3, <2>4, DomainKept DEF PolicyOK, NoPit, NoPolicy, PitRows
  <2>6. ShownOK'
    BY <2>1, <2>4, ShowKeeps
  <2> QED BY <2>1, <2>3, <2>4, <2>5, <2>6, EndKeeps DEF NoPolicy, NoPit
<1> QED BY <1>1, <1>2, <1>3

LEMMA PutReadsKeep ==
    ASSUME TInv, NEW r \in Requests, PutReadsPit(r) \/ PutReadsPolicy(r) PROVE TInv'
<1>1. CASE Refuse(r)
  BY <1>1, RefuseKeeps
<1>2. CASE PutReadsPit(r) /\ ~Refuse(r)
  <2> DEFINE q == [op |-> "put", pc |-> "policy", tag |-> request[r].tag, new |-> request[r].new, pit |-> pit]
  <2>1. /\ request' = [request EXCEPT ![r] = q] /\ UNCHANGED <<pit, policy, shown>>
        /\ q.pc = "policy" /\ pit # NoPit
    BY <1>2 DEF PutReadsPit
  <2> HIDE DEF q
  <2> QED BY <2>1, RequestMoves
<1>3. CASE PutReadsPolicy(r) /\ ~Refuse(r)
  <2> DEFINE q == [op |-> "put", pc |-> "replace", tag |-> request[r].tag, new |-> request[r].new,
                   pit |-> request[r].pit, policy |-> policy]
  <2>1. /\ request' = [request EXCEPT ![r] = q] /\ UNCHANGED <<pit, policy, shown>>
        /\ q.pc = "replace" /\ policy # NoPolicy /\ q.tag = Tag(q.pit, q.policy)
    BY <1>3 DEF PutReadsPolicy
  <2> HIDE DEF q
  <2> QED BY <2>1, RequestMoves
<1> QED BY <1>1, <1>2, <1>3

LEMMA BeginsKeep ==
    ASSUME TInv, NEW r \in Requests, Asks(r) \/ Replaces(r) \/ Updates(r) \/ ListPits(r)
    PROVE  TInv'
<1>1. CASE Asks(r)
  <2> DEFINE q == [op |-> "get", pc |-> "pit"]
  <2>1. request' = [request EXCEPT ![r] = q] /\ UNCHANGED <<pit, policy, shown>> /\ q.pc = "pit"
    BY <1>1 DEF Asks
  <2> HIDE DEF q
  <2> QED BY <2>1, RequestMoves
<1>2. CASE Replaces(r)
  <2>1. PICK s \in shown, t \in Thresholds, e \in BOOLEAN :
           request' = [request EXCEPT ![r] =
                         [op |-> "put", pc |-> "pit", tag |-> s.tag,
                          new |-> [warn |-> t[1], crit |-> t[2], enabled |-> e]]]
    BY <1>2 DEF Replaces
  <2> DEFINE q == [op |-> "put", pc |-> "pit", tag |-> s.tag,
                   new |-> [warn |-> t[1], crit |-> t[2], enabled |-> e]]
  <2>2. request' = [request EXCEPT ![r] = q] /\ UNCHANGED <<pit, policy, shown>> /\ q.pc = "pit"
    BY <1>2, <2>1 DEF Replaces
  <2> HIDE DEF q
  <2> QED BY <2>2, RequestMoves
<1>3. CASE Updates(r)
  <2>1. PICK new : request' = [request EXCEPT ![r] = [op |-> "pit", pc |-> "read", new |-> new]]
    BY <1>3 DEF Updates
  <2> DEFINE q == [op |-> "pit", pc |-> "read", new |-> new]
  <2>2. request' = [request EXCEPT ![r] = q] /\ UNCHANGED <<pit, policy, shown>> /\ q.pc = "read"
    BY <1>3, <2>1 DEF Updates
  <2> HIDE DEF q
  <2> QED BY <2>2, RequestMoves
<1>4. CASE ListPits(r)
  <2> DEFINE q == [op |-> "list", pc |-> "over"]
  <2>1. /\ request' = [request EXCEPT ![r] = q] /\ pit' = DefaultPit
        /\ UNCHANGED <<policy, shown>> /\ q.pc = "over"
    BY <1>4 DEF ListPits
  <2>2. \E S : DefaultPit \in PitRows(S)
    BY IsPitRow DEF DefaultPit
  <2> HIDE DEF q
  <2> QED BY <2>1, <2>2, RequestMoves
<1> QED BY <1>1, <1>2, <1>3, <1>4

LEMMA PitKeeps ==
    ASSUME TInv, NEW r \in Requests, PitReads(r) \/ PitCreates(r) \/ PitWrites(r) PROVE TInv'
<1>1. CASE Refuse(r)
  BY <1>1, RefuseKeeps
<1>2. CASE PitReads(r) /\ ~Refuse(r)
  <2>1. PICK q : request' = [request EXCEPT ![r] = q] /\ q.pc \notin {"policy", "replace"}
    BY <1>2 DEF PitReads
  <2> QED BY <1>2, <2>1, RequestMoves DEF PitReads
<1>3. CASE (PitCreates(r) \/ PitWrites(r)) /\ ~Refuse(r)
  <2> DEFINE q == [op |-> request[r].op, pc |-> "over"]
  <2>1. /\ request' = [request EXCEPT ![r] = q] /\ UNCHANGED <<policy, shown>> /\ q.pc = "over"
    BY <1>3 DEF PitCreates, PitWrites, Ends
  <2>2. PICK w, c, n, at : pit' = PitRow(w, c, n, at)
    BY <1>3 DEF PitCreates, PitWrites
  <2>3. \E S : pit' \in PitRows(S)
    BY <2>2, IsPitRow
  <2> HIDE DEF q
  <2> QED BY <2>1, <2>3, RequestMoves
<1> QED BY <1>1, <1>2, <1>3

LEMMA SettingsStep == ASSUME TInv, [Next]_vars PROVE TInv'
<1>1. CASE \E r \in Requests : Begins(r) \/ Continues(r)
  BY <1>1, BeginsKeep, GetKeeps, PutReadsKeep, PutWritesKeeps, PitKeeps, RefuseKeeps
  DEF Begins, Continues, RequestFails
<1>2. CASE UNCHANGED settingsVars
  BY <1>2 DEF settingsVars, TInv, PolicyOK, ReplacesOK, ShownOK, NoPolicy, NoPit, Tag
<1> QED BY <1>1, <1>2 DEF Next, vars, settingsVars

LEMMA SettingsInvariant == Spec => []TInv
<1>1. Init => TInv
  BY SettingsBegin DEF Init
<1> QED BY <1>1, SettingsStep, PTL DEF Spec

(* A client that holds the tag in force has seen the values in force, even *)
(* though a GET reads the two rows at different moments.                   *)
THEOREM TagsTrue == Spec => []TagsTellTheTruth
<1>1. TInv => TagsTellTheTruth
  <2> SUFFICES ASSUME TInv, policy # NoPolicy, NEW s \in shown, s.tag = Tag(pit, policy)
               PROVE  s.values = Values(pit, policy)
    BY DEF TagsTellTheTruth
  <2>1. s.tag.warn = pit.warn /\ s.tag.crit = pit.crit /\ s.tag.version = policy.version
    BY DEF Tag
  <2>2. /\ s.values = [warn |-> s.tag.warn, crit |-> s.tag.crit, enabled |-> s.values.enabled]
        /\ s.tag.version = policy.version => s.values.enabled = policy.enabled
    BY DEF TInv, ShownOK
  <2>3. s.values = [warn |-> pit.warn, crit |-> pit.crit, enabled |-> policy.enabled]
    BY <2>1, <2>2
  <2> QED BY <2>3 DEF Values
<1> QED BY <1>1, SettingsInvariant, PTL

(* A PUT that succeeds replaces exactly the version its client named,      *)
(* whatever other requests of either endpoint committed in between.        *)
THEOREM NothingLost == Spec => NoLostUpdate
<1> DEFINE Named(r) == request[r].pc = "replace" /\ policy' # policy /\ request'[r].pc = "over"
                          => request[r].tag = Tag(pit, policy)
<1>1. ASSUME TInv, [Next]_vars, NEW r \in Requests PROVE Named(r)
  <2>1. CASE policy' = policy
    BY <2>1
  <2>2. CASE PutWrites(r) /\ policy' # policy
    <3>1. RowsAsRead(request[r])
      BY <2>2 DEF PutWrites, Refuse
    <3> QED BY <1>1, <3>1 DEF TInv, ReplacesOK, RowsAsRead, Tag
  <2>3. CASE ~PutWrites(r) /\ policy' # policy
    <3>1. PICK s \in Requests : GetReadsPit(s) \/ GetReadsPolicy(s) \/ PutWrites(s)
      BY <1>1, <2>3 DEF Next, vars, settingsVars, Begins, Continues, Asks, Replaces, Updates,
           ListPits, PutReadsPit, PutReadsPolicy, PitReads, PitCreates, PitWrites, RequestFails, Refuse
    <3>2. request[r].pc = "replace" => s # r
      BY <2>3, <3>1 DEF GetReadsPit, GetReadsPolicy
    <3>3. s # r => request'[r] = request[r]
      BY <1>1, <2>3, <3>1 DEF TInv, PolicyOK, GetReadsPit, GetReadsPolicy, PutWrites, Refuse, Ends
    <3> QED BY <3>2, <3>3
  <2> QED BY <2>1, <2>2, <2>3
<1>2. TInv /\ [Next]_vars => [\A r \in Requests : Named(r)]_vars
  BY <1>1
<1> QED BY <1>2, SettingsInvariant, PTL DEF Spec, NoLostUpdate

-----------------------------------------------------------------------------
(* The history.  What an entry adds to the record of a field. *)

Carriers(h, field, i) == {j \in 1 .. i - 1 : field \in DOMAIN h[j].after}

RecordedIn(h, field, i) ==
    LET carriers == Carriers(h, field, i)
    IN IF carriers = {} THEN {}
       ELSE {h[CHOOSE j \in carriers : \A k \in carriers : k <= j].after[field]}

LEMMA LastOf ==
    ASSUME NEW C \in SUBSET Nat, NEW m \in C, \A k \in C : k <= m
    PROVE  (CHOOSE j \in C : \A k \in C : k <= j) = m
<1> DEFINE x == CHOOSE j \in C : \A k \in C : k <= j
<1>1. x \in C /\ \A k \in C : k <= x
  BY Zenon
<1> HIDE DEF x
<1>2. m <= x /\ x <= m /\ x \in Nat /\ m \in Nat
  BY <1>1
<1>3. x = m
  BY <1>2
<1> QED BY <1>3 DEF x

LEMMA LastCarrier ==
    ASSUME NEW h, NEW field, NEW i \in Nat, NEW m \in Carriers(h, field, i),
           \A k \in Carriers(h, field, i) : k <= m
    PROVE  RecordedIn(h, field, i) = {h[m].after[field]}
<1>1. Carriers(h, field, i) \in SUBSET Nat
  BY DEF Carriers
<1>2. (CHOOSE j \in Carriers(h, field, i) : \A k \in Carriers(h, field, i) : k <= j) = m
  BY <1>1, LastOf
<1>3. Carriers(h, field, i) # {}
  OBVIOUS
<1> QED BY <1>2, <1>3, Zenon DEF RecordedIn

LEMMA HasLast ==
    ASSUME NEW h, NEW field, NEW i \in Nat, Carriers(h, field, i) # {}
    PROVE  \E m \in Carriers(h, field, i) : \A k \in Carriers(h, field, i) : k <= m
<1>1. Carriers(h, field, i) \in SUBSET Nat /\ \A k \in Carriers(h, field, i) : k <= i
  BY DEF Carriers
<1> QED BY <1>1, GreatestNat

(* Two histories that agree as far as it matters. *)
LEMMA SameRecord ==
    ASSUME NEW h, NEW g, NEW field, NEW i \in Nat, NEW k \in Nat,
           Carriers(h, field, i) = Carriers(g, field, k),
           \A j \in Carriers(h, field, i) : h[j] = g[j]
    PROVE  RecordedIn(h, field, i) = RecordedIn(g, field, k)
<1>1. CASE Carriers(h, field, i) = {}
  BY <1>1 DEF RecordedIn
<1>2. CASE Carriers(h, field, i) # {}
  <2>1. PICK m \in Carriers(h, field, i) : \A j \in Carriers(h, field, i) : j <= m
    BY <1>2, HasLast
  <2>2. RecordedIn(h, field, i) = {h[m].after[field]}
    BY <2>1, LastCarrier
  <2>3. RecordedIn(g, field, k) = {g[m].after[field]}
    BY <2>1, LastCarrier
  <2> QED BY <2>1, <2>2, <2>3
<1> QED BY <1>1, <1>2

(* An entry leaves the record before it as it was. *)
LEMMA EarlierRecord ==
    ASSUME NEW S, NEW h \in Seq(S), NEW e \in S, NEW field, NEW i \in Nat, i <= Len(h) + 1
    PROVE  RecordedIn(Append(h, e), field, i) = RecordedIn(h, field, i)
<1> DEFINE g == Append(h, e)
<1>1. \A j \in 1 .. Len(h) : g[j] = h[j]
  OBVIOUS
<1>2. 1 .. i - 1 \subseteq 1 .. Len(h)
  OBVIOUS
<1> HIDE DEF g
<1>3. Carriers(g, field, i) = Carriers(h, field, i) /\ \A j \in Carriers(g, field, i) : g[j] = h[j]
  BY <1>1, <1>2, Zenon DEF Carriers
<1>4. RecordedIn(g, field, i) = RecordedIn(h, field, i)
  BY <1>3, SameRecord
<1> QED BY <1>4 DEF g

(* After an entry, its fields are recorded as it left them. *)
LEMMA LatestRecord ==
    ASSUME NEW S, NEW h \in Seq(S), NEW e \in S, NEW field
    PROVE  RecordedIn(Append(h, e), field, Len(h) + 2) =
              IF field \in DOMAIN e.after THEN {e.after[field]}
              ELSE RecordedIn(h, field, Len(h) + 1)
<1> DEFINE g == Append(h, e)
           n == Len(h) + 1
<1>1. n \in Nat /\ n >= 1 /\ g[n] = e /\ \A j \in 1 .. n - 1 : g[j] = h[j]
  OBVIOUS
<1> HIDE DEF g, n
<1>2. CASE field \in DOMAIN e.after
  <2>1. n \in Carriers(g, field, n + 1) /\ \A k \in Carriers(g, field, n + 1) : k <= n
    BY <1>1, <1>2 DEF Carriers
  <2>2. RecordedIn(g, field, n + 1) = {e.after[field]}
    BY <1>1, <2>1, LastCarrier
  <2> QED BY <1>2, <2>2 DEF g, n
<1>3. CASE field \notin DOMAIN e.after
  <2>1. Carriers(g, field, n + 1) = Carriers(h, field, n)
    BY <1>1, <1>3 DEF Carriers
  <2>2. \A j \in Carriers(g, field, n + 1) : g[j] = h[j]
    BY <1>1, <2>1 DEF Carriers
  <2>3. RecordedIn(g, field, n + 1) = RecordedIn(h, field, n)
    BY <1>1, <2>1, <2>2, SameRecord
  <2> QED BY <1>3, <2>3 DEF g, n
<1> QED BY <1>2, <1>3

-----------------------------------------------------------------------------
(* What is stored under the names the history uses, and the history as far *)
(* as it must agree with it.                                               *)

Fields == {"warn", "crit", "name", "enabled"}

StoredOf(field) ==
    IF field = "enabled" THEN (IF policy = NoPolicy THEN {} ELSE {policy.enabled})
    ELSE IF pit = NoPit THEN {} ELSE {pit[field]}

IsSequence(h) == \E S : h \in Seq(S)

EntriesChain ==
    \A i \in DOMAIN history : \A field \in DOMAIN history[i].before \ {"kind"} :
        RecordedIn(history, field, i) \subseteq {history[i].before[field]}

LastIsStored ==
    \A field \in Fields : RecordedIn(history, field, Len(history) + 1) \subseteq StoredOf(field)

(* What a writer read still holds if its WHERE clause says so. *)
Informed(x) ==
    /\ x.pc = "replace" =>
          /\ x.policy.version \in Nat /\ x.policy.version <= policy.version
          /\ x.policy.version = policy.version => x.policy.enabled = policy.enabled
    /\ x.pc = "update" => x.pit # NoPit

WritersInformed == \A r \in Requests : Informed(request[r])

HistoryOK == IsSequence(history) /\ EntriesChain /\ LastIsStored

HInv == HistoryOK /\ WritersInformed

LEMMA HistoryBegins == ConfigurationInit => HInv
<1> SUFFICES ASSUME ConfigurationInit PROVE HInv
  OBVIOUS
<1>1. history = <<>> /\ IsSequence(history) /\ Len(history) = 0 /\ DOMAIN history = {}
  BY DEF ConfigurationInit, IsSequence
<1>2. \A field : Carriers(history, field, 1) = {}
  BY DEF Carriers
<1>3. LastIsStored
  BY <1>1, <1>2 DEF LastIsStored, RecordedIn
<1>4. WritersInformed
  BY DEF ConfigurationInit, WritersInformed, Informed
<1> QED BY <1>1, <1>3, <1>4 DEF HInv, HistoryOK, EntriesChain

(* record_change with the values that were stored and those that will be. *)
LEMMA RecordKeeps ==
    ASSUME HistoryOK, NEW resource, NEW b, NEW a, Record(resource, b, a),
           \A f \in DOMAIN b \ {"kind"} : f \in Fields /\ StoredOf(f) = {b[f]},
           \A f \in Fields : StoredOf(f)' = IF f \in DOMAIN a THEN {a[f]} ELSE StoredOf(f)
    PROVE  HistoryOK'
<1>1. CASE a = b
  <2>1. history' = history
    BY <1>1 DEF Record
  <2>2. \A f \in Fields : StoredOf(f)' = StoredOf(f)
    BY <1>1 DEF Fields
  <2>3. LastIsStored'
    BY <2>1, <2>2 DEF HistoryOK, LastIsStored
  <2>4. IsSequence(history)' /\ EntriesChain'
    BY <2>1 DEF HistoryOK, EntriesChain
  <2> QED BY <2>3, <2>4 DEF HistoryOK
<1>2. CASE a # b
  <2> DEFINE e == [resource |-> resource, before |-> b, after |-> a]
  <2>1. history' = Append(history, e) /\ e.before = b /\ e.after = a
    BY <1>2 DEF Record
  <2> HIDE DEF e
  <2>2. PICK S : history \in Seq(S) /\ e \in S
    <3>1. PICK S : history \in Seq(S)
      BY DEF HistoryOK, IsSequence
    <3>2. history \in Seq(S \cup {e})
      BY <3>1
    <3> QED BY <3>2
  <2>3. IsSequence(history)'
    BY <2>1, <2>2 DEF IsSequence
  <2>4. EntriesChain'
    <3> SUFFICES ASSUME NEW i \in DOMAIN history', NEW f \in DOMAIN history'[i].before \ {"kind"}
                 PROVE  RecordedIn(history', f, i) \subseteq {history'[i].before[f]}
      BY DEF EntriesChain
    <3>1. i \in Nat /\ i <= Len(history) + 1
      BY <2>1, <2>2
    <3>2. RecordedIn(history', f, i) = RecordedIn(history, f, i)
      BY <2>1, <2>2, <3>1, EarlierRecord
    <3>3. CASE i \in DOMAIN history
      <4>1. history'[i] = history[i]
        BY <2>1, <2>2, <3>3
      <4> QED BY <3>2, <3>3, <4>1 DEF HistoryOK, EntriesChain
    <3>4. CASE i \notin DOMAIN history
      <4>1. i = Len(history) + 1 /\ history'[i] = e
        BY <2>1, <2>2, <3>1, <3>4
      <4>2. f \in Fields /\ StoredOf(f) = {b[f]}
        BY <2>1, <4>1
      <4> QED BY <2>1, <3>2, <4>1, <4>2 DEF HistoryOK, LastIsStored
    <3> QED BY <3>3, <3>4
  <2>5. LastIsStored'
    <3> SUFFICES ASSUME NEW f \in Fields
                 PROVE  RecordedIn(history', f, Len(history') + 1) \subseteq StoredOf(f)'
      BY DEF LastIsStored
    <3>1. Len(history') + 1 = Len(history) + 2
      BY <2>1, <2>2
    <3>2. RecordedIn(history', f, Len(history') + 1) =
            IF f \in DOMAIN a THEN {a[f]} ELSE RecordedIn(history, f, Len(history) + 1)
      <4>1. RecordedIn(Append(history, e), f, Len(history) + 2) =
              IF f \in DOMAIN e.after THEN {e.after[f]} ELSE RecordedIn(history, f, Len(history) + 1)
        BY <2>2, LatestRecord
      <4> QED BY <2>1, <3>1, <4>1
    <3> QED BY <3>2 DEF HistoryOK, LastIsStored
  <2> QED BY <2>3, <2>4, <2>5 DEF HistoryOK
<1> QED BY <1>1, <1>2

(* Without an entry, nothing that was stored may change. *)
LEMMA NoRecordKeeps ==
    ASSUME HistoryOK, UNCHANGED history, \A f \in Fields : StoredOf(f) \subseteq StoredOf(f)'
    PROVE  HistoryOK'
BY DEF HistoryOK, IsSequence, EntriesChain, LastIsStored

(* A request moves while the policy stays. *)
LEMMA WriterMoves ==
    ASSUME TInv, WritersInformed, NEW r \in Requests, NEW q, request' = [request EXCEPT ![r] = q],
           UNCHANGED policy, Informed(q)
    PROVE  WritersInformed'
<1>1. \A s \in Requests : request'[s] = IF s = r THEN q ELSE request[s]
  BY DEF TInv, PolicyOK
<1> QED BY <1>1 DEF WritersInformed, Informed

(* A request ends; the policy may be made, or replaced by a later one. *)
LEMMA WriterEnds ==
    ASSUME TInv, WritersInformed, NEW r \in Requests, Ends(r),
           policy = NoPolicy \/ policy' = policy \/ policy'.version > policy.version,
           policy # NoPolicy => policy'.version \in Nat
    PROVE  WritersInformed'
<1>1. \A s \in Requests : request'[s] = IF s = r THEN [op |-> request[r].op, pc |-> "over"]
                                        ELSE request[s]
  BY DEF TInv, PolicyOK, Ends
<1> SUFFICES ASSUME NEW s \in Requests, request'[s].pc \in {"replace", "update"}
             PROVE  Informed(request[s])'
  BY DEF WritersInformed, Informed
<1>2. request'[s] = request[s] /\ Informed(request[s])
  BY <1>1 DEF WritersInformed
<1>3. request[s].pc = "replace" => policy # NoPolicy /\ policy.version \in Nat
  BY DEF TInv, ReplacesOK, PolicyOK
<1> QED BY <1>2, <1>3 DEF Informed

(* A request moves and stores nothing. *)
LEMMA HistoryMoves ==
    ASSUME TInv, HInv, NEW r \in Requests, NEW q, request' = [request EXCEPT ![r] = q],
           UNCHANGED <<pit, policy, history>>, Informed(q)
    PROVE  HInv'
<1>1. WritersInformed'
  BY WriterMoves DEF HInv
<1>2. HistoryOK'
  BY NoRecordKeeps DEF HInv, StoredOf
<1> QED BY <1>1, <1>2 DEF HInv

LEMMA HistoryRefuses == ASSUME TInv, HInv, NEW r \in Requests, Refuse(r) PROVE HInv'
<1> DEFINE q == [op |-> request[r].op, pc |-> "over"]
<1>1. request' = [request EXCEPT ![r] = q] /\ UNCHANGED <<pit, policy, history>> /\ Informed(q)
  BY DEF Refuse, Ends, Informed
<1> HIDE DEF q
<1> QED BY <1>1, HistoryMoves

LEMMA HistoryWithPut == ASSUME TInv, HInv, NEW r \in Requests, PutWrites(r) PROVE HInv'
<1> DEFINE q == request[r]
           p == [pit EXCEPT !.warn = q.new.warn, !.crit = q.new.crit, !.at = clock]
           n == PolicyRow(q.new.enabled, q.policy.version + 1)
<1>1. CASE ~RowsAsRead(q)
  BY <1>1, HistoryRefuses DEF PutWrites
<1>2. CASE RowsAsRead(q)
  <2>1. /\ pit' = p /\ policy' = n /\ Ends(r) /\ policy # NoPolicy /\ pit # NoPit
        /\ Record("alert_settings", Values(q.pit, q.policy), Values(p, n))
    BY <1>2 DEF PutWrites, TInv, ReplacesOK, PolicyOK
  <2>2. /\ q.policy.version = policy.version /\ q.policy.enabled = policy.enabled
        /\ policy.version \in Nat /\ pit.warn = q.pit.warn /\ pit.crit = q.pit.crit
    BY <1>2, <2>1 DEF PutWrites, RowsAsRead, HInv, WritersInformed, Informed, TInv, PolicyOK
  <2>3. /\ n # NoPolicy /\ n.version = policy.version + 1 /\ n.enabled = q.new.enabled
        /\ n.version \in Nat
    BY <2>2, PoliciesExist DEF PolicyRow
  <2>4. p # NoPit /\ p.warn = q.new.warn /\ p.crit = q.new.crit /\ p.name = pit.name
    <3>1. PICK S : pit \in PitRows(S)
      BY <2>1 DEF TInv, PolicyOK
    <3>2. DOMAIN pit = {"kind", "warn", "crit", "name", "at"}
      BY <3>1 DEF PitRows
    <3>3. p.warn = q.new.warn /\ p.crit = q.new.crit /\ p.name = pit.name /\ DOMAIN p = DOMAIN pit
      BY <3>2
    <3>4. DOMAIN NoPit = {"kind"}
      BY DEF NoPit
    <3> HIDE DEF p
    <3> QED BY <3>2, <3>3, <3>4
  <2> DEFINE b == Values(q.pit, q.policy)
             a == Values(p, n)
  <2>5. /\ DOMAIN b = {"warn", "crit", "enabled"} /\ DOMAIN a = {"warn", "crit", "enabled"}
        /\ b.warn = pit.warn /\ b.crit = pit.crit /\ b.enabled = policy.enabled
        /\ a.warn = p.warn /\ a.crit = p.crit /\ a.enabled = n.enabled
    BY <2>2 DEF Values
  <2> HIDE DEF a, b, p, n
  <2>6. \A f \in DOMAIN b \ {"kind"} : f \in Fields /\ StoredOf(f) = {b[f]}
    BY <2>1, <2>5 DEF Fields, StoredOf
  <2>7. \A f \in Fields : StoredOf(f)' = IF f \in DOMAIN a THEN {a[f]} ELSE StoredOf(f)
    BY <2>1, <2>3, <2>4, <2>5 DEF Fields, StoredOf
  <2>8. HistoryOK'
    BY <2>1, <2>6, <2>7, RecordKeeps DEF HInv, a, b
  <2>9. WritersInformed'
    BY <2>1, <2>2, <2>3, WriterEnds DEF HInv
  <2> QED BY <2>8, <2>9 DEF HInv
<1> QED BY <1>1, <1>2

(* What GET makes, nothing was recorded of. *)
LEMMA HistoryWithGet ==
    ASSUME TInv, HInv, NEW r \in Requests, GetReadsPit(r) \/ GetReadsPolicy(r) PROVE HInv'
<1>1. CASE GetReadsPit(r) /\ pit # NoPit
  <2> DEFINE q == [op |-> "get", pc |-> "policy", pit |-> pit]
  <2>1. request' = [request EXCEPT ![r] = q] /\ UNCHANGED <<pit, policy, history>> /\ Informed(q)
    BY <1>1 DEF GetReadsPit, Informed
  <2> HIDE DEF q
  <2> QED BY <2>1, HistoryMoves
<1>2. CASE (GetReadsPit(r) /\ pit = NoPit) \/ GetReadsPolicy(r)
  <2>1. /\ Ends(r) /\ UNCHANGED history
        /\ policy # NoPolicy => pit # NoPit /\ policy.version \in Nat
    BY <1>2 DEF GetReadsPit, GetReadsPolicy, TInv, PolicyOK
  <2>2. (pit = NoPit \/ pit' = pit) /\ (policy = NoPolicy \/ policy' = policy)
    BY <1>2, <2>1 DEF GetReadsPit, GetReadsPolicy
  <2>3. HistoryOK'
    BY <2>1, <2>2, NoRecordKeeps DEF HInv, StoredOf
  <2>4. WritersInformed'
    BY <2>1, <2>2, WriterEnds DEF HInv
  <2> QED BY <2>3, <2>4 DEF HInv
<1> QED BY <1>1, <1>2

LEMMA HistoryWithPutReads ==
    ASSUME TInv, HInv, NEW r \in Requests, PutReadsPit(r) \/ PutReadsPolicy(r) PROVE HInv'
<1>1. CASE Refuse(r)
  BY <1>1, HistoryRefuses
<1>2. CASE PutReadsPit(r) /\ ~Refuse(r)
  <2> DEFINE q == [op |-> "put", pc |-> "policy", tag |-> request[r].tag, new |-> request[r].new, pit |-> pit]
  <2>1. request' = [request EXCEPT ![r] = q] /\ UNCHANGED <<pit, policy, history>> /\ Informed(q)
    BY <1>2 DEF PutReadsPit, Informed
  <2> HIDE DEF q
  <2> QED BY <2>1, HistoryMoves
<1>3. CASE PutReadsPolicy(r) /\ ~Refuse(r)
  <2> DEFINE q == [op |-> "put", pc |-> "replace", tag |-> request[r].tag, new |-> request[r].new,
                   pit |-> request[r].pit, policy |-> policy]
  <2>1. /\ request' = [request EXCEPT ![r] = q] /\ UNCHANGED <<pit, policy, history>>
        /\ policy.version \in Nat
    BY <1>3 DEF PutReadsPolicy, TInv, PolicyOK
  <2>2. Informed(q)
    BY <2>1 DEF Informed
  <2> HIDE DEF q
  <2> QED BY <2>1, <2>2, HistoryMoves
<1> QED BY <1>1, <1>2, <1>3

LEMMA HistoryWithBeginnings ==
    ASSUME TInv, HInv, NEW r \in Requests, Asks(r) \/ Replaces(r) \/ Updates(r) \/ ListPits(r)
    PROVE  HInv'
<1>1. CASE Asks(r)
  <2> DEFINE q == [op |-> "get", pc |-> "pit"]
  <2>1. request' = [request EXCEPT ![r] = q] /\ UNCHANGED <<pit, policy, history>> /\ Informed(q)
    BY <1>1 DEF Asks, Informed
  <2> HIDE DEF q
  <2> QED BY <2>1, HistoryMoves
<1>2. CASE Replaces(r)
  <2>1. PICK s \in shown, t \in Thresholds, e \in BOOLEAN :
           request' = [request EXCEPT ![r] =
                         [op |-> "put", pc |-> "pit", tag |-> s.tag,
                          new |-> [warn |-> t[1], crit |-> t[2], enabled |-> e]]]
    BY <1>2 DEF Replaces
  <2> DEFINE q == [op |-> "put", pc |-> "pit", tag |-> s.tag,
                   new |-> [warn |-> t[1], crit |-> t[2], enabled |-> e]]
  <2>2. request' = [request EXCEPT ![r] = q] /\ UNCHANGED <<pit, policy, history>> /\ Informed(q)
    BY <1>2, <2>1 DEF Replaces, Informed
  <2> HIDE DEF q
  <2> QED BY <2>2, HistoryMoves
<1>3. CASE Updates(r)
  <2>1. PICK new : request' = [request EXCEPT ![r] = [op |-> "pit", pc |-> "read", new |-> new]]
    BY <1>3 DEF Updates
  <2> DEFINE q == [op |-> "pit", pc |-> "read", new |-> new]
  <2>2. request' = [request EXCEPT ![r] = q] /\ UNCHANGED <<pit, policy, history>> /\ Informed(q)
    BY <1>3, <2>1 DEF Updates, Informed
  <2> HIDE DEF q
  <2> QED BY <2>2, HistoryMoves
<1>4. CASE ListPits(r)
  <2> DEFINE q == [op |-> "list", pc |-> "over"]
  <2>1. /\ request' = [request EXCEPT ![r] = q] /\ Informed(q)
        /\ pit = NoPit /\ UNCHANGED <<policy, history>>
    BY <1>4 DEF ListPits, Informed
  <2> HIDE DEF q
  <2>2. HistoryOK'
    BY <2>1, NoRecordKeeps DEF HInv, StoredOf
  <2>3. WritersInformed'
    BY <2>1, WriterMoves DEF HInv
  <2> QED BY <2>2, <2>3 DEF HInv
<1> QED BY <1>1, <1>2, <1>3, <1>4

(* A pit that is written by its own endpoint. *)
LEMMA HistoryWithRow ==
    ASSUME TInv, HInv, NEW r \in Requests, Ends(r), UNCHANGED policy,
           NEW w, NEW c, NEW n, NEW at, pit' = PitRow(w, c, n, at), NEW b,
           Record("pit_config", b, PitValues(PitRow(w, c, n, at))),
           b = NoPit \/ (pit # NoPit /\ b = PitValues(pit))
    PROVE  HInv'
<1> DEFINE p == PitRow(w, c, n, at)
           a == PitValues(p)
<1>1. /\ DOMAIN a = {"warn", "crit", "name"} /\ p # NoPit
      /\ a.warn = p.warn /\ a.crit = p.crit /\ a.name = p.name
  BY IsPitRow DEF PitValues
<1>2. \A f \in DOMAIN b \ {"kind"} : f \in Fields /\ StoredOf(f) = {b[f]}
  <2>1. CASE b = NoPit
    BY <2>1 DEF NoPit
  <2>2. CASE pit # NoPit /\ b = PitValues(pit)
    <3>1. /\ DOMAIN b = {"warn", "crit", "name"}
          /\ b.warn = pit.warn /\ b.crit = pit.crit /\ b.name = pit.name
      BY <2>2 DEF PitValues
    <3> HIDE DEF a, p
    <3> QED BY <2>2, <3>1 DEF Fields, StoredOf
  <2> QED BY <2>1, <2>2
<1> HIDE DEF a, p
<1>3. pit' = p
  BY DEF p
<1>4. \A f \in Fields : StoredOf(f)' = IF f \in DOMAIN a THEN {a[f]} ELSE StoredOf(f)
  BY <1>1, <1>3 DEF Fields, StoredOf
<1>5. Record("pit_config", b, a)
  BY DEF a, p
<1>6. HistoryOK'
  BY <1>2, <1>4, <1>5, RecordKeeps DEF HInv
<1>7. WritersInformed'
  BY WriterEnds DEF HInv, TInv, PolicyOK
<1> QED BY <1>6, <1>7 DEF HInv

LEMMA HistoryWithPit ==
    ASSUME TInv, HInv, NEW r \in Requests, PitReads(r) \/ PitCreates(r) \/ PitWrites(r) PROVE HInv'
<1>1. CASE Refuse(r)
  BY <1>1, HistoryRefuses
<1>2. CASE PitReads(r) /\ ~Refuse(r)
  <2> DEFINE q == [op |-> "pit", pc |-> IF pit = NoPit THEN "create" ELSE "update",
                   new |-> Merged(request[r].new, pit), pit |-> pit]
  <2>1. request' = [request EXCEPT ![r] = q] /\ UNCHANGED <<pit, policy, history>>
    BY <1>2 DEF PitReads
  <2>2. Informed(q)
    BY DEF Informed
  <2> HIDE DEF q
  <2> QED BY <2>1, <2>2, HistoryMoves
<1>3. CASE PitCreates(r) /\ ~Refuse(r)
  <2> DEFINE v == request[r].new
  <2>1. /\ pit' = PitRow(v.warn, v.crit, v.name, clock) /\ Ends(r) /\ UNCHANGED policy
        /\ Record("pit_config", NoPit, PitValues(PitRow(v.warn, v.crit, v.name, clock)))
    BY <1>3 DEF PitCreates
  <2> QED BY <2>1, HistoryWithRow
<1>4. CASE PitWrites(r) /\ ~Refuse(r)
  <2> DEFINE q == request[r]
             at == IF q.new = PitValues(q.pit) THEN q.pit.at ELSE clock
  <2>1. /\ pit' = PitRow(q.new.warn, q.new.crit, q.new.name, at) /\ Ends(r) /\ UNCHANGED policy
        /\ Record("pit_config", PitValues(q.pit),
                  PitValues(PitRow(q.new.warn, q.new.crit, q.new.name, at)))
        /\ pit = q.pit /\ q.pc = "update"
    BY <1>4 DEF PitWrites, PitAsRead
  <2>2. pit # NoPit
    BY <2>1 DEF HInv, WritersInformed, Informed
  <2> HIDE DEF at
  <2> QED BY <2>1, <2>2, HistoryWithRow
<1> QED BY <1>1, <1>2, <1>3, <1>4

LEMMA HistoryStep == ASSUME TInv, HInv, [Next]_vars PROVE HInv'
<1>1. CASE \E r \in Requests : Begins(r) \/ Continues(r)
  BY <1>1, HistoryWithBeginnings, HistoryWithGet, HistoryWithPutReads, HistoryWithPut, HistoryWithPit,
     HistoryRefuses
  DEF Begins, Continues, RequestFails
<1>2. CASE UNCHANGED settingsVars
  <2>1. HistoryOK'
    BY <1>2, NoRecordKeeps DEF HInv, StoredOf, settingsVars
  <2>2. WritersInformed'
    BY <1>2 DEF HInv, WritersInformed, Informed, settingsVars
  <2> QED BY <2>1, <2>2 DEF HInv
<1> QED BY <1>1, <1>2 DEF Next, vars, settingsVars

(* The history of the two endpoints is one story, however their requests   *)
(* overlap: no entry claims a predecessor that another writer replaced.    *)
THEOREM HistoryTold == Spec => []HistoryReplays
<1>1. Init => HInv
  BY HistoryBegins DEF Init
<1>2. TInv /\ HInv => HistoryReplays
  <2> SUFFICES ASSUME TInv, HInv PROVE HistoryReplays
    OBVIOUS
  <2>1. \A field, i : Recorded(field, i) = RecordedIn(history, field, i)
    BY DEF Recorded, RecordedIn, Carriers
  <2>2. \A field \in Fields : StoredOf(field) \subseteq {Current(field)}
    BY DEF StoredOf, Current
  <2> QED BY <2>1, <2>2 DEF HInv, HistoryOK, EntriesChain, LastIsStored, HistoryReplays, Fields
<1> QED BY <1>1, <1>2, HistoryStep, SettingsInvariant, PTL DEF Spec

-----------------------------------------------------------------------------
(* Recipients.  The inductive invariant.                                   *)

USE RecipientsAssumption DEF RecipientsAssumption

RecipientRows == [version : Nat, email : Addresses, detail : Details]
Entries       == [read : RecipientRows \union {Absent}, row : RecipientRows]

(* The ledger of a stored recipient ends in its row, and each version is   *)
(* the number of its entry.                                                *)
Traced(id) ==
    /\ Len(ledger[id]) > 0
    /\ rows[id] = ledger[id][Len(ledger[id])].row
    /\ rows[id] # Absent
    /\ \A i \in DOMAIN ledger[id] : ledger[id][i].row.version = i
    /\ \A i \in 2 .. Len(ledger[id]) : ledger[id][i].read = ledger[id][i - 1].row

(* A row that was stored at some time. *)
IsVersion(row, id) == \E i \in DOMAIN ledger[id] : ledger[id][i].row = row

(* What an editor holds is of a recipient that is stored, and what it read *)
(* was stored once.                                                        *)
Adding     == [at : {"adding"}, email : Addresses, detail : Details]
Patching   == [at : {"checking", "saving"}, id : RecipientIds, patch : Patches, read : RecipientRows]
Changed    == [at : {"saved", "added"}, id : RecipientIds, own : RecipientRows]
Answered(x) == x.at = "answered" /\ x.id \in RecipientIds

EditOK(x) ==
    \/ x = Free
    \/ x \in Adding
    \/ x \in Patching /\ rows[x.id] # Absent /\ IsVersion(x.read, x.id)
    \/ x \in Changed /\ rows[x.id] # Absent
    \/ Answered(x) /\ rows[x.id] # Absent /\ (x.toPatch => IsVersion(x.row, x.id))

RowsOK ==
    /\ rows \in [RecipientIds -> RecipientRows \union {Absent}]
    /\ ledger \in [RecipientIds -> Seq(Entries)]
    /\ \A id \in Stored : Traced(id)
    /\ AddressesAreUnique

EditsOK == DOMAIN edits = Editors /\ \A e \in Editors : EditOK(edits[e])

PInv == RowsOK /\ EditsOK

LEMMA RecipientsBegin == RecipientsInit => PInv
BY DEF RecipientsInit, PInv, RowsOK, EditsOK, EditOK, Stored, AddressesAreUnique

LEMMA EditKinds ==
    /\ \A x \in Adding : x.at = "adding"
    /\ \A x \in Patching : x.at \in {"checking", "saving"}
    /\ \A x \in Changed : x.at \in {"saved", "added"}
    /\ Free.at = "free"
BY DEF Adding, Patching, Changed, Free

(* An editor moves and nothing is stored. *)
LEMMA EditorMoves ==
    ASSUME PInv, NEW e \in Editors, NEW x, edits' = [edits EXCEPT ![e] = x], EditOK(x),
           UNCHANGED <<rows, ledger>>
    PROVE  PInv'
<1>1. RowsOK'
  BY DEF PInv, RowsOK, Stored, Traced, AddressesAreUnique
<1>2. DOMAIN edits' = Editors /\ \A d \in Editors : edits'[d] = IF d = e THEN x ELSE edits[d]
  BY DEF PInv, EditsOK
<1>3. \A d \in Editors : EditOK(edits'[d])
  BY <1>2 DEF PInv, EditsOK
<1>4. EditsOK'
  BY <1>2, <1>3 DEF EditsOK, EditOK, IsVersion
<1> QED BY <1>1, <1>4 DEF PInv

(* A version is added to a recipient, new or stored. *)
LEMMA VersionAdded ==
    ASSUME PInv, NEW e \in Editors, NEW id \in RecipientIds, NEW row \in RecipientRows, NEW entry \in Entries,
           NEW x, entry.row = row, rows' = [rows EXCEPT ![id] = row],
           edits' = [edits EXCEPT ![e] = x], x \in Changed, x.id = id,
           \/ rows[id] = Absent /\ row.version = 1 /\ ledger' = [ledger EXCEPT ![id] = <<entry>>]
           \/ /\ rows[id] # Absent /\ entry.read = rows[id] /\ row.version = rows[id].version + 1
              /\ ledger' = [ledger EXCEPT ![id] = Append(@, entry)],
           \A other \in Stored : other # id => rows[other].email # row.email
    PROVE  PInv'
<1>1. /\ \A o \in RecipientIds : rows'[o] = IF o = id THEN row ELSE rows[o]
      /\ \A o \in RecipientIds : o # id => ledger'[o] = ledger[o]
      /\ rows' \in [RecipientIds -> RecipientRows \union {Absent}]
      /\ row # Absent
  BY DEF PInv, RowsOK, RecipientRows
<1>2. ledger' \in [RecipientIds -> Seq(Entries)]
  <2>1. ledger \in [RecipientIds -> Seq(Entries)] /\ <<entry>> \in Seq(Entries)
    BY DEF PInv, RowsOK
  <2>2. Append(ledger[id], entry) \in Seq(Entries)
    BY <2>1
  <2> QED BY <2>1, <2>2
<1>3. Traced(id)'
  <2>1. CASE rows[id] = Absent
    <3>1. ledger'[id] = <<entry>> /\ row.version = 1
      BY <2>1 DEF PInv, RowsOK
    <3> QED BY <1>1, <3>1 DEF Traced
  <2>2. CASE rows[id] # Absent
    <3> DEFINE s == ledger[id]
               n == Len(s)
    <3>1. /\ s \in Seq(Entries) /\ n \in Nat /\ n > 0 /\ Traced(id) /\ ledger'[id] = Append(s, entry)
      BY <2>2 DEF PInv, RowsOK, Stored, Traced
    <3>2. /\ entry.read = s[n].row /\ row.version = n + 1
          /\ \A i \in 1 .. n : s[i].row.version = i
          /\ \A i \in 2 .. n : s[i].read = s[i - 1].row
      BY <2>2, <3>1 DEF Traced
    <3> HIDE DEF s, n
    <3>3. /\ Len(ledger'[id]) = n + 1 /\ ledger'[id][n + 1] = entry
          /\ \A i \in 1 .. n : ledger'[id][i] = s[i]
      BY <3>1 DEF n
    <3>4. \A i \in 1 .. n + 1 : ledger'[id][i].row.version = i
      BY <3>1, <3>2, <3>3
    <3>5. \A i \in 2 .. n + 1 : ledger'[id][i].read = ledger'[id][i - 1].row
      BY <3>1, <3>2, <3>3
    <3> QED BY <1>1, <1>2, <3>1, <3>3, <3>4, <3>5 DEF Traced
  <2> QED BY <2>1, <2>2
<1>4. \A o \in Stored' : Traced(o)'
  BY <1>1, <1>3 DEF PInv, RowsOK, Stored, Traced
<1>5. AddressesAreUnique'
  BY <1>1 DEF PInv, RowsOK, AddressesAreUnique, Stored
<1>6. ASSUME NEW o \in RecipientIds, NEW r, rows[o] # Absent, IsVersion(r, o)
      PROVE  rows'[o] # Absent /\ IsVersion(r, o)'
  <2>1. CASE o # id
    BY <1>1, <1>6, <2>1 DEF IsVersion
  <2>2. CASE o = id
    <3> DEFINE s == ledger[id]
    <3>1. s \in Seq(Entries) /\ ledger'[id] = Append(s, entry)
      BY <1>6, <2>2 DEF PInv, RowsOK
    <3>2. PICK i \in DOMAIN s : s[i].row = r
      BY <1>6, <2>2 DEF IsVersion
    <3> HIDE DEF s
    <3>3. i \in DOMAIN ledger'[id] /\ ledger'[id][i] = s[i]
      BY <3>1, <3>2
    <3> QED BY <1>1, <2>2, <3>2, <3>3 DEF IsVersion
  <2> QED BY <2>1, <2>2
<1>7. DOMAIN edits' = Editors /\ \A d \in Editors : edits'[d] = IF d = e THEN x ELSE edits[d]
  BY DEF PInv, EditsOK
<1>8. EditOK(x)'
  BY <1>1 DEF EditOK, Changed
<1>9. ASSUME NEW d \in Editors, d # e PROVE EditOK(edits[d])'
  <2>1. EditOK(edits[d]) /\ edits'[d] = edits[d]
    BY <1>7, <1>9 DEF PInv, EditsOK
  <2>2. edits[d] \in Patching \union Changed => edits[d].id \in RecipientIds
    BY DEF Patching, Changed
  <2> QED BY <1>1, <1>6, <2>1, <2>2 DEF EditOK, Answered
<1>10. EditsOK'
  BY <1>7, <1>8, <1>9 DEF EditsOK
<1> QED BY <1>1, <1>2, <1>4, <1>5, <1>10 DEF PInv, RowsOK

-----------------------------------------------------------------------------
(* Every step keeps it. *)

LEMMA FailingKeeps == ASSUME PInv, NEW e \in Editors, Fails(e) PROVE PInv'
BY EditorMoves DEF Fails, EditOK

LEMMA RowIsVersion ==
    ASSUME PInv, NEW id \in RecipientIds, rows[id] # Absent
    PROVE  rows[id] \in RecipientRows /\ IsVersion(rows[id], id)
<1>1. ledger[id] \in Seq(Entries) /\ Traced(id) /\ rows[id] \in RecipientRows
  BY DEF PInv, RowsOK, Stored
<1>2. Len(ledger[id]) \in DOMAIN ledger[id]
  BY <1>1 DEF Traced
<1> QED BY <1>1, <1>2 DEF Traced, IsVersion

(* A version with the number of the row is the row. *)
LEMMA VersionIsRow ==
    ASSUME PInv, NEW id \in RecipientIds, rows[id] # Absent, NEW r, IsVersion(r, id),
           r.version = rows[id].version
    PROVE  r = rows[id]
<1>1. ledger[id] \in Seq(Entries) /\ Traced(id)
  BY DEF PInv, RowsOK, Stored
<1>2. PICK i \in DOMAIN ledger[id] : ledger[id][i].row = r
  BY DEF IsVersion
<1>3. Len(ledger[id]) \in DOMAIN ledger[id]
  BY <1>1 DEF Traced
<1>4. r.version = i /\ rows[id].version = Len(ledger[id])
  BY <1>1, <1>2, <1>3 DEF Traced
<1> QED BY <1>1, <1>2, <1>4 DEF Traced

LEMMA ReceivesNewKeeps == ASSUME PInv, NEW e \in Editors, ReceivesNew(e) PROVE PInv'
<1>1. PICK email \in Addresses, detail \in Details :
         edits' = [edits EXCEPT ![e] = [at |-> "adding", email |-> email, detail |-> detail]]
  BY DEF ReceivesNew
<1> DEFINE x == [at |-> "adding", email |-> email, detail |-> detail]
<1>2. EditOK(x) /\ edits' = [edits EXCEPT ![e] = x]
  BY <1>1 DEF EditOK, Adding
<1> HIDE DEF x
<1> QED BY <1>2, EditorMoves DEF ReceivesNew

LEMMA AddsKeeps == ASSUME PInv, NEW e \in Editors, Adds(e) PROVE PInv'
<1>1. CASE Fails(e)
  BY <1>1, FailingKeeps
<1>2. CASE ~Fails(e)
  <2> DEFINE id == CHOOSE new \in RecipientIds : new \notin Stored
             row == [version |-> 1, email |-> edits[e].email, detail |-> edits[e].detail]
             entry == [read |-> Absent, row |-> row]
             x == [at |-> "added", id |-> id, own |-> row]
  <2>1. /\ CanHold(edits[e].email) /\ Stored # RecipientIds /\ edits[e].at = "adding"
        /\ rows' = [rows EXCEPT ![id] = row] /\ ledger' = [ledger EXCEPT ![id] = <<entry>>]
        /\ edits' = [edits EXCEPT ![e] = x]
    BY <1>2 DEF Adds
  <2>2. edits[e] \in Adding
    BY <2>1, EditKinds DEF PInv, EditsOK, EditOK, Answered
  <2>3. row \in RecipientRows /\ row.version = 1 /\ row.email = edits[e].email
    BY <2>2 DEF Adding, RecipientRows
  <2>4. id \in RecipientIds /\ rows[id] = Absent
    <3>1. \E new \in RecipientIds : new \notin Stored
      BY <2>1 DEF Stored
    <3>2. id \in RecipientIds /\ id \notin Stored
      BY <3>1
    <3> QED BY <3>2 DEF Stored
  <2> HIDE DEF row, id
  <2>5. entry \in Entries /\ entry.row = row /\ x \in Changed /\ x.id = id
    BY <2>3, <2>4 DEF Entries, Changed
  <2> HIDE DEF entry, x
  <2>6. \A other \in Stored : other # id => rows[other].email # row.email
    BY <2>1, <2>3 DEF CanHold, IsTaken
  <2> QED BY <2>1, <2>3, <2>4, <2>5, <2>6, VersionAdded
<1> QED BY <1>1, <1>2

LEMMA ReceivesPatchKeeps == ASSUME PInv, NEW e \in Editors, ReceivesPatch(e) PROVE PInv'
<1>1. PICK id \in Stored, patch \in Patches :
         edits' = [edits EXCEPT ![e] =
                     [at |-> IF patch.email \notin {Absent, rows[id].email} THEN "checking" ELSE "saving",
                      id |-> id, patch |-> patch, read |-> rows[id]]]
  BY DEF ReceivesPatch
<1> DEFINE x == [at |-> IF patch.email \notin {Absent, rows[id].email} THEN "checking" ELSE "saving",
                 id |-> id, patch |-> patch, read |-> rows[id]]
<1>2. id \in RecipientIds /\ rows[id] # Absent
  BY DEF Stored
<1>3. rows[id] \in RecipientRows /\ IsVersion(rows[id], id)
  BY <1>2, RowIsVersion
<1>4. x \in Patching /\ x.id = id /\ x.read = rows[id]
  BY <1>2, <1>3 DEF Patching
<1>5. edits' = [edits EXCEPT ![e] = x]
  BY <1>1
<1> HIDE DEF x
<1>6. EditOK(x)
  BY <1>2, <1>3, <1>4 DEF EditOK
<1> QED BY <1>5, <1>6, EditorMoves DEF ReceivesPatch

LEMMA ChecksKeeps == ASSUME PInv, NEW e \in Editors, ChecksAddress(e) PROVE PInv'
<1>1. CASE Fails(e)
  BY <1>1, FailingKeeps
<1>2. CASE ~Fails(e)
  <2> DEFINE x == [edits[e] EXCEPT !.at = "saving"]
  <2>1. /\ edits' = [edits EXCEPT ![e] = x] /\ edits[e].at = "checking"
        /\ UNCHANGED <<rows, ledger>>
    BY <1>2 DEF ChecksAddress
  <2>2. /\ edits[e] \in Patching /\ rows[edits[e].id] # Absent
        /\ IsVersion(edits[e].read, edits[e].id)
    BY <2>1, EditKinds DEF PInv, EditsOK, EditOK, Answered
  <2>3. x \in Patching /\ x.id = edits[e].id /\ x.read = edits[e].read
    BY <2>2 DEF Patching
  <2> HIDE DEF x
  <2>4. EditOK(x)
    BY <2>2, <2>3 DEF EditOK
  <2> QED BY <2>1, <2>4, EditorMoves
<1> QED BY <1>1, <1>2

LEMMA SavesKeeps == ASSUME PInv, NEW e \in Editors, Saves(e) PROVE PInv'
<1>1. CASE Fails(e)
  BY <1>1, FailingKeeps
<1>2. CASE ~Fails(e)
  <2> DEFINE id == edits[e].id
             patch == edits[e].patch
             row == [version |-> edits[e].read.version + 1,
                     email  |-> Kept(patch.email, rows[id].email),
                     detail |-> Kept(patch.detail, rows[id].detail)]
             entry == [read |-> edits[e].read, row |-> row]
             x == [at |-> "saved", id |-> id, own |-> row]
  <2>1. /\ IsUnchanged(e) /\ Fits(e) /\ edits[e].at = "saving"
        /\ rows' = [rows EXCEPT ![id] = row]
        /\ ledger' = [ledger EXCEPT ![id] = Append(@, entry)]
        /\ edits' = [edits EXCEPT ![e] = x]
    BY <1>2 DEF Saves
  <2>2. edits[e] \in Patching /\ rows[id] # Absent /\ IsVersion(edits[e].read, id)
    BY <2>1, EditKinds DEF PInv, EditsOK, EditOK, Answered
  <2>3. id \in RecipientIds /\ patch \in Patches /\ edits[e].read \in RecipientRows
    BY <2>2 DEF Patching
  <2>4. edits[e].read = rows[id]
    BY <2>1, <2>2, <2>3, VersionIsRow DEF IsUnchanged
  <2>5. /\ row.email \in Addresses /\ row.detail \in Details /\ row.version = rows[id].version + 1
        /\ row \in RecipientRows
    <3>1. /\ patch.email \in Addresses \union {Absent} /\ patch.detail \in Details \union {Absent}
          /\ rows[id].email \in Addresses /\ rows[id].detail \in Details /\ rows[id].version \in Nat
      BY <2>3, <2>4 DEF Patches, RecipientRows
    <3>2. Kept(patch.email, rows[id].email) \in Addresses /\ Kept(patch.detail, rows[id].detail) \in Details
      BY <3>1 DEF Kept
    <3> QED BY <2>4, <3>1, <3>2 DEF RecipientRows
  <2>6. \A other \in Stored : other # id => rows[other].email # row.email
    <3>1. row.email = rows[id].email \/ CanHold(row.email)
      BY <2>1 DEF Fits, Kept
    <3>2. id \in Stored
      BY <2>2, <2>3 DEF Stored
    <3> HIDE DEF row, id
    <3> QED BY <3>1, <3>2 DEF CanHold, IsTaken, PInv, RowsOK, AddressesAreUnique
  <2> HIDE DEF row, id
  <2>7. entry \in Entries /\ entry.row = row /\ entry.read = rows[id] /\ x \in Changed /\ x.id = id
    BY <2>3, <2>4, <2>5 DEF Entries, Changed
  <2> HIDE DEF entry, x
  <2> QED BY <2>1, <2>2, <2>3, <2>5, <2>6, <2>7, VersionAdded
<1> QED BY <1>1, <1>2

LEMMA AnswersKeeps == ASSUME PInv, NEW e \in Editors, Answers(e) PROVE PInv'
<1> DEFINE x == [at |-> "answered", id |-> edits[e].id, toPatch |-> edits[e].at = "saved",
                 row |-> IF edits[e].at = "saved" THEN AnswerToPatch(e) ELSE AnswerToAddition(e)]
<1>1. /\ edits' = [edits EXCEPT ![e] = x] /\ edits[e].at \in {"saved", "added"}
      /\ UNCHANGED <<rows, ledger>>
  BY DEF Answers
<1>2. edits[e] \in Changed /\ rows[edits[e].id] # Absent
  BY <1>1, EditKinds DEF PInv, EditsOK, EditOK, Answered
<1>3. edits[e].id \in RecipientIds
  BY <1>2 DEF Changed
<1>4. x.at = "answered" /\ x.id = edits[e].id /\ (x.toPatch => x.row = rows[edits[e].id])
  BY DEF AnswerToPatch
<1> HIDE DEF x
<1>5. EditOK(x)
  BY <1>2, <1>3, <1>4, RowIsVersion DEF EditOK, Answered
<1> QED BY <1>1, <1>5, EditorMoves

LEMMA RecipientsStep == ASSUME PInv, [RecipientsNext]_recipientVars PROVE PInv'
<1>1. CASE RecipientsNext
  BY <1>1, ReceivesNewKeeps, AddsKeeps, ReceivesPatchKeeps, ChecksKeeps, SavesKeeps, AnswersKeeps,
     FailingKeeps
  DEF RecipientsNext, Leaves
<1>2. CASE UNCHANGED recipientVars
  BY <1>2 DEF recipientVars, PInv, RowsOK, EditsOK, EditOK, IsVersion, Stored, Traced, AddressesAreUnique
<1> QED BY <1>1, <1>2

(* Recipients stay distinct, each version was made by a request that had   *)
(* read the one before it, and a change is answered by a version that was  *)
(* stored, however the requests overlap.                                   *)
THEOREM RecipientsSound == RecipientsSpec => []RecipientsAreSound
<1>1. PInv => RecipientsAreSound
  <2> SUFFICES ASSUME PInv PROVE RecipientsAreSound
    OBVIOUS
  <2>1. AddressesAreUnique
    BY DEF PInv, RowsOK
  <2>2. ChangesBuildOnEachOther
    <3> SUFFICES ASSUME NEW id \in Stored
                 PROVE  /\ rows[id] = Last(ledger[id]).row /\ rows[id].version = Len(ledger[id])
                        /\ \A i \in 2 .. Len(ledger[id]) : ledger[id][i].read = ledger[id][i - 1].row
      BY DEF ChangesBuildOnEachOther
    <3>1. Traced(id) /\ ledger[id] \in Seq(Entries)
      BY DEF PInv, RowsOK, Stored
    <3>2. Len(ledger[id]) \in DOMAIN ledger[id]
      BY <3>1 DEF Traced
    <3> QED BY <3>1, <3>2 DEF Traced, Last
  <2>3. AnswersAreVersions
    <3> SUFFICES ASSUME NEW e \in Editors, edits[e].at = "answered", edits[e].toPatch
                 PROVE  IsVersion(edits[e].row, edits[e].id)
      BY DEF AnswersAreVersions, IsVersion
    <3> QED BY EditKinds DEF PInv, EditsOK, EditOK
  <2> QED BY <2>1, <2>2, <2>3 DEF RecipientsAreSound
<1> QED BY <1>1, RecipientsBegin, RecipientsStep, PTL DEF RecipientsSpec
=============================================================================

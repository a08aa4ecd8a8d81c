------------------------------- MODULE Sessions -------------------------------
(***************************************************************************)
(* Accounts and browser sessions (session_service.py, cli/auth.py): one    *)
(* account, the log-ins, log-outs and password resets that meet in it.     *)
(*                                                                         *)
(* A log-in takes three transactions' worth of steps: `authenticate' reads *)
(* the account and gives the connection back while the password is hashed, *)
(* `create_session' reads the account again under the same credential and  *)
(* only then inserts.  The reset may commit between any two.               *)
(***************************************************************************)
EXTENDS Storage, Naturals, FiniteSets

CONSTANTS
    Tokens,     \* session cookies that log-ins draw, each once
    MaxResets   \* bound: password resets

ASSUME SessionsAssumption == MaxResets \in Nat

VARIABLES
    account,    \* [hash, version]: password_hash (salted: every reset writes
                \* another) and credential_version
    session,    \* session[t]: the row of auth_sessions of cookie t
    login,      \* login[t]: where the log-in that draws cookie t is
    reset,      \* where reset_password is
    leaving     \* cookies whose log-out passed its check

sessionsVars == <<account, session, login, reset, leaving>>

Hashes   == 0 .. MaxResets
Versions == 1 .. MaxResets + 1

NoRow == [kind |-> "none"]
Row(version, knew) == [kind |-> "row", version |-> version, knew |-> knew, expired |-> FALSE]
Rows  == [kind : {"row"}, version : Versions, expired : BOOLEAN,
          knew : Hashes]   \* history: the hash the log-in's password was verified against

(* A log-in that is not on its way, or knows what authenticate returned. *)
Fresh  == [pc |-> "fresh"]
Over   == [pc |-> "over"]
Logins == {Fresh, Over}
             \cup [pc : {"lookup", "insert"}, hash : Hashes, version : Versions]

HasRow(t) == session[t].kind = "row"

(* Wrong on purpose: any unexpired row will do. *)
HonouredOfAnyVersion(t) == HasRow(t) /\ ~session[t].expired

(* get_session: the row is not expired and of the account's version. *)
Honoured(t) ==
    /\ HasRow(t) /\ ~session[t].expired
    /\ session[t].version = account.version

(* SELECT ... FOR UPDATE of the account by create_session or reset_password. *)
AccountLocked ==
    /\ RowLocks
    /\ reset = "write" \/ \E t \in Tokens : login[t].pc = "insert"

-----------------------------------------------------------------------------
(* POST /api/v1/session.                                                   *)

(* authenticate with the right password; a wrong one leaves no trace. *)
Authenticate(t) ==
    /\ login[t] = Fresh
    /\ login' = [login EXCEPT ![t] = [pc |-> "lookup", hash |-> account.hash,
                                      version |-> account.version]]
    /\ UNCHANGED <<account, session, reset, leaving>>

(* Wrong on purpose: the account is looked up by its name alone. *)
SameAccount(l) == TRUE

(* What was verified is still what the account holds. *)
SameCredential(l) == l.version = account.version /\ l.hash = account.hash

(* create_session, first statement: 401 when the credential was replaced. *)
Lookup(t) ==
    /\ login[t].pc = "lookup" /\ ~AccountLocked
    /\ login' = [login EXCEPT ![t] =
                   IF SameCredential(login[t])
                   THEN [login[t] EXCEPT !.pc = "insert", !.version = account.version]
                   ELSE Over]
    /\ UNCHANGED <<account, session, reset, leaving>>

(* ... and the rest: expired rows are swept, the new one is committed. *)
Insert(t) ==
    /\ login[t].pc = "insert"
    /\ session' = [u \in Tokens |->
                     IF u = t THEN Row(login[t].version, login[t].hash)
                     ELSE IF HasRow(u) /\ session[u].expired THEN NoRow
                     ELSE session[u]]
    /\ login' = [login EXCEPT ![t] = Over]
    /\ UNCHANGED <<account, reset, leaving>>

(* The client goes away, the database refuses or the process ends: nothing *)
(* was committed yet.                                                      *)
LoginFails(t) ==
    /\ login[t].pc \in {"lookup", "insert"}
    /\ login' = [login EXCEPT ![t] = Over]
    /\ UNCHANGED <<account, session, reset, leaving>>

-----------------------------------------------------------------------------
(* DELETE /api/v1/session: the check and the deletion are two transactions. *)

LogoutChecks(t) ==
    /\ Honoured(t) /\ t \notin leaving
    /\ leaving' = leaving \cup {t}
    /\ UNCHANGED <<account, session, login, reset>>

LogoutDeletes(t) ==
    /\ t \in leaving
    /\ session' = [session EXCEPT ![t] = NoRow]
    /\ leaving' = leaving \ {t}
    /\ UNCHANGED <<account, login, reset>>

Expire(t) ==
    /\ HasRow(t) /\ ~session[t].expired
    /\ session' = [session EXCEPT ![t].expired = TRUE]
    /\ UNCHANGED <<account, login, reset, leaving>>

-----------------------------------------------------------------------------
(* reset_password (python -m src.app.cli.auth reset-password).             *)

ResetLocks ==
    /\ reset = "idle" /\ ~AccountLocked
    /\ account.version <= MaxResets   \* bound
    /\ reset' = "write"
    /\ UNCHANGED <<account, session, login, leaving>>

(* Wrong on purpose: the reset replaces the hash and nothing else. *)
ReplaceHashOnly ==
    /\ reset = "write"
    /\ account' = [account EXCEPT !.hash = @ + 1]
    /\ session' = [t \in Tokens |-> NoRow]
    /\ reset' = "idle"
    /\ UNCHANGED <<login, leaving>>

(* New hash, next version and the end of every session, in one commit. *)
ResetWrites ==
    /\ reset = "write"
    /\ account' = [hash |-> account.hash + 1, version |-> account.version + 1]
    /\ session' = [t \in Tokens |-> NoRow]
    /\ reset' = "idle"
    /\ UNCHANGED <<login, leaving>>

ResetFails ==
    /\ reset = "write"
    /\ reset' = "idle"
    /\ UNCHANGED <<account, session, login, leaving>>

-----------------------------------------------------------------------------
SessionsInit ==
    /\ account = [hash |-> 0, version |-> 1]   \* bootstrap_accounts
    /\ session = [t \in Tokens |-> NoRow]
    /\ login = [t \in Tokens |-> Fresh]
    /\ reset = "idle" /\ leaving = {}

SessionsNext ==
    \/ ResetLocks \/ ResetWrites \/ ResetFails
    \/ \E t \in Tokens :
          \/ Authenticate(t) \/ Lookup(t) \/ Insert(t) \/ LoginFails(t)
          \/ LogoutChecks(t) \/ LogoutDeletes(t) \/ Expire(t)

SessionsTypeOK ==
    /\ account \in [hash : Hashes, version : Versions]
    /\ session \in [Tokens -> {NoRow} \cup Rows]
    /\ login \in [Tokens -> Logins]
    /\ reset \in {"idle", "write"}
    /\ leaving \subseteq Tokens

(* A password reset ends every earlier session for good (AUTH_STORAGE.md;  *)
(* "previous sessions revoked", cli/auth.py): whoever is honoured has      *)
(* proved the password that is in force, however the log-in and the reset  *)
(* interleaved.                                                            *)
HonouredKnowThePassword ==
    \A t \in Tokens : Honoured(t) => session[t].knew = account.hash
=============================================================================

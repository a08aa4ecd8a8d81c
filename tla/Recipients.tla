------------------------------ MODULE Recipients ------------------------------
(***************************************************************************)
(* The people who are notified: rows with a version, that administrators   *)
(* add and change in part (services/admin_service.py, api/v1/admin.py).    *)
(*                                                                         *)
(* A request reads, judges, and then changes a row and commits.  From the  *)
(* change to the commit nobody else can change that row, nor use that      *)
(* e-mail address, on either database, so that part is one step.           *)
(***************************************************************************)
EXTENDS Naturals, Sequences, SequencesExt

CONSTANTS
    Editors,        \* requests of administrators
    Addresses,      \* e-mail addresses
    Details,        \* the other columns, together: channels, phone, event types, ...
    RecipientIds,   \* bound: rows; a new row takes one that was never used
    MaxVersions,    \* bound: versions of all rows together
    Absent          \* null value

ASSUME RecipientsAssumption ==
    /\ Absent \notin Addresses /\ Absent \notin Details
    /\ Absent \notin [version : Nat, email : Addresses, detail : Details]

VARIABLES
    rows,           \* id -> [version, email, detail], or Absent
    edits,          \* editor -> where it is and what it read
    ledger          \* history: id -> each version and what its request had read

recipientVars == <<rows, edits, ledger>>

Free == [at |-> "free"]
Stored == {id \in RecipientIds : rows[id] # Absent}
IsTaken(email) == \E id \in Stored : rows[id].email = email

(* A patch names some columns; Absent keeps what is there. *)
Patches == {patch \in [email : Addresses \union {Absent}, detail : Details \union {Absent}] :
              patch.email # Absent \/ patch.detail # Absent}
Kept(new, old) == IF new = Absent THEN old ELSE new
VersionCount == MapThenSumSet(LAMBDA id : Len(ledger[id]), RecipientIds)

Fails(e) == edits' = [edits EXCEPT ![e] = Free] /\ UNCHANGED <<rows, ledger>>

-----------------------------------------------------------------------------
(* create_recipient: 409 for a known address, now or at the commit.        *)

ReceivesNew(e) ==
    /\ edits[e] = Free
    /\ \E email \in Addresses, detail \in Details :
         /\ ~IsTaken(email)
         /\ edits' = [edits EXCEPT ![e] = [at |-> "adding", email |-> email, detail |-> detail]]
    /\ UNCHANGED <<rows, ledger>>

(* Wrong on purpose: the check is enough and the column need not be unique. *)
CanInsertUnchecked(email) == TRUE

(* The column is unique. *)
CanHold(email) == ~IsTaken(email)

Adds(e) ==
    /\ edits[e].at = "adding"
    /\ \/ ~CanHold(edits[e].email) /\ Fails(e)
       \/ /\ CanHold(edits[e].email)
          /\ VersionCount < MaxVersions /\ Stored # RecipientIds
          /\ LET id == CHOOSE new \in RecipientIds : new \notin Stored
                 row == [version |-> 1, email |-> edits[e].email, detail |-> edits[e].detail]
             IN  /\ rows' = [rows EXCEPT ![id] = row]
                 /\ ledger' = [ledger EXCEPT ![id] = <<[read |-> Absent, row |-> row]>>]
                 /\ edits' = [edits EXCEPT ![e] = [at |-> "added", id |-> id, own |-> row]]

-----------------------------------------------------------------------------
(* update_recipient: reads the row, refuses another tag than the row's     *)
(* when one was sent (412, nothing changes), looks for another owner of a  *)
(* new address, and changes the row if it has the version that was read.   *)

ReceivesPatch(e) ==
    /\ edits[e] = Free
    /\ \E id \in Stored, patch \in Patches :
         edits' = [edits EXCEPT ![e] =
                     [at |-> IF patch.email \notin {Absent, rows[id].email} THEN "checking" ELSE "saving",
                      id |-> id, patch |-> patch, read |-> rows[id]]]
    /\ UNCHANGED <<rows, ledger>>

ChecksAddress(e) ==
    /\ edits[e].at = "checking"
    /\ \/ IsTaken(edits[e].patch.email) /\ Fails(e)
       \/ /\ ~IsTaken(edits[e].patch.email)
          /\ edits' = [edits EXCEPT ![e].at = "saving"]
          /\ UNCHANGED <<rows, ledger>>

(* Wrong on purpose: the tag was compared when the row was read.           *)
IsUnchangedSinceTag(e) == TRUE

IsUnchanged(e) == rows[edits[e].id].version = edits[e].read.version

Fits(e) ==
    LET id == edits[e].id  email == edits[e].patch.email
    IN  email \in {Absent, rows[id].email} \/ CanHold(email)

(* 412 when the row has another version, 409 when the address was taken.   *)
Saves(e) ==
    /\ edits[e].at = "saving"
    /\ \/ ~(IsUnchanged(e) /\ Fits(e)) /\ Fails(e)
       \/ LET id == edits[e].id
              row == [version |-> edits[e].read.version + 1,
                      email  |-> Kept(edits[e].patch.email, rows[id].email),
                      detail |-> Kept(edits[e].patch.detail, rows[id].detail)]
          IN  /\ IsUnchanged(e) /\ Fits(e) /\ VersionCount < MaxVersions
              /\ rows' = [rows EXCEPT ![id] = row]
              /\ ledger' = [ledger EXCEPT ![id] = Append(@, [read |-> edits[e].read, row |-> row])]
              /\ edits' = [edits EXCEPT ![e] = [at |-> "saved", id |-> id, own |-> row]]

(* Wrong on purpose: the answer repeats what the request asked for.        *)
AnswerToPatchOfOwn(e) == [rows[edits[e].id] EXCEPT !.detail = edits[e].own.detail]

(* The answer is the row as it is read again after the commit, which may   *)
(* already be a later version.                                             *)
AnswerToPatch(e) == rows[edits[e].id]

(* The answer to an addition repeats what the request asked for beside the *)
(* tag of the row that was read again.                                     *)
AnswerToAddition(e) == [rows[edits[e].id] EXCEPT !.detail = edits[e].own.detail]

Answers(e) ==
    /\ edits[e].at \in {"saved", "added"}
    /\ edits' = [edits EXCEPT ![e] =
                   [at |-> "answered", id |-> edits[e].id,
                    toPatch |-> edits[e].at = "saved",
                    row |-> IF edits[e].at = "saved" THEN AnswerToPatch(e) ELSE AnswerToAddition(e)]]
    /\ UNCHANGED <<rows, ledger>>

Leaves(e) == edits[e].at = "answered" /\ Fails(e)

-----------------------------------------------------------------------------
RecipientsInit ==
    /\ rows = [id \in RecipientIds |-> Absent]
    /\ edits = [e \in Editors |-> Free]
    /\ ledger = [id \in RecipientIds |-> <<>>]

RecipientsNext ==
    \E e \in Editors :
        \/ ReceivesNew(e) \/ Adds(e)
        \/ ReceivesPatch(e) \/ ChecksAddress(e) \/ Saves(e)
        \/ Answers(e) \/ Leaves(e)

RecipientsSpec == RecipientsInit /\ [][RecipientsNext]_recipientVars

-----------------------------------------------------------------------------
(* "Different recipients can pass the email check before either save       *)
(* commits": still no two have the same address.                           *)
AddressesAreUnique ==
    \A a, b \in Stored : a # b => rows[a].email # rows[b].email

(* "Check and change the version in one DB statement": each version was    *)
(* made by a request that had read the version before it, so that no       *)
(* administrator's change is lost to another's.                            *)
ChangesBuildOnEachOther ==
    \A id \in Stored :
        /\ rows[id] = Last(ledger[id]).row /\ rows[id].version = Len(ledger[id])
        /\ \A i \in 2 .. Len(ledger[id]) : ledger[id][i].read = ledger[id][i - 1].row

(* What a change is answered is one version of the row with the tag of     *)
(* that version, whoever changed the row since.                            *)
AnswersAreVersions ==
    \A e \in Editors :
        edits[e].at = "answered" /\ edits[e].toPatch =>
            \E i \in DOMAIN ledger[edits[e].id] : ledger[edits[e].id][i].row = edits[e].row

(* Recipients stay distinct, and requests that overlap lose nothing.       *)
RecipientsAreSound == AddressesAreUnique /\ ChangesBuildOnEachOther /\ AnswersAreVersions
=============================================================================

-------------------------------- MODULE WebRTC --------------------------------
(***************************************************************************)
(* Playback sessions relayed to the media server: requests suspended while *)
(* the server answers, sessions that expire, a server whose answers are    *)
(* lost.  The server calls its resource of a session by the session's id.  *)
(***************************************************************************)
EXTENDS Integers, FiniteSets

CONSTANTS
    SessionIds,             \* uuid4, never drawn twice
    ServerTags,             \* ETags of the media server, of no particular session
    NoTag, NoSession,       \* null values
    MockFallback,           \* WHEP_MOCK_FALLBACK
    SessionTTL,             \* WHEP_SESSION_TTL_SECONDS
    MaxPlayTime, MaxCalls   \* bounds

ASSUME PlayAssumption ==
    NoSession \notin [etag : ServerTags \union SessionIds, upstream : BOOLEAN, activity : Nat]

VARIABLES
    playing,    \* _sessions: id -> [etag, upstream, activity], or NoSession
    posting,    \* ids whose offer is at the server
    used,       \* ids that were drawn
    calls,      \* [kind, id, tag]: requests on their way to the server
    server,     \* resources the server holds
    signalled,  \* history: [id, tag] of the PATCHes the server got
    accounted,  \* history: resources whose release is known not to have been asked for
    playTime

playVars == <<playing, posting, used, calls, server, signalled, accounted, playTime>>

Sessions == {id \in SessionIds : playing[id] # NoSession}

(* is_expired: after the lifetime, not at its end. *)
Expired(id) == playTime > playing[id].activity + SessionTTL

(* _purge_expired_sessions forgets a session and leaves its resource to    *)
(* the server.                                                             *)
Purged == [id \in SessionIds |-> IF id \in Sessions /\ Expired(id) THEN NoSession ELSE playing[id]]

PurgedIds == {id \in Sessions : Expired(id)}

(* The session's tag, if the client gave one.  Wrong on purpose: a tag is  *)
(* not compared.                                                           *)
TagAgreesAlways(id, tag) == TRUE

TagAgrees(id, tag) == tag = NoTag \/ tag = playing[id].etag

(* Wrong on purpose: an expired session is deleted silently.               *)
ReleaseOfActive(id) == playing[id].upstream /\ ~Expired(id)

ReleaseOf(id) == playing[id].upstream

-----------------------------------------------------------------------------
(* create_session: the purge, then the offer goes to the server ... *)
CreateSession(id) ==
    /\ id \notin used
    /\ used' = used \union {id} /\ posting' = posting \union {id}
    /\ playing' = Purged /\ accounted' = accounted \union PurgedIds
    /\ UNCHANGED <<calls, server, signalled, playTime>>

Play(id, etag, upstream) ==
    playing' = [playing EXCEPT ![id] = [etag |-> etag, upstream |-> upstream,
                                        activity |-> playTime]]

(* ... which answers 201, with a Location or without ... *)
ServerAccepts(id, tag, located) ==
    /\ id \in posting /\ posting' = posting \ {id}
    /\ server' = server \union {id}
    /\ Play(id, tag, located)
    /\ accounted' = IF located THEN accounted ELSE accounted \union {id}
    /\ UNCHANGED <<used, calls, signalled, playTime>>

(* ... or otherwise, or too late: then the answer is the mocked one, with a *)
(* tag of the id, or 503.                                                  *)
ServerFails(id, accepted) ==
    /\ id \in posting /\ posting' = posting \ {id}
    /\ server' = IF accepted THEN server \union {id} ELSE server
    /\ accounted' = IF accepted THEN accounted \union {id} ELSE accounted
    /\ IF MockFallback THEN Play(id, id, FALSE) ELSE UNCHANGED playing
    /\ UNCHANGED <<used, calls, signalled, playTime>>

(* update_ice_candidate *)
PatchSession(id, tag) ==
    /\ Cardinality(calls) < MaxCalls
    /\ accounted' = accounted \union PurgedIds
    /\ IF Purged[id] # NoSession /\ TagAgrees(id, tag)
         THEN /\ playing' = [Purged EXCEPT ![id].activity = playTime]
              /\ calls' = IF playing[id].upstream
                            THEN calls \union {[kind |-> "patch", id |-> id, tag |-> tag]}
                            ELSE calls
         ELSE playing' = Purged /\ UNCHANGED calls
    /\ UNCHANGED <<posting, used, server, signalled, playTime>>

(* delete_session does not look at the session's age. *)
DeleteSession(id) ==
    /\ id \in Sessions /\ Cardinality(calls) < MaxCalls
    /\ playing' = [playing EXCEPT ![id] = NoSession]
    /\ calls' = IF ReleaseOf(id) THEN calls \union {[kind |-> "delete", id |-> id, tag |-> NoTag]}
                ELSE calls
    /\ UNCHANGED <<posting, used, server, signalled, accounted, playTime>>

GetSession(id) ==
    /\ id \in PurgedIds
    /\ playing' = [playing EXCEPT ![id] = NoSession] /\ accounted' = accounted \union {id}
    /\ UNCHANGED <<posting, used, calls, server, signalled, playTime>>

(* A call arrives, in any order with others, or does not. *)
CallArrives(call) ==
    /\ call \in calls /\ calls' = calls \ {call}
    /\ IF call.kind = "delete" THEN server' = server \ {call.id} /\ UNCHANGED signalled
       ELSE /\ signalled' = IF call.id \in server
                              THEN signalled \union {[id |-> call.id, tag |-> call.tag]}
                              ELSE signalled
            /\ UNCHANGED server
    /\ UNCHANGED <<playing, posting, used, accounted, playTime>>

CallFails(call) ==
    /\ call \in calls /\ calls' = calls \ {call}
    /\ accounted' = IF call.kind = "delete" THEN accounted \union {call.id} ELSE accounted
    /\ UNCHANGED <<playing, posting, used, server, signalled, playTime>>

PlayTick ==
    /\ playTime < MaxPlayTime /\ playTime' = playTime + 1
    /\ UNCHANGED <<playing, posting, used, calls, server, signalled, accounted>>

PlayInit ==
    /\ playing = [id \in SessionIds |-> NoSession]
    /\ posting = {} /\ used = {} /\ calls = {} /\ server = {} /\ signalled = {} /\ accounted = {}
    /\ playTime = 0

PlayNext ==
    \/ \E id \in SessionIds :
         \/ CreateSession(id) \/ DeleteSession(id) \/ GetSession(id)
         \/ \E tag \in ServerTags, located \in BOOLEAN : ServerAccepts(id, tag, located)
         \/ \E accepted \in BOOLEAN : ServerFails(id, accepted)
         \/ \E tag \in ServerTags \union SessionIds \union {NoTag} : PatchSession(id, tag)
    \/ \E call \in calls : CallArrives(call) \/ CallFails(call)
    \/ PlayTick

PlaySpec == PlayInit /\ [][PlayNext]_playVars

-----------------------------------------------------------------------------
(* Properties.                                                             *)

(* Every resource the server holds belongs to a session or is being        *)
(* released, unless nobody was told of it, its session expired, or its     *)
(* release failed.                                                         *)
ResourcesAreReleased ==
    \A id \in server \ accounted :
        \/ id \in Sessions /\ playing[id].upstream
        \/ \E call \in calls : call.kind = "delete" /\ call.id = id

(* A candidate negotiated for one session does not reach another's         *)
(* resource: the server gets only candidates with its own tag or none.     *)
CandidatesAreOwn ==
    \A s \in signalled : s.id \in Sessions => s.tag \in {NoTag, playing[s.id].etag}

PlaybackIsRelayed == ResourcesAreReleased /\ CandidatesAreOwn
=============================================================================

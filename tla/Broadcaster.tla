------------------------------ MODULE Broadcaster ------------------------------
(***************************************************************************)
(* The broadcaster of the first contract's states: frames are sent to the  *)
(* WebSockets one after the other and then put on the queues of the event  *)
(* streams, where a monitoring stream takes them as a sign to read the     *)
(* stored state again.                                                     *)
(***************************************************************************)
EXTENDS Integers, Sequences

CONSTANTS
    Streams,                \* clients of /monitoring/events
    Sockets,                \* clients of /stream/ws, each for one connection
    Frames, EarlyFrames,    \* broadcasts; those sent before their row is committed
    NoFrame, QueueSize      \* a null value; asyncio.Queue(maxsize=100)

ASSUME CastAssumption ==
    /\ EarlyFrames \subseteq Frames /\ NoFrame \notin Frames
    /\ Streams \cap Sockets = {}
    /\ QueueSize \in Nat \ {0}

VARIABLES
    stored,     \* what is committed: the frames whose state a snapshot shows
    latest,     \* _latest_state
    casts,      \* frame -> [stage, sockets, queues, failed], its broadcast
    sockets,    \* _active_websockets
    queues,     \* _sse_queues: stream -> its queue
    stage,      \* client -> what its handler does
    shown,      \* stream -> the snapshot it has sent last
    offers,     \* history: client -> frame -> how often it was offered
    begun       \* history: client -> frames it must be offered

castVars == <<stored, latest, casts, sockets, queues, stage, shown, offers, begun>>

Clients == Streams \union Sockets

Registered == sockets \union {v \in Streams : stage[v] \in {"waiting", "reading"}}

(* register_sse_queue puts the latest state on the new queue.  Wrong on    *)
(* purpose: it begins empty.                                               *)
FirstFramesNone == <<>>

FirstFrames == IF latest = NoFrame THEN <<>> ELSE <<latest>>

(* The clients are those of the moment _latest_state was set.  Wrong on    *)
(* purpose: those of the moment the frame is put.                          *)
StreamsNow(f) == {v \in Streams : stage[v] \in {"waiting", "reading"}}

StreamsOf(f) == casts[f].queues

Offered(clients, f) == [c \in Clients |-> IF c \in clients THEN [offers[c] EXCEPT ![f] = @ + 1]
                                          ELSE offers[c]]

-----------------------------------------------------------------------------
(* The transaction of an edge measurement or a collection commits.         *)
Store(f) ==
    /\ f \notin stored
    /\ f \in EarlyFrames => casts[f].stage = "done"
    /\ stored' = stored \union {f}
    /\ UNCHANGED <<latest, casts, sockets, queues, stage, shown, offers, begun>>

BeginBroadcast(f) ==
    /\ casts[f].stage = "due" /\ f \in stored \union EarlyFrames
    /\ latest' = f
    /\ casts' = [casts EXCEPT ![f] = [stage |-> "sending", sockets |-> sockets, failed |-> {},
                                      queues |-> {v \in Streams : v \in Registered}]]
    /\ begun' = [c \in Clients |-> IF c \in Registered THEN begun[c] \union {f} ELSE begun[c]]
    /\ UNCHANGED <<stored, sockets, queues, stage, shown, offers>>

(* One send_json, which may be awaited for long, may fail.                 *)
SendFrame(f, s, fails) ==
    /\ casts[f].stage = "sending" /\ s \in casts[f].sockets
    /\ casts' = [casts EXCEPT ![f].sockets = @ \ {s}, ![f].failed = IF fails THEN @ \union {s} ELSE @]
    /\ offers' = Offered({s}, f)
    /\ UNCHANGED <<stored, latest, sockets, queues, stage, shown, begun>>

(* After the last of them the sockets that failed are no longer targets of *)
(* later frames, and nothing is awaited until the frame is on the queues.  *)
(* A full queue skips it.                                                  *)
PutFrames(f) ==
    /\ casts[f].stage = "sending" /\ casts[f].sockets = {}
    /\ casts' = [casts EXCEPT ![f].stage = "done", ![f].failed = {}]
    /\ sockets' = sockets \ casts[f].failed
    /\ queues' = [v \in Streams |-> IF v \in StreamsOf(f) /\ Len(queues[v]) < QueueSize
                                      THEN Append(queues[v], f) ELSE queues[v]]
    /\ offers' = Offered(StreamsOf(f), f)
    /\ UNCHANGED <<stored, latest, stage, shown, begun>>

-----------------------------------------------------------------------------
(* connect_websocket: the socket is registered and sent the latest state   *)
(* without a suspension between.                                           *)
ConnectSocket(s) ==
    /\ stage[s] = "away" /\ stage' = [stage EXCEPT ![s] = "open"]
    /\ sockets' = sockets \union {s}
    /\ offers' = IF latest = NoFrame THEN offers ELSE Offered({s}, latest)
    /\ begun' = [begun EXCEPT ![s] = IF latest = NoFrame THEN {} ELSE {latest}]
    /\ UNCHANGED <<stored, latest, casts, queues, shown>>

DisconnectSocket(s) ==
    /\ s \in sockets /\ sockets' = sockets \ {s}
    /\ UNCHANGED <<stored, latest, casts, queues, stage, shown, offers, begun>>

(* event_generator: a snapshot first ... *)
OpenStream(v) ==
    /\ stage[v] = "away"
    /\ stage' = [stage EXCEPT ![v] = "entering"] /\ shown' = [shown EXCEPT ![v] = stored]
    /\ UNCHANGED <<stored, latest, casts, sockets, queues, offers, begun>>

(* ... then register_sse_queue ... *)
RegisterStream(v) ==
    /\ stage[v] = "entering"
    /\ stage' = [stage EXCEPT ![v] = "waiting"]
    /\ queues' = [queues EXCEPT ![v] = FirstFrames]
    /\ offers' = IF latest = NoFrame THEN offers ELSE Offered({v}, latest)
    /\ begun' = [begun EXCEPT ![v] = IF latest = NoFrame THEN {} ELSE {latest}]
    /\ UNCHANGED <<stored, latest, casts, sockets, shown>>

(* ... and another snapshot for every frame that comes. *)
TakeFrame(v) ==
    /\ stage[v] = "waiting" /\ queues[v] # <<>>
    /\ stage' = [stage EXCEPT ![v] = "reading"] /\ queues' = [queues EXCEPT ![v] = Tail(@)]
    /\ UNCHANGED <<stored, latest, casts, sockets, shown, offers, begun>>

ShowSnapshot(v) ==
    /\ stage[v] = "reading"
    /\ stage' = [stage EXCEPT ![v] = "waiting"] /\ shown' = [shown EXCEPT ![v] = stored]
    /\ UNCHANGED <<stored, latest, casts, sockets, queues, offers, begun>>

(* A queue that is no longer registered may still be put to: nobody reads  *)
(* it.                                                                     *)
CloseStream(v) ==
    /\ stage[v] # "away"
    /\ stage' = [stage EXCEPT ![v] = "away"] /\ queues' = [queues EXCEPT ![v] = <<>>]
    /\ casts' = [f \in Frames |-> [casts[f] EXCEPT !.queues = @ \ {v}]]
    /\ offers' = [offers EXCEPT ![v] = [f \in Frames |-> 0]]
    /\ begun' = [begun EXCEPT ![v] = {}]
    /\ UNCHANGED <<stored, latest, sockets, shown>>

CastInit ==
    /\ stored = {} /\ latest = NoFrame /\ sockets = {}
    /\ casts = [f \in Frames |-> [stage |-> "due", sockets |-> {}, queues |-> {}, failed |-> {}]]
    /\ queues = [v \in Streams |-> <<>>] /\ stage = [c \in Clients |-> "away"]
    /\ shown = [v \in Streams |-> {}]
    /\ offers = [c \in Clients |-> [f \in Frames |-> 0]] /\ begun = [c \in Clients |-> {}]

CastNext ==
    \/ \E f \in Frames :
         \/ Store(f) \/ BeginBroadcast(f) \/ PutFrames(f)
         \/ \E s \in Sockets, fails \in BOOLEAN : SendFrame(f, s, fails)
    \/ \E s \in Sockets : ConnectSocket(s) \/ DisconnectSocket(s)
    \/ \E v \in Streams : \/ OpenStream(v) \/ RegisterStream(v) \/ TakeFrame(v)
                          \/ ShowSnapshot(v) \/ CloseStream(v)

CastSpec == CastInit /\ [][CastNext]_castVars

-----------------------------------------------------------------------------
(* Properties.                                                             *)

(* A client that comes while a frame is on its way gets it once, as the    *)
(* latest state, and every later one once.                                 *)
FramesArriveOnce ==
    \A c \in Registered, f \in Frames :
        /\ offers[c][f] <= 1
        /\ f \in begun[c] /\ casts[f].stage = "done" => offers[c][f] = 1

(* A monitoring stream with nothing to do shows everything that was stored *)
(* before it was broadcast: a state stored between its first snapshot and  *)
(* its registration, two broadcasts that overtake each other and a queue   *)
(* that was full do not leave it with an old one.                          *)
SnapshotsCatchUp ==
    \A v \in Streams : stage[v] = "waiting" /\ queues[v] = <<>> =>
        \A f \in Frames \ EarlyFrames : casts[f].stage = "done" => f \in shown[v]

BroadcastsArrive == FramesArriveOnce /\ SnapshotsCatchUp
=============================================================================

---------------------------- MODULE Services_proofs ----------------------------
(***************************************************************************)
(* Theorems about what the dashboard's clients are served: broadcasts,     *)
(* measurements of the first contract, playback sessions, downloads, the   *)
(* camera's status and frozen event pages, for any number of clients,      *)
(* frames, requests, sessions, jobs, sources and lists.                    *)
(***************************************************************************)
EXTENDS Broadcaster, LegacyMetrics, WebRTC, ExportJobs, CameraStatus, EventPages, LeastNumber, TLAPS

-----------------------------------------------------------------------------
(* Broadcaster: the inductive invariant. *)

CastStages == {"due", "sending", "done"}
Casts == [stage : CastStages, sockets : SUBSET Sockets, queues : SUBSET Streams, failed : SUBSET Sockets]

CastShape ==
    /\ stored \subseteq Frames /\ latest \in Frames \cup {NoFrame} /\ sockets \subseteq Sockets
    /\ casts \in [Frames -> Casts]
    /\ queues \in [Streams -> Seq(Frames)]
    /\ stage \in [Clients -> {"away", "open", "entering", "waiting", "reading"}]
    /\ shown \in [Streams -> SUBSET Frames]
    /\ offers \in [Clients -> [Frames -> Nat]]
    /\ begun \in [Clients -> SUBSET Frames]

(* A frame that is due is nowhere; one that is not has its state stored,   *)
(* unless it is an early one.                                              *)
DueIsNowhere ==
    \A f \in Frames :
        /\ casts[f].stage = "due" =>
             /\ casts[f].sockets = {} /\ casts[f].queues = {} /\ latest # f
             /\ \A c \in Clients : offers[c][f] = 0 /\ f \notin begun[c]
        /\ casts[f].stage # "due" => latest # NoFrame /\ (f \notin EarlyFrames => f \in stored)

(* Who is still to get a frame is there and has not been offered it. *)
Target(c, f) == c \in casts[f].sockets \/ (casts[f].stage = "sending" /\ c \in casts[f].queues)

TargetsWait ==
    \A f \in Frames :
        /\ \A s \in casts[f].sockets : stage[s] = "open" /\ casts[f].stage = "sending"
        /\ \A v \in casts[f].queues : stage[v] \in {"waiting", "reading"}
        /\ \A c \in Clients : Target(c, f) => offers[c][f] = 0

ClientsCome ==
    /\ \A s \in sockets : stage[s] = "open"
    /\ \A s \in Sockets : stage[s] \in {"away", "open"}
    /\ \A v \in Streams : stage[v] # "open"
    /\ \A c \in Clients : stage[c] \in {"away", "entering"} => \A f \in Frames : offers[c][f] = 0

OfferedOnce ==
    \A c \in Clients, f \in Frames :
        /\ offers[c][f] <= 1
        /\ c \in Registered /\ f \in begun[c] => offers[c][f] = 1 \/ Target(c, f)

(* What a waiting stream does not show yet it will be told of. *)
ToldOfNew ==
    \A v \in Streams, f \in Frames \ EarlyFrames :
        stage[v] = "waiting" /\ casts[f].stage # "due" =>
            f \in shown[v] \/ queues[v] # <<>> \/ Target(v, f)

CastInv == CastShape /\ DueIsNowhere /\ TargetsWait /\ ClientsCome /\ OfferedOnce /\ ToldOfNew

LEMMA CastInitially ==
    ASSUME CastAssumption, CastInit
    PROVE  CastInv
<1>1. CastShape
  BY DEF CastInit, CastShape, Casts, CastStages, Clients
<1> QED
  BY <1>1 DEF CastInit, CastAssumption, CastInv, DueIsNowhere, TargetsWait, Target, ClientsCome,
              OfferedOnce, Registered, ToldOfNew, Clients

(* One more offer of a frame to some clients. *)
LEMMA OfferedParts ==
    ASSUME CastShape, NEW clients, NEW f \in Frames, offers' = Offered(clients, f)
    PROVE  /\ offers' \in [Clients -> [Frames -> Nat]]
           /\ \A c \in Clients, g \in Frames :
                offers'[c][g] = IF c \in clients /\ g = f THEN offers[c][g] + 1 ELSE offers[c][g]
<1>1. offers \in [Clients -> [Frames -> Nat]]
  BY DEF CastShape
<1>2. \A c \in Clients : [offers[c] EXCEPT ![f] = @ + 1] \in [Frames -> Nat]
  BY <1>1
<1>3. offers' \in [Clients -> [Frames -> Nat]]
  BY <1>1, <1>2 DEF Offered
<1>4. ASSUME NEW c \in Clients, NEW g \in Frames
      PROVE  offers'[c][g] = IF c \in clients /\ g = f THEN offers[c][g] + 1 ELSE offers[c][g]
  <2>1. offers'[c] = IF c \in clients THEN [offers[c] EXCEPT ![f] = @ + 1] ELSE offers[c]
    BY DEF Offered
  <2>2. offers[c] \in [Frames -> Nat]
    BY <1>1
  <2> QED
    BY <2>1, <2>2
<1> QED
  BY <1>3, <1>4

LEMMA StoreKeeps ==
    ASSUME CastAssumption, CastInv, NEW f \in Frames, Store(f)
    PROVE  CastInv'
BY DEF CastInv, CastShape, DueIsNowhere, TargetsWait, Target, ClientsCome, OfferedOnce,
       Registered, ToldOfNew, Clients, Store

LEMMA BeginBroadcastKeeps ==
    ASSUME CastAssumption, CastInv, NEW f \in Frames, BeginBroadcast(f)
    PROVE  CastInv'
<1>1. /\ CastShape /\ DueIsNowhere /\ TargetsWait /\ ClientsCome /\ OfferedOnce /\ ToldOfNew
      /\ casts[f].stage = "due" /\ (f \notin EarlyFrames => f \in stored) /\ latest' = f
      /\ UNCHANGED <<stored, sockets, queues, stage, shown, offers>>
  BY DEF CastInv, BeginBroadcast
<1> DEFINE listening == {v \in Streams : v \in Registered}
           cast == [stage |-> "sending", sockets |-> sockets, failed |-> {}, queues |-> listening]
<1>2. casts' = [casts EXCEPT ![f] = cast] /\ casts \in [Frames -> Casts] /\ cast \in Casts
  BY <1>1 DEF BeginBroadcast, CastShape, Casts, CastStages
<1>3. /\ cast.stage = "sending" /\ cast.sockets = sockets /\ cast.queues = listening
  OBVIOUS
<1>4. \A v \in listening : v \in Streams /\ stage[v] \in {"waiting", "reading"}
  BY DEF Registered, CastAssumption, CastInv, CastShape
<1> HIDE DEF cast
<1>5. casts'[f] = cast /\ (\A g \in Frames : g # f => casts'[g] = casts[g])
      /\ casts' \in [Frames -> Casts]
  BY <1>2
<1>6. begun' = [c \in Clients |-> IF c \in Registered THEN begun[c] \cup {f} ELSE begun[c]]
  BY DEF BeginBroadcast
<1>7. CastShape'
  BY <1>1, <1>5, <1>6 DEF CastShape, Clients
<1>8. \A c \in Clients : offers[c][f] = 0 /\ f \notin begun[c]
  BY <1>1 DEF DueIsNowhere
<1>9. DueIsNowhere'
  BY <1>1, <1>3, <1>5, <1>6, <1>8 DEF DueIsNowhere, CastAssumption, Clients
<1>10. TargetsWait'
  BY <1>1, <1>3, <1>4, <1>5, <1>8 DEF TargetsWait, Target, ClientsCome, Clients
<1>11. ClientsCome'
  BY <1>1 DEF ClientsCome, Clients
<1>12. OfferedOnce'
  <2>1. Registered' = Registered
    BY <1>1 DEF Registered
  <2>2. ASSUME NEW c \in Clients, NEW g \in Frames, c \in Registered, g \in begun'[c]
        PROVE  offers[c][g] = 1 \/ Target(c, g)'
    <3>1. CASE g = f
      BY <1>3, <1>5, <2>2, <3>1 DEF Target, Registered
    <3>2. CASE g # f
      BY <1>1, <1>5, <1>6, <2>2, <3>2 DEF Target, OfferedOnce
    <3> QED
      BY <3>1, <3>2
  <2> QED
    BY <1>1, <2>1, <2>2 DEF OfferedOnce, Clients
<1>13. ToldOfNew'
  <2>1. ASSUME NEW v \in Streams, NEW g \in Frames \ EarlyFrames, stage[v] = "waiting",
               casts'[g].stage # "due"
        PROVE  g \in shown[v] \/ queues[v] # <<>> \/ Target(v, g)'
    <3>1. CASE g = f
      BY <1>3, <1>5, <2>1, <3>1 DEF Target, Registered
    <3>2. CASE g # f
      BY <1>1, <1>5, <2>1, <3>2 DEF Target, ToldOfNew
    <3> QED
      BY <3>1, <3>2
  <2> QED
    BY <1>1, <2>1 DEF ToldOfNew
<1> QED
  BY <1>7, <1>9, <1>10, <1>11, <1>12, <1>13 DEF CastInv

LEMMA SendFrameKeeps ==
    ASSUME CastAssumption, CastInv, NEW f \in Frames, NEW s \in Sockets, NEW fails \in BOOLEAN,
           SendFrame(f, s, fails)
    PROVE  CastInv'
<1>1. /\ CastShape /\ DueIsNowhere /\ TargetsWait /\ ClientsCome /\ OfferedOnce /\ ToldOfNew
      /\ casts[f].stage = "sending" /\ s \in casts[f].sockets
      /\ UNCHANGED <<stored, latest, sockets, queues, stage, shown, begun>>
  BY DEF CastInv, SendFrame
<1>2. s \in Clients /\ s \notin Streams
  BY DEF Clients, CastAssumption
<1>3. /\ offers' \in [Clients -> [Frames -> Nat]]
      /\ \A c \in Clients, g \in Frames :
           offers'[c][g] = IF c = s /\ g = f THEN offers[c][g] + 1 ELSE offers[c][g]
  <2> DEFINE one == {s}
  <2>1. offers' = Offered(one, f) /\ \A c : c \in one <=> c = s
    BY DEF SendFrame
  <2> HIDE DEF one
  <2>2. /\ offers' \in [Clients -> [Frames -> Nat]]
        /\ \A c \in Clients, g \in Frames :
             offers'[c][g] = IF c \in one /\ g = f THEN offers[c][g] + 1 ELSE offers[c][g]
    BY <1>1, <2>1, OfferedParts
  <2> QED
    BY <2>1, <2>2
<1>4. /\ casts' \in [Frames -> Casts]
      /\ \A g \in Frames : g # f => casts'[g] = casts[g]
      /\ casts'[f].stage = "sending" /\ casts'[f].queues = casts[f].queues
      /\ casts'[f].sockets = casts[f].sockets \ {s}
  <2> DEFINE failed == IF fails THEN casts[f].failed \cup {s} ELSE casts[f].failed
             cast == [casts[f] EXCEPT !.sockets = @ \ {s}, !.failed = failed]
  <2>1. casts \in [Frames -> Casts] /\ casts[f] \in Casts
    BY <1>1 DEF CastShape
  <2>2. /\ cast \in Casts /\ cast.stage = "sending" /\ cast.queues = casts[f].queues
        /\ cast.sockets = casts[f].sockets \ {s}
    BY <1>1, <2>1 DEF Casts
  <2>3. casts' = [casts EXCEPT ![f] = cast]
    BY DEF SendFrame
  <2> HIDE DEF cast
  <2> QED
    BY <2>1, <2>2, <2>3
<1>5. Target(s, f) /\ offers[s][f] = 0
  BY <1>1, <1>2 DEF Target, TargetsWait
<1>6. CastShape'
  BY <1>1, <1>3, <1>4 DEF CastShape, Clients
<1>7. DueIsNowhere'
  BY <1>1, <1>3, <1>4 DEF DueIsNowhere, Clients
<1>8. casts[f].queues \subseteq Streams
  BY <1>1 DEF CastShape, Casts
<1>9. \A c \in Clients, g \in Frames : Target(c, g)' <=> (Target(c, g) /\ ~(c = s /\ g = f))
  BY <1>1, <1>2, <1>4, <1>8 DEF Target
<1>10. TargetsWait'
  BY <1>1, <1>3, <1>4, <1>9 DEF TargetsWait, Clients
<1>11. ClientsCome'
  <2>1. stage[s] = "open"
    BY <1>1 DEF TargetsWait
  <2> QED
    BY <1>1, <1>3, <2>1 DEF ClientsCome, Clients
<1>12. OfferedOnce'
  <2>1. Registered' = Registered
    BY <1>1 DEF Registered
  <2>2. ASSUME NEW c \in Clients, NEW g \in Frames
        PROVE  /\ offers'[c][g] <= 1
               /\ c \in Registered' /\ g \in begun[c] => offers'[c][g] = 1 \/ Target(c, g)'
    BY <1>1, <1>3, <1>5, <1>9, <2>1 DEF OfferedOnce
  <2> QED
    BY <1>1, <2>2 DEF OfferedOnce, Clients
<1>13. ToldOfNew'
  <2>1. ASSUME NEW v \in Streams, NEW g \in Frames \ EarlyFrames, stage[v] = "waiting",
               casts'[g].stage # "due"
        PROVE  g \in shown[v] \/ queues[v] # <<>> \/ Target(v, g)'
    BY <1>1, <1>2, <1>4, <1>9, <2>1 DEF ToldOfNew, Clients
  <2> QED
    BY <1>1, <2>1 DEF ToldOfNew
<1> QED
  BY <1>6, <1>7, <1>10, <1>11, <1>12, <1>13 DEF CastInv

LEMMA PutFramesKeeps ==
    ASSUME CastAssumption, CastInv, NEW f \in Frames, PutFrames(f)
    PROVE  CastInv'
<1>1. /\ CastShape /\ DueIsNowhere /\ TargetsWait /\ ClientsCome /\ OfferedOnce /\ ToldOfNew
      /\ casts[f].stage = "sending" /\ casts[f].sockets = {}
      /\ sockets' \subseteq sockets
      /\ UNCHANGED <<stored, latest, stage, shown, begun>>
  BY DEF CastInv, PutFrames
<1>2. casts \in [Frames -> Casts] /\ casts[f] \in Casts /\ casts[f].queues \subseteq Streams
  BY <1>1 DEF CastShape, Casts
<1>3. /\ offers' \in [Clients -> [Frames -> Nat]]
      /\ \A c \in Clients, g \in Frames :
           offers'[c][g] = IF c \in casts[f].queues /\ g = f THEN offers[c][g] + 1
                           ELSE offers[c][g]
  <2>1. offers' = Offered(casts[f].queues, f)
    BY DEF PutFrames, StreamsOf
  <2> QED
    BY <1>1, <2>1, OfferedParts
<1>4. /\ casts' \in [Frames -> Casts]
      /\ \A g \in Frames : g # f => casts'[g] = casts[g]
      /\ casts'[f].stage = "done" /\ casts'[f].queues = casts[f].queues
      /\ casts'[f].sockets = {}
  <2> DEFINE cast == [casts[f] EXCEPT !.stage = "done", !.failed = {}]
  <2>1. /\ cast \in Casts /\ cast.stage = "done" /\ cast.queues = casts[f].queues
        /\ cast.sockets = {}
    BY <1>1, <1>2 DEF Casts, CastStages
  <2>2. casts' = [casts EXCEPT ![f] = cast]
    BY DEF PutFrames
  <2> HIDE DEF cast
  <2> QED
    BY <1>2, <2>1, <2>2
<1>5. /\ queues' \in [Streams -> Seq(Frames)]
      /\ \A v \in casts[f].queues : queues'[v] # <<>>
      /\ \A v \in Streams : queues[v] # <<>> => queues'[v] # <<>>
  <2>1. \A v \in Streams : queues[v] \in Seq(Frames)
    BY <1>1 DEF CastShape
  <2>2. queues' = [v \in Streams |-> IF v \in casts[f].queues /\ Len(queues[v]) < QueueSize
                                     THEN Append(queues[v], f) ELSE queues[v]]
    BY DEF PutFrames, StreamsOf
  <2>3. ASSUME NEW v \in Streams
        PROVE  /\ queues'[v] \in Seq(Frames)
               /\ v \in casts[f].queues => queues'[v] # <<>>
               /\ queues[v] # <<>> => queues'[v] # <<>>
    <3>1. queues[v] \in Seq(Frames) /\ QueueSize \in Nat \ {0}
      BY <2>1 DEF CastAssumption
    <3>2. Append(queues[v], f) \in Seq(Frames) /\ Append(queues[v], f) # <<>>
      BY <3>1
    <3>3. ~(Len(queues[v]) < QueueSize) => queues[v] # <<>>
      BY <3>1
    <3> QED
      BY <2>2, <3>1, <3>2, <3>3
  <2> QED
    BY <1>2, <2>2, <2>3
<1>6. CastShape'
  BY <1>1, <1>3, <1>4, <1>5 DEF CastShape, Clients
<1>7. DueIsNowhere'
  <2>1. ASSUME NEW g \in Frames, casts[g].stage = "due"
        PROVE  \A c \in Clients : offers'[c][g] = 0
    BY <1>1, <1>3, <2>1 DEF DueIsNowhere
  <2> QED
    BY <1>1, <1>4, <2>1 DEF DueIsNowhere, Clients
<1>8. \A c \in Clients, g \in Frames : Target(c, g)' <=> (Target(c, g) /\ g # f)
  BY <1>1, <1>4 DEF Target
<1>9. TargetsWait'
  <2>1. \A c \in Clients, g \in Frames : Target(c, g)' => offers'[c][g] = 0
    BY <1>1, <1>3, <1>8 DEF TargetsWait
  <2> QED
    BY <1>1, <1>4, <2>1 DEF TargetsWait, Clients
<1>10. \A v \in casts[f].queues : /\ v \in Clients /\ Target(v, f) /\ offers[v][f] = 0
                                  /\ stage[v] \in {"waiting", "reading"}
  BY <1>1, <1>2 DEF Target, TargetsWait, Clients
<1>11. ClientsCome'
  <2>1. ASSUME NEW c \in Clients, stage[c] \in {"away", "entering"}, NEW g \in Frames
        PROVE  offers'[c][g] = 0
    BY <1>1, <1>3, <1>10, <2>1 DEF ClientsCome
  <2> QED
    BY <1>1, <2>1 DEF ClientsCome, Clients
<1>12. OfferedOnce'
  <2>1. Registered' \subseteq Registered
    BY <1>1 DEF Registered
  <2>2. ASSUME NEW c \in Clients, NEW g \in Frames
        PROVE  /\ offers'[c][g] <= 1
               /\ c \in Registered /\ g \in begun[c] => offers'[c][g] = 1 \/ Target(c, g)'
    <3>1. CASE g = f /\ c \in casts[f].queues
      BY <1>3, <1>10, <3>1
    <3>2. CASE g = f /\ c \notin casts[f].queues
      BY <1>1, <1>3, <3>2 DEF OfferedOnce, Target
    <3>3. CASE g # f
      BY <1>1, <1>3, <1>8, <3>3 DEF OfferedOnce
    <3> QED
      BY <3>1, <3>2, <3>3
  <2> QED
    BY <1>1, <2>1, <2>2 DEF OfferedOnce, Clients
<1>13. ToldOfNew'
  <2>1. ASSUME NEW v \in Streams, NEW g \in Frames \ EarlyFrames, stage[v] = "waiting",
               casts'[g].stage # "due"
        PROVE  g \in shown[v] \/ queues'[v] # <<>> \/ Target(v, g)'
    <3>1. casts[g].stage # "due"
      BY <1>1, <1>4, <2>1
    <3>2. g \in shown[v] \/ queues[v] # <<>> \/ Target(v, g)
      BY <1>1, <2>1, <3>1 DEF ToldOfNew
    <3>3. CASE Target(v, g) /\ g = f
      BY <1>1, <1>5, <3>3 DEF Target
    <3>4. CASE Target(v, g) /\ g # f
      BY <1>8, <3>4 DEF Clients
    <3> QED
      BY <1>5, <3>2, <3>3, <3>4
  <2> QED
    BY <1>1, <2>1 DEF ToldOfNew
<1> QED
  BY <1>6, <1>7, <1>9, <1>11, <1>12, <1>13 DEF CastInv

(* A client that is registered is offered the latest frame, if any. *)
LEMMA LatestOffered ==
    ASSUME CastShape, ClientsCome, NEW c \in Clients, stage[c] \in {"away", "entering"},
           offers' = IF latest = NoFrame THEN offers ELSE Offered({c}, latest),
           begun' = [begun EXCEPT ![c] = IF latest = NoFrame THEN {} ELSE {latest}]
    PROVE  /\ offers' \in [Clients -> [Frames -> Nat]]
           /\ begun' \in [Clients -> SUBSET Frames]
           /\ \A g \in Frames : /\ offers'[c][g] = IF g = latest /\ latest # NoFrame THEN 1 ELSE 0
                                /\ g \in begun'[c] <=> (g = latest /\ latest # NoFrame)
           /\ \A d \in Clients : d # c => (begun'[d] = begun[d] /\ \A g \in Frames : offers'[d][g] = offers[d][g])
<1>1. /\ offers \in [Clients -> [Frames -> Nat]] /\ begun \in [Clients -> SUBSET Frames]
      /\ latest \in Frames \cup {NoFrame} /\ \A g \in Frames : offers[c][g] = 0
  BY DEF CastShape, ClientsCome
<1>2. /\ offers' \in [Clients -> [Frames -> Nat]]
      /\ \A g \in Frames : offers'[c][g] = IF g = latest /\ latest # NoFrame THEN 1 ELSE 0
      /\ \A d \in Clients : d # c => \A g \in Frames : offers'[d][g] = offers[d][g]
  <2>1. CASE latest = NoFrame
    BY <1>1, <2>1
  <2>2. CASE latest # NoFrame
    <3> DEFINE one == {c}
    <3>1. latest \in Frames /\ offers' = Offered(one, latest) /\ \A d : d \in one <=> d = c
      BY <1>1, <2>2
    <3> HIDE DEF one
    <3>2. /\ offers' \in [Clients -> [Frames -> Nat]]
          /\ \A d \in Clients, g \in Frames :
               offers'[d][g] = IF d \in one /\ g = latest THEN offers[d][g] + 1 ELSE offers[d][g]
      BY <3>1, OfferedParts
    <3>3. ASSUME NEW g \in Frames
          PROVE  offers'[c][g] = IF g = latest /\ latest # NoFrame THEN 1 ELSE 0
      <4>1. offers'[c][g] = IF c \in one /\ g = latest THEN offers[c][g] + 1 ELSE offers[c][g]
        BY <3>2
      <4> QED
        BY <1>1, <2>2, <3>1, <4>1
    <3>4. ASSUME NEW d \in Clients, d # c, NEW g \in Frames
          PROVE  offers'[d][g] = offers[d][g]
      BY <3>1, <3>2, <3>4
    <3> QED
      BY <3>2, <3>3, <3>4
  <2> QED
    BY <2>1, <2>2
<1>3. /\ begun' \in [Clients -> SUBSET Frames]
      /\ \A g \in Frames : g \in begun'[c] <=> (g = latest /\ latest # NoFrame)
      /\ \A d \in Clients : d # c => begun'[d] = begun[d]
  BY <1>1
<1> QED
  BY <1>2, <1>3

LEMMA ConnectSocketKeeps ==
    ASSUME CastAssumption, CastInv, NEW s \in Sockets, ConnectSocket(s)
    PROVE  CastInv'
<1>1. /\ CastShape /\ DueIsNowhere /\ TargetsWait /\ ClientsCome /\ OfferedOnce /\ ToldOfNew
      /\ stage[s] = "away" /\ stage' = [stage EXCEPT ![s] = "open"]
      /\ sockets' = sockets \cup {s}
      /\ UNCHANGED <<stored, latest, casts, queues, shown>>
  BY DEF CastInv, ConnectSocket
<1>2. s \in Clients /\ s \notin Streams
  BY DEF Clients, CastAssumption
<1>3. /\ offers' \in [Clients -> [Frames -> Nat]]
      /\ begun' \in [Clients -> SUBSET Frames]
      /\ \A g \in Frames : /\ offers'[s][g] = IF g = latest /\ latest # NoFrame THEN 1 ELSE 0
                           /\ g \in begun'[s] <=> (g = latest /\ latest # NoFrame)
      /\ \A d \in Clients : d # s => (begun'[d] = begun[d] /\ \A g \in Frames : offers'[d][g] = offers[d][g])
  <2>1. CastShape /\ ClientsCome /\ stage[s] \in {"away", "entering"}
    BY <1>1
  <2>2. /\ offers' = IF latest = NoFrame THEN offers ELSE Offered({s}, latest)
        /\ begun' = [begun EXCEPT ![s] = IF latest = NoFrame THEN {} ELSE {latest}]
    BY DEF ConnectSocket
  <2> QED
    BY <1>2, <2>1, <2>2, LatestOffered
<1>4. /\ stage \in [Clients -> {"away", "open", "entering", "waiting", "reading"}]
      /\ stage'[s] = "open" /\ \A d \in Clients : d # s => stage'[d] = stage[d]
  BY <1>1, <1>2 DEF CastShape
<1>5. CastShape'
  BY <1>1, <1>2, <1>3, <1>4 DEF CastShape, Clients
<1>6. DueIsNowhere'
  BY <1>1, <1>3 DEF DueIsNowhere, Clients
<1>7. \A f \in Frames : /\ casts[f].queues \subseteq Clients /\ casts[f].sockets \subseteq Clients
                        /\ ~Target(s, f) /\ s \notin casts[f].queues
  <2>1. \A f \in Frames : casts[f] \in Casts
    BY <1>1 DEF CastShape
  <2>2. \A f \in Frames : casts[f].queues \subseteq Streams /\ casts[f].sockets \subseteq Sockets
    BY <2>1 DEF Casts
  <2> QED
    BY <1>1, <1>2, <2>2 DEF Target, TargetsWait, Clients
<1>8. TargetsWait'
  BY <1>1, <1>2, <1>3, <1>4, <1>7 DEF TargetsWait, Target, Clients
<1>9. ClientsCome'
  BY <1>1, <1>2, <1>3, <1>4 DEF ClientsCome, Clients, CastShape
<1>10. OfferedOnce'
  <2>1. ASSUME NEW c \in Clients, NEW g \in Frames
        PROVE  /\ offers'[c][g] <= 1
               /\ c \in Registered' /\ g \in begun'[c] => offers'[c][g] = 1 \/ Target(c, g)
    <3>1. CASE c = s
      BY <1>1, <1>3, <3>1
    <3>2. CASE c # s
      <4>1. c \in Registered' <=> c \in Registered
        BY <1>1, <1>4, <3>2 DEF Registered, Clients
      <4> QED
        BY <1>1, <1>3, <3>2, <4>1 DEF OfferedOnce
    <3> QED
      BY <3>1, <3>2
  <2> QED
    BY <1>1, <2>1 DEF OfferedOnce, Clients, Target
<1>11. ToldOfNew'
  BY <1>1, <1>2, <1>4 DEF ToldOfNew, Target, Clients
<1> QED
  BY <1>5, <1>6, <1>8, <1>9, <1>10, <1>11 DEF CastInv

LEMMA DisconnectSocketKeeps ==
    ASSUME CastAssumption, CastInv, NEW s \in Sockets, DisconnectSocket(s)
    PROVE  CastInv'
BY DEF CastInv, CastShape, DueIsNowhere, TargetsWait, Target, ClientsCome, OfferedOnce,
       Registered, ToldOfNew, Clients, DisconnectSocket

LEMMA RegisterStreamKeeps ==
    ASSUME CastAssumption, CastInv, NEW v \in Streams, RegisterStream(v)
    PROVE  CastInv'
<1>1. /\ CastShape /\ DueIsNowhere /\ TargetsWait /\ ClientsCome /\ OfferedOnce /\ ToldOfNew
      /\ stage[v] = "entering" /\ stage' = [stage EXCEPT ![v] = "waiting"]
      /\ queues' = [queues EXCEPT ![v] = FirstFrames]
      /\ UNCHANGED <<stored, latest, casts, sockets, shown>>
  BY DEF CastInv, RegisterStream
<1>2. v \in Clients /\ v \notin Sockets
  BY DEF Clients, CastAssumption
<1>3. /\ offers' \in [Clients -> [Frames -> Nat]]
      /\ begun' \in [Clients -> SUBSET Frames]
      /\ \A g \in Frames : /\ offers'[v][g] = IF g = latest /\ latest # NoFrame THEN 1 ELSE 0
                           /\ g \in begun'[v] <=> (g = latest /\ latest # NoFrame)
      /\ \A d \in Clients : d # v => (begun'[d] = begun[d] /\ \A g \in Frames : offers'[d][g] = offers[d][g])
  <2>1. CastShape /\ ClientsCome /\ stage[v] \in {"away", "entering"}
    BY <1>1
  <2>2. /\ offers' = IF latest = NoFrame THEN offers ELSE Offered({v}, latest)
        /\ begun' = [begun EXCEPT ![v] = IF latest = NoFrame THEN {} ELSE {latest}]
    BY DEF RegisterStream
  <2> QED
    BY <1>2, <2>1, <2>2, LatestOffered
<1>4. /\ stage \in [Clients -> {"away", "open", "entering", "waiting", "reading"}]
      /\ stage'[v] = "waiting" /\ \A d \in Clients : d # v => stage'[d] = stage[d]
  BY <1>1, <1>2 DEF CastShape
<1>5. /\ FirstFrames \in Seq(Frames) /\ (latest # NoFrame => FirstFrames # <<>>)
  BY <1>1 DEF FirstFrames, CastShape
<1>6. CastShape'
  BY <1>1, <1>2, <1>3, <1>4, <1>5 DEF CastShape, Clients
<1>7. DueIsNowhere'
  BY <1>1, <1>3 DEF DueIsNowhere, Clients
<1>8. \A f \in Frames : ~Target(v, f) /\ v \notin casts[f].queues /\ v \notin casts[f].sockets
  <2>1. \A f \in Frames : casts[f] \in Casts
    BY <1>1 DEF CastShape
  <2>2. \A f \in Frames : casts[f].queues \subseteq Streams /\ casts[f].sockets \subseteq Sockets
    BY <2>1 DEF Casts
  <2> QED
    BY <1>1, <1>2, <2>2 DEF Target, TargetsWait
<1>9. TargetsWait'
  <2>1. \A f \in Frames : casts[f].queues \subseteq Clients /\ casts[f].sockets \subseteq Clients
    BY <1>1 DEF CastShape, Casts, Clients
  <2> QED
    BY <1>1, <1>2, <1>3, <1>4, <1>8, <2>1 DEF TargetsWait, Target, Clients
<1>10. ClientsCome'
  BY <1>1, <1>2, <1>3, <1>4 DEF ClientsCome, Clients, CastShape
<1>11. OfferedOnce'
  <2>1. ASSUME NEW c \in Clients, NEW g \in Frames
        PROVE  /\ offers'[c][g] <= 1
               /\ c \in Registered' /\ g \in begun'[c] => offers'[c][g] = 1 \/ Target(c, g)
    <3>1. CASE c = v
      BY <1>1, <1>3, <3>1
    <3>2. CASE c # v
      <4>1. c \in Registered' <=> c \in Registered
        BY <1>1, <1>4, <3>2 DEF Registered, Clients
      <4> QED
        BY <1>1, <1>3, <3>2, <4>1 DEF OfferedOnce
    <3> QED
      BY <3>1, <3>2
  <2> QED
    BY <1>1, <2>1 DEF OfferedOnce, Clients, Target
<1>12. ToldOfNew'
  <2>1. ASSUME NEW w \in Streams, NEW g \in Frames \ EarlyFrames, stage'[w] = "waiting",
               casts[g].stage # "due"
        PROVE  g \in shown[w] \/ queues'[w] # <<>> \/ Target(w, g)
    <3>1. CASE w = v
      <4>1. latest # NoFrame
        BY <1>1, <2>1 DEF DueIsNowhere
      <4>2. queues'[v] = FirstFrames
        BY <1>1 DEF CastShape
      <4> QED
        BY <1>5, <3>1, <4>1, <4>2
    <3>2. CASE w # v
      <4>1. stage[w] = "waiting" /\ queues'[w] = queues[w]
        BY <1>1, <1>4, <2>1, <3>2 DEF Clients, CastShape
      <4> QED
        BY <1>1, <2>1, <4>1 DEF ToldOfNew
    <3> QED
      BY <3>1, <3>2
  <2> QED
    BY <1>1, <2>1 DEF ToldOfNew, Target
<1> QED
  BY <1>6, <1>7, <1>9, <1>10, <1>11, <1>12 DEF CastInv

(* The steps of a stream that offer it nothing. *)
LEMMA OpenStreamKeeps ==
    ASSUME CastAssumption, CastInv, NEW v \in Streams, OpenStream(v)
    PROVE  CastInv'
<1>1. /\ CastShape /\ DueIsNowhere /\ TargetsWait /\ ClientsCome /\ OfferedOnce /\ ToldOfNew
      /\ stage[v] = "away"
      /\ stage' = [stage EXCEPT ![v] = "entering"]
      /\ shown' = [shown EXCEPT ![v] = stored]
      /\ UNCHANGED <<stored, latest, casts, sockets, queues, offers, begun>>
  BY DEF CastInv, OpenStream
<1>2. v \in Clients /\ v \notin Sockets
  BY DEF Clients, CastAssumption
<1>3. CastShape'
  BY <1>1, <1>2 DEF CastShape, Clients
<1>4. /\ stage'[v] = "entering" /\ \A d \in Clients : d # v => stage'[d] = stage[d]
      /\ \A w \in Streams : w # v => shown'[w] = shown[w]
  BY <1>1, <1>2 DEF CastShape
<1>5. DueIsNowhere'
  BY <1>1 DEF DueIsNowhere, Clients
<1>6. TargetsWait'
  <2>1. \A f \in Frames : casts[f].queues \subseteq Clients /\ casts[f].sockets \subseteq Sockets
    BY <1>1 DEF CastShape, Casts, Clients
  <2> QED
    BY <1>1, <1>2, <1>4, <2>1 DEF TargetsWait, Target, Clients
<1>7. ClientsCome'
  BY <1>1, <1>2, <1>4 DEF ClientsCome, Clients, CastShape
<1>8. OfferedOnce'
  <2>1. Registered' = Registered
    BY <1>1, <1>2, <1>4 DEF Registered, Clients
  <2> QED
    BY <1>1, <2>1 DEF OfferedOnce, Clients, Target
<1>9. ToldOfNew'
  BY <1>1, <1>4 DEF ToldOfNew, Target, Clients
<1> QED
  BY <1>3, <1>5, <1>6, <1>7, <1>8, <1>9 DEF CastInv

LEMMA TakeFrameKeeps ==
    ASSUME CastAssumption, CastInv, NEW v \in Streams, TakeFrame(v)
    PROVE  CastInv'
<1>1. /\ CastShape /\ DueIsNowhere /\ TargetsWait /\ ClientsCome /\ OfferedOnce /\ ToldOfNew
      /\ stage[v] = "waiting" /\ queues[v] # <<>>
      /\ stage' = [stage EXCEPT ![v] = "reading"]
      /\ queues' = [queues EXCEPT ![v] = Tail(@)]
      /\ UNCHANGED <<stored, latest, casts, sockets, shown, offers, begun>>
  BY DEF CastInv, TakeFrame
<1>2. v \in Clients /\ v \notin Sockets
  BY DEF Clients, CastAssumption
<1>3. Tail(queues[v]) \in Seq(Frames)
  BY <1>1 DEF CastShape
<1>4. CastShape'
  BY <1>1, <1>2, <1>3 DEF CastShape, Clients
<1>5. /\ stage'[v] = "reading" /\ \A d \in Clients : d # v => stage'[d] = stage[d]
      /\ \A w \in Streams : w # v => queues'[w] = queues[w]
  BY <1>1, <1>2 DEF CastShape
<1>6. DueIsNowhere'
  BY <1>1 DEF DueIsNowhere, Clients
<1>7. TargetsWait'
  <2>1. \A f \in Frames : casts[f].queues \subseteq Clients /\ casts[f].sockets \subseteq Sockets
    BY <1>1 DEF CastShape, Casts, Clients
  <2> QED
    BY <1>1, <1>2, <1>5, <2>1 DEF TargetsWait, Target, Clients
<1>8. ClientsCome'
  BY <1>1, <1>2, <1>5 DEF ClientsCome, Clients, CastShape
<1>9. OfferedOnce'
  <2>1. Registered' = Registered
    BY <1>1, <1>2, <1>5 DEF Registered, Clients
  <2> QED
    BY <1>1, <2>1 DEF OfferedOnce, Clients, Target
<1>10. ToldOfNew'
  BY <1>1, <1>5 DEF ToldOfNew, Target, Clients
<1> QED
  BY <1>4, <1>6, <1>7, <1>8, <1>9, <1>10 DEF CastInv

(* The snapshot is of all that is stored by now. *)
LEMMA ShowSnapshotKeeps ==
    ASSUME CastAssumption, CastInv, NEW v \in Streams, ShowSnapshot(v)
    PROVE  CastInv'
<1>1. /\ CastShape /\ DueIsNowhere /\ TargetsWait /\ ClientsCome /\ OfferedOnce /\ ToldOfNew
      /\ stage[v] = "reading"
      /\ stage' = [stage EXCEPT ![v] = "waiting"]
      /\ shown' = [shown EXCEPT ![v] = stored]
      /\ UNCHANGED <<stored, latest, casts, sockets, queues, offers, begun>>
  BY DEF CastInv, ShowSnapshot
<1>2. v \in Clients /\ v \notin Sockets
  BY DEF Clients, CastAssumption
<1>3. CastShape'
  BY <1>1, <1>2 DEF CastShape, Clients
<1>4. /\ stage'[v] = "waiting" /\ \A d \in Clients : d # v => stage'[d] = stage[d]
      /\ shown'[v] = stored /\ \A w \in Streams : w # v => shown'[w] = shown[w]
  BY <1>1, <1>2 DEF CastShape
<1>5. DueIsNowhere'
  BY <1>1 DEF DueIsNowhere, Clients
<1>6. TargetsWait'
  <2>1. \A f \in Frames : casts[f].queues \subseteq Clients /\ casts[f].sockets \subseteq Sockets
    BY <1>1 DEF CastShape, Casts, Clients
  <2> QED
    BY <1>1, <1>2, <1>4, <2>1 DEF TargetsWait, Target, Clients
<1>7. ClientsCome'
  BY <1>1, <1>2, <1>4 DEF ClientsCome, Clients, CastShape
<1>8. OfferedOnce'
  <2>1. Registered' = Registered
    BY <1>1, <1>2, <1>4 DEF Registered, Clients
  <2> QED
    BY <1>1, <2>1 DEF OfferedOnce, Clients, Target
<1>9. ToldOfNew'
  <2>1. ASSUME NEW w \in Streams, NEW g \in Frames \ EarlyFrames, stage'[w] = "waiting",
               casts[g].stage # "due"
        PROVE  g \in shown'[w] \/ queues[w] # <<>> \/ Target(w, g)
    <3>1. CASE w = v
      BY <1>1, <1>4, <2>1, <3>1 DEF DueIsNowhere
    <3>2. CASE w # v
      BY <1>1, <1>4, <2>1, <3>2 DEF ToldOfNew, Clients
    <3> QED
      BY <3>1, <3>2
  <2> QED
    BY <1>1, <2>1 DEF ToldOfNew, Target
<1> QED
  BY <1>3, <1>5, <1>6, <1>7, <1>8, <1>9 DEF CastInv

LEMMA CloseStreamKeeps ==
    ASSUME CastAssumption, CastInv, NEW v \in Streams, CloseStream(v)
    PROVE  CastInv'
<1>1. /\ CastShape /\ DueIsNowhere /\ TargetsWait /\ ClientsCome /\ OfferedOnce /\ ToldOfNew
      /\ UNCHANGED <<stored, latest, sockets, shown>>
  BY DEF CastInv, CloseStream
<1>2. v \in Clients /\ v \notin Sockets
  BY DEF Clients, CastAssumption
<1>3. /\ stage' \in [Clients -> {"away", "open", "entering", "waiting", "reading"}]
      /\ stage'[v] = "away" /\ \A d \in Clients : d # v => stage'[d] = stage[d]
  <2>1. stage' = [stage EXCEPT ![v] = "away"]
    BY DEF CloseStream
  <2> QED
    BY <1>1, <1>2, <2>1 DEF CastShape
<1>4. /\ queues' \in [Streams -> Seq(Frames)]
       /\ \A w \in Streams : w # v => queues'[w] = queues[w]
  <2>1. queues' = [queues EXCEPT ![v] = <<>>] /\ <<>> \in Seq(Frames)
    BY DEF CloseStream
  <2> QED
    BY <1>1, <2>1 DEF CastShape
<1>5. /\ begun' \in [Clients -> SUBSET Frames]
       /\ \A d \in Clients, g \in Frames : g \in begun'[d] => g \in begun[d]
  <2>1. begun' = [begun EXCEPT ![v] = {}] /\ begun \in [Clients -> SUBSET Frames]
    BY <1>1 DEF CloseStream, CastShape
  <2> QED
    BY <1>2, <2>1
<1>6. /\ offers' \in [Clients -> [Frames -> Nat]]
      /\ \A g \in Frames : offers'[v][g] = 0
      /\ \A d \in Clients : d # v => offers'[d] = offers[d]
  <2> DEFINE none == [f \in Frames |-> 0]
  <2>1. none \in [Frames -> Nat] /\ \A g \in Frames : none[g] = 0
    OBVIOUS
  <2>2. offers' = [offers EXCEPT ![v] = none]
    BY DEF CloseStream
  <2> HIDE DEF none
  <2> QED
    BY <1>1, <1>2, <2>1, <2>2 DEF CastShape
<1>7. /\ casts' \in [Frames -> Casts]
      /\ \A f \in Frames : /\ casts'[f].stage = casts[f].stage
                           /\ casts'[f].sockets = casts[f].sockets
                           /\ casts'[f].queues = casts[f].queues \ {v}
  <2>1. ASSUME NEW f \in Frames
        PROVE  LET c == [casts[f] EXCEPT !.queues = @ \ {v}] IN
               /\ c \in Casts /\ c.stage = casts[f].stage /\ c.sockets = casts[f].sockets
               /\ c.queues = casts[f].queues \ {v}
    <3>1. casts[f] \in Casts
      BY <1>1 DEF CastShape
    <3> QED
      BY <3>1 DEF Casts
  <2>2. casts' = [f \in Frames |-> [casts[f] EXCEPT !.queues = @ \ {v}]]
    BY DEF CloseStream
  <2> QED
    BY <2>1, <2>2
<1>8. \A f \in Frames : casts[f].queues \subseteq Clients /\ casts[f].sockets \subseteq Sockets
  BY <1>1 DEF CastShape, Casts, Clients
<1>9. \A c \in Clients, f \in Frames : Target(c, f)' <=> (Target(c, f) /\ c # v)
  BY <1>2, <1>7, <1>8 DEF Target
<1>10. CastShape'
  BY <1>1, <1>3, <1>4, <1>5, <1>6, <1>7 DEF CastShape, Clients
<1>11. DueIsNowhere'
  <2>1. ASSUME NEW f \in Frames, casts[f].stage = "due", NEW c \in Clients
        PROVE  offers'[c][f] = 0 /\ f \notin begun'[c]
    BY <1>1, <1>2, <1>5, <1>6, <2>1 DEF DueIsNowhere
  <2> QED
    BY <1>1, <1>7, <2>1 DEF DueIsNowhere, Clients
<1>12. TargetsWait'
  <2>1. ASSUME NEW f \in Frames
        PROVE  /\ \A s \in casts'[f].sockets : stage'[s] = "open" /\ casts'[f].stage = "sending"
               /\ \A w \in casts'[f].queues : stage'[w] \in {"waiting", "reading"}
    BY <1>1, <1>2, <1>3, <1>7, <1>8 DEF TargetsWait, Clients
  <2>2. \A f \in Frames, c \in Clients : Target(c, f)' => offers'[c][f] = 0
    BY <1>1, <1>6, <1>9 DEF TargetsWait
  <2> QED
    BY <2>1, <2>2 DEF TargetsWait, Clients
<1>13. ClientsCome'
  <2>1. ASSUME NEW c \in Clients, stage'[c] \in {"away", "entering"}, NEW f \in Frames
        PROVE  offers'[c][f] = 0
    BY <1>1, <1>2, <1>3, <1>6, <2>1 DEF ClientsCome
  <2>2. sockets \subseteq Sockets
    BY <1>1 DEF CastShape
  <2>3. \A s \in Sockets : stage'[s] = stage[s]
    BY <1>2, <1>3 DEF Clients
  <2> QED
    BY <1>1, <1>3, <2>1, <2>2, <2>3 DEF ClientsCome, Clients
<1>14. OfferedOnce'
  <2>1. ASSUME NEW c \in Clients, c \in Registered'
        PROVE  c \in Registered /\ c # v
    <3>1. sockets' = sockets /\ sockets \subseteq Sockets
      BY <1>1 DEF CastShape
    <3>2. CASE c \in sockets
      BY <1>2, <3>1, <3>2 DEF Registered
    <3>3. CASE c \in Streams /\ stage'[c] \in {"waiting", "reading"}
      BY <1>3, <3>3 DEF Registered
    <3> QED
      BY <2>1, <3>1, <3>2, <3>3 DEF Registered
  <2>2. ASSUME NEW c \in Clients, NEW g \in Frames
        PROVE  /\ offers'[c][g] <= 1
               /\ c \in Registered' /\ g \in begun'[c] => offers'[c][g] = 1 \/ Target(c, g)'
    BY <1>1, <1>5, <1>6, <1>9, <2>1 DEF OfferedOnce
  <2> QED
    BY <1>1, <2>2 DEF OfferedOnce, Clients
<1>15. ToldOfNew'
  <2>1. ASSUME NEW w \in Streams, NEW g \in Frames \ EarlyFrames, stage'[w] = "waiting",
               casts'[g].stage # "due"
        PROVE  g \in shown[w] \/ queues'[w] # <<>> \/ Target(w, g)'
    <3>1. w # v /\ w \in Clients
      BY <1>3, <2>1 DEF Clients
    <3> QED
      BY <1>1, <1>3, <1>4, <1>7, <1>9, <2>1, <3>1 DEF ToldOfNew
  <2> QED
    BY <1>1, <2>1 DEF ToldOfNew
<1> QED
  BY <1>10, <1>11, <1>12, <1>13, <1>14, <1>15 DEF CastInv

LEMMA CastKept ==
    ASSUME CastAssumption, CastInv, [CastNext]_castVars
    PROVE  CastInv'
<1>1. ASSUME NEW f \in Frames, Store(f) \/ BeginBroadcast(f) \/ PutFrames(f)
      PROVE  CastInv'
  BY <1>1, StoreKeeps, BeginBroadcastKeeps, PutFramesKeeps
<1>2. ASSUME NEW f \in Frames, NEW s \in Sockets, NEW fails \in BOOLEAN, SendFrame(f, s, fails)
      PROVE  CastInv'
  BY <1>2, SendFrameKeeps
<1>3. ASSUME NEW s \in Sockets, ConnectSocket(s) \/ DisconnectSocket(s)
      PROVE  CastInv'
  BY <1>3, ConnectSocketKeeps, DisconnectSocketKeeps
<1>4. ASSUME NEW v \in Streams,
             \/ OpenStream(v) \/ RegisterStream(v) \/ TakeFrame(v)
             \/ ShowSnapshot(v) \/ CloseStream(v)
      PROVE  CastInv'
  BY <1>4, OpenStreamKeeps, RegisterStreamKeeps, TakeFrameKeeps, ShowSnapshotKeeps,
     CloseStreamKeeps
<1>5. CASE UNCHANGED castVars
  BY <1>5 DEF castVars, CastInv, CastShape, DueIsNowhere, TargetsWait, Target, ClientsCome,
              OfferedOnce, Registered, ToldOfNew, Clients
<1> QED
  BY <1>1, <1>2, <1>3, <1>4, <1>5 DEF CastNext

(* Every client gets every frame of its time once, and a stream that has   *)
(* nothing to do shows what was stored before it was broadcast, however    *)
(* many frames are on their way at once and however short the queues are   *)
(* (broadcast, register_sse_queue, event_generator).                       *)
THEOREM Broadcasting == CastSpec => []BroadcastsArrive
<1>1. CastInit => CastInv
  BY CastAssumption, CastInitially
<1>2. CastInv /\ [CastNext]_castVars => CastInv'
  BY CastAssumption, CastKept
<1>3. CastInv => BroadcastsArrive
  <2>1. SUFFICES ASSUME CastInv PROVE BroadcastsArrive
    OBVIOUS
  <2>2. CastShape /\ TargetsWait /\ OfferedOnce /\ ToldOfNew
    BY <2>1 DEF CastInv
  <2>3. \A f \in Frames, c \in Clients : casts[f].stage = "done" => ~Target(c, f)
    BY <2>2 DEF Target, TargetsWait
  <2>4. Registered \subseteq Clients
    BY <2>2 DEF Registered, Clients, CastShape
  <2>5. FramesArriveOnce
    BY <2>2, <2>3, <2>4 DEF OfferedOnce, FramesArriveOnce
  <2>6. SnapshotsCatchUp
    BY <2>2, <2>3 DEF ToldOfNew, SnapshotsCatchUp, Clients
  <2> QED
    BY <2>5, <2>6 DEF BroadcastsArrive
<1> QED
  BY <1>1, <1>2, <1>3, PTL DEF CastSpec

-----------------------------------------------------------------------------
(* Measurements of the first contract: the inductive invariant. *)

MetricStates == {"NORMAL", "WARNING", "CRITICAL"}
MetricRequests == [metric : Metrics, moved : BOOLEAN, raises : BOOLEAN, danger : BOOLEAN]

MetricShape ==
    /\ engine \in MetricStates /\ limits \in Limits
    /\ ingest \in [Senders -> MetricRequests \cup {NoMetric}]
    /\ waiting \in Nat /\ clock \in Nat
    /\ lastAlert = Untaken \/ (lastAlert \in Nat /\ lastAlert <= clock)
    /\ alerts \in Seq([at : Nat, outcome : {"writing", "stored", "lost"}])
    /\ dangers \subseteq 0 .. clock

(* A measurement that is CRITICAL calls for an alert. *)
DangerRaises == \A s \in Senders : ingest[s] # NoMetric /\ ingest[s].danger => ingest[s].raises

(* The cooldown is that of the last alert, which was the latest. *)
LastIsLatest ==
    /\ lastAlert = Untaken => alerts = <<>>
    /\ lastAlert # Untaken => /\ \A i \in DOMAIN alerts : alerts[i].at <= lastAlert
                              /\ \E i \in DOMAIN alerts : alerts[i].at = lastAlert

(* A danger is alerted of, or it is of now and its task still waits. *)
DangerIsNoticed == \A t \in dangers : AlertedSince(t) \/ (waiting > 0 /\ t = clock)

MetricInv ==
    /\ MetricShape /\ DangerRaises /\ LastIsLatest /\ DangerIsNoticed
    /\ AcceptedIsStored /\ AlertsKeepCooldown

LEMMA EvaluatedIsState ==
    ASSUME NEW limit, NEW state \in MetricStates, NEW level \in Nat,
           limit.warning \in Nat, limit.critical \in Nat
    PROVE  Evaluated(state, level, limit) \in MetricStates
BY DEF Evaluated, MetricStates

(* Whatever the state and the levels, the evaluation of MetricAssumption's *)
(* limits is stable, monotone and without chatter.                         *)
LEMMA EvaluatedIsSteady ==
    ASSUME NEW limit, NEW state \in MetricStates, NEW low \in Nat, NEW high \in Nat, low <= high,
           MetricAssumption, limit \in Limits
    PROVE  LET e(from, level) == Evaluated(from, level, limit)
               up   == e(state, high)
               down == e(up, low)
           IN  /\ e(up, high) = up
               /\ Rank(e(state, low)) <= Rank(up)
               /\ high - low < HysteresisMargin /\ e(down, high) = up => down = up
<1>1. /\ limit.warning \in Nat /\ limit.critical \in Nat /\ HysteresisMargin \in Nat \ {0}
      /\ limit.warning + HysteresisMargin <= limit.critical
  BY DEF MetricAssumption
<1>2. ASSUME NEW from \in MetricStates, NEW x \in Nat
      PROVE  /\ Evaluated(from, x, limit) \in MetricStates
             /\ Evaluated(from, x, limit) = "CRITICAL" <=>
                  (x >= limit.critical
                     \/ (from = "CRITICAL" /\ x >= limit.critical - HysteresisMargin))
             /\ Evaluated(from, x, limit) = "NORMAL" <=>
                  (x < limit.warning
                     /\ (from = "NORMAL" \/ x < limit.warning - HysteresisMargin))
  <2>1. CASE x >= limit.critical
    BY <1>1, <2>1 DEF Evaluated, MetricStates
  <2>2. CASE x < limit.critical /\ x >= limit.warning
    BY <1>1, <2>2 DEF Evaluated, MetricStates
  <2>3. CASE x < limit.warning
    BY <1>1, <2>3 DEF Evaluated, MetricStates
  <2> QED
    BY <1>1, <2>1, <2>2, <2>3
<1> DEFINE e(from, level) == Evaluated(from, level, limit)
           up   == e(state, high)
           down == e(up, low)
           fall == e(state, low)
           back == e(down, high)
<1>3. up \in MetricStates /\ down \in MetricStates /\ fall \in MetricStates
  BY <1>2
<1>4. e(up, high) = up
  <2>1. /\ e(up, high) \in MetricStates
        /\ e(up, high) = "CRITICAL" <=> up = "CRITICAL"
        /\ e(up, high) = "NORMAL" <=> up = "NORMAL"
    BY <1>1, <1>2, <1>3
  <2> QED
    BY <1>3, <2>1 DEF MetricStates
<1>5. Rank(fall) <= Rank(up)
  <2>1. /\ fall = "CRITICAL" => up = "CRITICAL"
        /\ up = "NORMAL" => fall = "NORMAL"
    <3>1. /\ high >= limit.critical \/ low < limit.critical
          /\ low >= limit.critical - HysteresisMargin => high >= limit.critical - HysteresisMargin
          /\ high < limit.warning => low < limit.warning
          /\ high < limit.warning - HysteresisMargin => low < limit.warning - HysteresisMargin
      BY <1>1
    <3>2. low >= limit.critical => high >= limit.critical
      BY <1>1
    <3> QED
      BY <1>2, <3>1, <3>2
  <2> HIDE DEF up, fall
  <2> QED
    BY <1>3, <2>1 DEF MetricStates, Rank
<1>6. ASSUME high - low < HysteresisMargin, back = up
      PROVE  down = up
  <2>1. down = "CRITICAL" => up = "CRITICAL"
    BY <1>1, <1>2, <1>3
  <2>2. up = "NORMAL" => down = "NORMAL"
    BY <1>1, <1>2, <1>3
  <2>3. ASSUME up = "CRITICAL" PROVE down = "CRITICAL"
    <3>1. high >= limit.critical \/ down = "CRITICAL"
      BY <1>2, <1>3, <1>6, <2>3
    <3>2. high >= limit.critical => low >= limit.critical - HysteresisMargin
      BY <1>1, <1>6
    <3> QED
      BY <1>2, <1>3, <2>3, <3>1, <3>2
  <2>4. ASSUME down = "NORMAL" PROVE up = "NORMAL"
    <3>1. up = "NORMAL" \/ low < limit.warning - HysteresisMargin
      BY <1>2, <1>3, <2>4
    <3>2. low < limit.warning - HysteresisMargin => high < limit.warning
      BY <1>1, <1>6
    <3>3. high < limit.warning => back = "NORMAL"
      BY <1>2, <1>3, <2>4
    <3> QED
      BY <1>6, <3>1, <3>2, <3>3
  <2> HIDE DEF up, down
  <2> QED
    BY <1>3, <2>1, <2>2, <2>3, <2>4 DEF MetricStates
<1> QED
  BY <1>4, <1>5, <1>6

LEMMA MetricInitially == MetricAssumption /\ MetricInit => MetricInv
<1> SUFFICES ASSUME MetricAssumption, MetricInit PROVE MetricInv
  OBVIOUS
<1>1. MetricShape
  <2>1. <<>> \in Seq([at : Nat, outcome : {"writing", "stored", "lost"}])
    OBVIOUS
  <2> QED
    BY <2>1 DEF MetricInit, MetricShape, MetricStates
<1>2. DangerRaises /\ DangerIsNoticed /\ AcceptedIsStored
  BY DEF MetricInit, DangerRaises, DangerIsNoticed, AcceptedIsStored
<1>3. LastIsLatest /\ AlertsKeepCooldown
  BY DEF MetricInit, LastIsLatest, AlertsKeepCooldown
<1> QED
  BY <1>1, <1>2, <1>3 DEF MetricInv

(* What the alerts promise is kept by a step that leaves them alone, in    *)
(* which the tasks wait on and a new danger, if any, has a task.           *)
LEMMA AlertsUntouched ==
    ASSUME MetricAssumption, MetricInv, UNCHANGED <<lastAlert, alerts, clock>>,
           waiting' \in Nat, waiting' >= waiting, dangers' \subseteq dangers \cup {clock},
           dangers' \subseteq dangers \/ waiting' > 0
    PROVE  LastIsLatest' /\ DangerIsNoticed' /\ AlertsKeepCooldown' /\ dangers' \subseteq 0 .. clock
<1>1. MetricShape /\ LastIsLatest /\ DangerIsNoticed /\ AlertsKeepCooldown
  BY DEF MetricInv
<1>2. LastIsLatest' /\ AlertsKeepCooldown'
  BY <1>1 DEF LastIsLatest, AlertsKeepCooldown
<1>3. dangers' \subseteq 0 .. clock
  BY <1>1 DEF MetricShape
<1>4. ASSUME NEW t \in dangers'
      PROVE  AlertedSince(t)' \/ (waiting' > 0 /\ t = clock')
  <2>1. CASE t \in dangers
    <3>1. AlertedSince(t) \/ (waiting > 0 /\ t = clock)
      BY <1>1, <2>1 DEF DangerIsNoticed
    <3>2. AlertedSince(t) => AlertedSince(t)'
      BY DEF AlertedSince
    <3> QED
      BY <1>1, <3>1, <3>2 DEF MetricShape
  <2>2. CASE t \notin dangers
    BY <1>4, <2>2
  <2> QED
    BY <2>1, <2>2
<1> QED
  BY <1>2, <1>3, <1>4 DEF DangerIsNoticed

LEMMA StartMetricKeeps ==
    ASSUME MetricAssumption, MetricInv, NEW s \in Senders, NEW m \in Metrics, StartMetric(s, m)
    PROVE  MetricInv'
<1>1. MetricShape /\ DangerRaises /\ AcceptedIsStored
  BY DEF MetricInv
<1>2. UNCHANGED <<engine, limits, rows, lastAlert, waiting, alerts, dangers, clock>>
  BY DEF StartMetric
<1>3. LastIsLatest' /\ DangerIsNoticed' /\ AlertsKeepCooldown' /\ dangers' \subseteq 0 .. clock
  <2>1. waiting' \in Nat /\ waiting' >= waiting
    BY <1>1, <1>2 DEF MetricShape
  <2> QED
    BY <1>2, <2>1, AlertsUntouched
<1>4. AcceptedIsStored'
  <2>1. acked' \subseteq acked \cup {m} /\ (m \in acked' => m \in acked \/ m \in rows)
    BY DEF StartMetric, SamePayload
  <2> QED
    BY <1>1, <1>2, <2>1 DEF AcceptedIsStored
<1>5. /\ ingest' \in [Senders -> MetricRequests \cup {NoMetric}]
      /\ DangerRaises'
  <2> DEFINE new == [metric |-> m, moved |-> FALSE, raises |-> FALSE, danger |-> FALSE]
  <2>1. new \in MetricRequests /\ ~new.danger
    BY DEF MetricRequests
  <2>2. ingest' = ingest \/ ingest' = [ingest EXCEPT ![s] = new]
    BY DEF StartMetric
  <2> HIDE DEF new
  <2> QED
    BY <1>1, <2>1, <2>2 DEF MetricShape, DangerRaises
<1>6. MetricShape'
  BY <1>1, <1>2, <1>3, <1>5 DEF MetricShape
<1> QED
  BY <1>3, <1>4, <1>5, <1>6 DEF MetricInv

LEMMA MoveStateKeeps ==
    ASSUME MetricAssumption, MetricInv, NEW s \in Senders, MoveState(s)
    PROVE  MetricInv'
<1>1. MetricShape /\ DangerRaises /\ AcceptedIsStored
  BY DEF MetricInv
<1>2. UNCHANGED <<limits, rows, acked, lastAlert, alerts, clock>> /\ ingest[s] \in MetricRequests
  BY <1>1 DEF MoveState, MetricShape
<1> DEFINE m      == ingest[s].metric
           valid  == m.level # InvalidLevel
           state  == IF valid THEN Evaluated(engine, m.level, limits) ELSE engine
           raises == valid /\ Raises(engine, state)
           danger == valid /\ state = "CRITICAL"
<1>3. /\ engine' = state /\ HandleAlert(m.id = NoId /\ raises, m.id = NoId /\ danger)
      /\ ingest' = [ingest EXCEPT ![s].moved = TRUE, ![s].raises = raises, ![s].danger = danger]
  BY DEF MoveState
<1>4. danger => raises
  BY DEF Raises
<1>5. state \in MetricStates
  <2>1. m \in Metrics /\ engine \in MetricStates /\ limits \in Limits
    BY <1>1, <1>2 DEF MetricRequests, MetricShape
  <2>2. valid => m.level \in Nat
    BY <2>1 DEF MetricAssumption
  <2>3. limits.warning \in Nat /\ limits.critical \in Nat
    BY <2>1 DEF MetricAssumption
  <2>4. valid => Evaluated(engine, m.level, limits) \in MetricStates
    BY <2>1, <2>2, <2>3, EvaluatedIsState
  <2> QED
    BY <2>1, <2>4
<1>6. raises \in BOOLEAN /\ danger \in BOOLEAN
  BY DEF Raises
<1> HIDE DEF state, raises, danger
<1>7. /\ ingest' \in [Senders -> MetricRequests \cup {NoMetric}]
      /\ DangerRaises'
  <2> DEFINE new == [ingest[s] EXCEPT !.moved = TRUE, !.raises = raises, !.danger = danger]
  <2>1. new \in MetricRequests /\ new.raises = raises /\ new.danger = danger
    BY <1>2, <1>6 DEF MetricRequests
  <2>2. ingest' = [ingest EXCEPT ![s] = new]
    BY <1>3
  <2> HIDE DEF new
  <2> QED
    BY <1>1, <1>4, <2>1, <2>2 DEF MetricShape, DangerRaises
<1>8. LastIsLatest' /\ DangerIsNoticed' /\ AlertsKeepCooldown' /\ dangers' \subseteq 0 .. clock
      /\ waiting' \in Nat
  <2>1. /\ waiting' \in Nat /\ waiting' >= waiting /\ dangers' \subseteq dangers \cup {clock}
        /\ dangers' \subseteq dangers \/ waiting' > 0
    BY <1>1, <1>3, <1>4 DEF HandleAlert, MetricShape
  <2> QED
    BY <1>2, <2>1, AlertsUntouched
<1>9. MetricShape' /\ AcceptedIsStored'
  BY <1>1, <1>2, <1>3, <1>5, <1>7, <1>8 DEF MetricShape, AcceptedIsStored
<1> QED
  BY <1>7, <1>8, <1>9 DEF MetricInv

LEMMA CommitMetricKeeps ==
    ASSUME MetricAssumption, MetricInv, NEW s \in Senders, CommitMetric(s)
    PROVE  MetricInv'
<1>1. MetricShape /\ DangerRaises /\ AcceptedIsStored
  BY DEF MetricInv
<1>2. UNCHANGED <<engine, limits, lastAlert, alerts, clock>>
  BY DEF CommitMetric
<1> DEFINE m == ingest[s].metric
<1>3. LastIsLatest' /\ DangerIsNoticed' /\ AlertsKeepCooldown' /\ dangers' \subseteq 0 .. clock
      /\ waiting' \in Nat
  <2>1. HandleAlert(m.id # NoId /\ ingest[s].raises, m.id # NoId /\ ingest[s].danger)
    BY DEF CommitMetric
  <2>2. ingest[s].danger => ingest[s].raises
    BY <1>1 DEF CommitMetric, DangerRaises
  <2>3. /\ waiting' \in Nat /\ waiting' >= waiting /\ dangers' \subseteq dangers \cup {clock}
        /\ dangers' \subseteq dangers \/ waiting' > 0
    BY <1>1, <2>1, <2>2 DEF HandleAlert, MetricShape
  <2> QED
    BY <1>2, <2>3, AlertsUntouched
<1>4. AcceptedIsStored'
  BY <1>1 DEF CommitMetric, AcceptedIsStored
<1>5. /\ ingest' \in [Senders -> MetricRequests \cup {NoMetric}]
      /\ DangerRaises'
  <2>1. ingest' = [ingest EXCEPT ![s] = NoMetric]
    BY DEF CommitMetric
  <2> QED
    BY <1>1, <2>1 DEF MetricShape, DangerRaises
<1>6. MetricShape'
  BY <1>1, <1>2, <1>3, <1>5 DEF MetricShape
<1> QED
  BY <1>3, <1>4, <1>5, <1>6 DEF MetricInv

(* The task that takes the cooldown is alone in that: whether it alerts or *)
(* not, an alert of less than the cooldown ago is there after it.          *)
LEMMA TakeCooldownKeeps ==
    ASSUME MetricAssumption, MetricInv, TakeCooldown
    PROVE  MetricInv'
<1>1. /\ MetricShape /\ DangerRaises /\ LastIsLatest /\ DangerIsNoticed
      /\ AcceptedIsStored /\ AlertsKeepCooldown
  BY DEF MetricInv
<1>2. /\ UNCHANGED <<engine, limits, rows, ingest, acked, dangers, clock>>
      /\ waiting' = waiting - 1 /\ waiting > 0
  BY DEF TakeCooldown
<1>3. DangerRaises' /\ AcceptedIsStored'
  BY <1>1, <1>2 DEF DangerRaises, AcceptedIsStored
<1>4. waiting' \in Nat
  BY <1>1, <1>2 DEF MetricShape
<1>5. CASE Cooling
  <2>1. UNCHANGED <<lastAlert, alerts>>
    BY <1>5 DEF TakeCooldown
  <2>2. AlertedSince(clock)
    <3>1. lastAlert # Untaken /\ clock - lastAlert < AlertCooldown
      BY <1>5 DEF Cooling
    <3> QED
      BY <1>1, <3>1 DEF LastIsLatest, AlertedSince
  <2>3. \A t \in dangers : AlertedSince(t)'
    BY <1>1, <1>2, <2>1, <2>2 DEF DangerIsNoticed, AlertedSince
  <2> QED
    BY <1>1, <1>2, <1>3, <1>4, <2>1, <2>3
       DEF MetricInv, MetricShape, LastIsLatest, DangerIsNoticed, AlertsKeepCooldown
<1>6. CASE ~Cooling
  <2> DEFINE alert == [at |-> clock, outcome |-> "writing"]
             kind == [at : Nat, outcome : {"writing", "stored", "lost"}]
  <2>1. lastAlert' = clock /\ alerts' = Append(alerts, alert) /\ alerts \in Seq(kind)
    BY <1>1, <1>6 DEF TakeCooldown, MetricShape
  <2>2. alert \in kind /\ alert.at = clock
    BY <1>1 DEF MetricShape
  <2> HIDE DEF alert, kind
  <2>3. /\ alerts' \in Seq(kind) /\ DOMAIN alerts' = 1 .. Len(alerts) + 1
        /\ Len(alerts) \in Nat /\ DOMAIN alerts = 1 .. Len(alerts)
        /\ alerts'[Len(alerts) + 1] = alert
        /\ \A i \in 1 .. Len(alerts) : alerts'[i] = alerts[i]
    BY <2>1, <2>2
  <2>4. \A i \in 1 .. Len(alerts) : alerts[i].at \in Nat /\ alerts[i].at <= clock
                                    /\ clock - alerts[i].at >= AlertCooldown
    <3>1. ASSUME NEW i \in 1 .. Len(alerts)
          PROVE  alerts[i].at \in Nat /\ alerts[i].at <= clock
                 /\ clock - alerts[i].at >= AlertCooldown
      <4>1. lastAlert \in Nat /\ lastAlert <= clock /\ alerts[i].at <= lastAlert
        BY <1>1, <2>3 DEF MetricShape, LastIsLatest
      <4>2. clock - lastAlert >= AlertCooldown
        BY <1>1, <1>6, <4>1 DEF Cooling, MetricShape, MetricAssumption
      <4>3. alerts[i] \in kind
        BY <2>1, <2>3
      <4>4. alerts[i].at \in Nat
        BY <4>3 DEF kind
      <4> QED
        BY <1>1, <4>1, <4>2, <4>4 DEF MetricShape, MetricAssumption
    <3> QED
      BY <3>1
  <2>5. AlertsKeepCooldown'
    <3>1. ASSUME NEW i \in DOMAIN alerts', NEW j \in DOMAIN alerts', i < j
          PROVE  alerts'[j].at - alerts'[i].at >= AlertCooldown
      <4>1. i \in 1 .. Len(alerts)
        BY <2>3, <3>1
      <4>2. CASE j = Len(alerts) + 1
        BY <2>2, <2>3, <2>4, <4>1, <4>2
      <4>3. CASE j # Len(alerts) + 1
        <5>1. j \in 1 .. Len(alerts)
          BY <2>3, <4>3
        <5> QED
          BY <1>1, <2>3, <3>1, <4>1, <5>1 DEF AlertsKeepCooldown
      <4> QED
        BY <4>2, <4>3
    <3> QED
      BY <3>1 DEF AlertsKeepCooldown
  <2>6. LastIsLatest'
    <3>1. \A i \in DOMAIN alerts' : alerts'[i].at <= clock
      BY <1>1, <2>2, <2>3, <2>4 DEF MetricShape
    <3>2. \E i \in DOMAIN alerts' : alerts'[i].at = clock
      BY <2>2, <2>3
    <3>3. clock # Untaken
      BY <1>1 DEF MetricShape, MetricAssumption
    <3> QED
      BY <2>1, <3>1, <3>2, <3>3 DEF LastIsLatest
  <2>7. DangerIsNoticed'
    <3>1. \E i \in DOMAIN alerts' : alerts'[i].at = clock
      BY <2>2, <2>3
    <3>2. \A t \in dangers : clock >= t
      BY <1>1 DEF MetricShape
    <3>3. \A t \in dangers : AlertedSince(t)'
      BY <3>1, <3>2 DEF AlertedSince
    <3> QED
      BY <1>2, <3>3 DEF DangerIsNoticed
  <2>8. MetricShape'
    <3>1. alerts' \in Seq([at : Nat, outcome : {"writing", "stored", "lost"}])
      BY <2>3 DEF kind
    <3>2. lastAlert' \in Nat /\ lastAlert' <= clock
      BY <1>1, <2>1 DEF MetricShape
    <3> QED
      BY <1>1, <1>2, <1>4, <3>1, <3>2 DEF MetricShape
  <2> QED
    BY <1>3, <2>5, <2>6, <2>7, <2>8 DEF MetricInv
<1> QED
  BY <1>5, <1>6

LEMMA WriteAlertKeeps ==
    ASSUME MetricAssumption, MetricInv, WriteAlert
    PROVE  MetricInv'
<1>1. /\ MetricShape /\ DangerRaises /\ LastIsLatest /\ DangerIsNoticed
      /\ AcceptedIsStored /\ AlertsKeepCooldown
  BY DEF MetricInv
<1>2. UNCHANGED <<engine, limits, rows, ingest, acked, lastAlert, waiting, dangers, clock>>
  BY DEF WriteAlert
<1> DEFINE kind == [at : Nat, outcome : {"writing", "stored", "lost"}]
<1>3. /\ alerts' \in Seq(kind) /\ DOMAIN alerts' = DOMAIN alerts
      /\ \A i \in DOMAIN alerts : alerts'[i].at = alerts[i].at
  <2>1. PICK k \in DOMAIN alerts, outcome \in {"stored", "lost"} :
          alerts' = [alerts EXCEPT ![k].outcome = outcome]
    BY DEF WriteAlert
  <2>2. alerts \in Seq(kind)
    BY <1>1 DEF MetricShape
  <2>3. alerts[k] \in kind
    <3> HIDE DEF kind
    <3> QED
      BY <2>1, <2>2
  <2> DEFINE new == [alerts[k] EXCEPT !.outcome = outcome]
  <2>4. new \in kind /\ new.at = alerts[k].at
    BY <2>3
  <2>5. alerts' = [alerts EXCEPT ![k] = new]
    BY <2>1
  <2> HIDE DEF new, kind
  <2> QED
    BY <2>2, <2>4, <2>5
<1>4. LastIsLatest' /\ DangerIsNoticed' /\ AlertsKeepCooldown'
  <2>1. LastIsLatest'
    <3>1. alerts = <<>> => alerts' = <<>>
      BY <1>3
    <3> QED
      BY <1>1, <1>2, <1>3, <3>1 DEF LastIsLatest
  <2>2. \A t \in dangers : AlertedSince(t) => AlertedSince(t)'
    BY <1>3 DEF AlertedSince
  <2>3. DangerIsNoticed' /\ AlertsKeepCooldown'
    BY <1>1, <1>2, <1>3, <2>2 DEF DangerIsNoticed, AlertsKeepCooldown
  <2> QED
    BY <2>1, <2>3
<1>5. MetricShape' /\ DangerRaises' /\ AcceptedIsStored'
  BY <1>1, <1>2, <1>3 DEF MetricShape, DangerRaises, AcceptedIsStored
<1> QED
  BY <1>4, <1>5 DEF MetricInv

LEMMA MetricTickKeeps == MetricAssumption /\ MetricInv /\ MetricTick => MetricInv'
<1> SUFFICES ASSUME MetricAssumption, MetricInv, MetricTick PROVE MetricInv'
  OBVIOUS
<1>1. /\ MetricShape /\ DangerRaises /\ LastIsLatest /\ DangerIsNoticed
      /\ AcceptedIsStored /\ AlertsKeepCooldown
  BY DEF MetricInv
<1>2. /\ clock' = clock + 1 /\ waiting = 0
      /\ UNCHANGED <<engine, limits, rows, ingest, acked, lastAlert, waiting, alerts, dangers>>
  BY DEF MetricTick
<1>3. \A t \in dangers : AlertedSince(t)'
  BY <1>1, <1>2 DEF DangerIsNoticed, AlertedSince
<1>4. MetricShape'
  BY <1>1, <1>2 DEF MetricShape
<1>5. LastIsLatest' /\ DangerRaises' /\ AcceptedIsStored' /\ AlertsKeepCooldown'
  BY <1>1, <1>2 DEF LastIsLatest, DangerRaises, AcceptedIsStored, AlertsKeepCooldown
<1> QED
  BY <1>2, <1>3, <1>4, <1>5 DEF MetricInv, DangerIsNoticed

LEMMA MetricRestartKeeps == MetricAssumption /\ MetricInv /\ MetricRestart => MetricInv'
<1> SUFFICES ASSUME MetricAssumption, MetricInv, MetricRestart PROVE MetricInv'
  OBVIOUS
<1>1. MetricShape /\ AcceptedIsStored
  BY DEF MetricInv
<1>2. <<>> \in Seq([at : Nat, outcome : {"writing", "stored", "lost"}])
  OBVIOUS
<1>3. MetricShape'
  BY <1>1, <1>2 DEF MetricRestart, MetricShape, MetricStates
<1>4. DangerRaises' /\ DangerIsNoticed' /\ LastIsLatest' /\ AlertsKeepCooldown'
  BY DEF MetricRestart, DangerRaises, DangerIsNoticed, LastIsLatest, AlertsKeepCooldown
<1> QED
  BY <1>1, <1>3, <1>4 DEF MetricInv, MetricRestart, AcceptedIsStored

LEMMA MetricKept ==
    ASSUME MetricAssumption, MetricInv, [MetricNext]_metricVars
    PROVE  MetricInv'
<1>1. ASSUME NEW s \in Senders, NEW m \in Metrics, StartMetric(s, m)
      PROVE  MetricInv'
  BY <1>1, StartMetricKeeps
<1>2. ASSUME NEW s \in Senders, MoveState(s) \/ CommitMetric(s)
      PROVE  MetricInv'
  BY <1>2, MoveStateKeeps, CommitMetricKeeps
<1>3. CASE TakeCooldown \/ WriteAlert \/ MetricTick \/ MetricRestart
  BY <1>3, TakeCooldownKeeps, WriteAlertKeeps, MetricTickKeeps, MetricRestartKeeps
<1>4. ASSUME /\ UNCHANGED <<rows, acked, lastAlert, waiting, alerts, dangers, clock>>
             /\ engine' \in MetricStates /\ limits' \in Limits
             /\ ingest' \in [Senders -> MetricRequests \cup {NoMetric}] /\ DangerRaises'
      PROVE  MetricInv'
  <2>1. MetricShape /\ AcceptedIsStored
    BY DEF MetricInv
  <2>2. waiting' \in Nat /\ waiting' >= waiting
    BY <1>4, <2>1 DEF MetricShape
  <2>3. LastIsLatest' /\ DangerIsNoticed' /\ AlertsKeepCooldown'
    BY <1>4, <2>2, AlertsUntouched
  <2> QED
    BY <1>4, <2>1, <2>3 DEF MetricInv, MetricShape, AcceptedIsStored
<1>5. MetricShape /\ DangerRaises
  BY DEF MetricInv
<1>6. ASSUME NEW s \in Senders, MetricFails(s)
      PROVE  MetricInv'
  <2>1. ingest' \in [Senders -> MetricRequests \cup {NoMetric}] /\ DangerRaises'
    BY <1>5, <1>6 DEF MetricFails, MetricShape, DangerRaises
  <2> QED
    BY <1>4, <1>5, <1>6, <2>1 DEF MetricFails, MetricShape
<1>7. ASSUME ConfirmCollection \/ (\E new \in Limits : ChangeLimits(new))
                               \/ UNCHANGED metricVars
      PROVE  MetricInv'
  <2>1. engine' \in MetricStates /\ limits' \in Limits
    BY <1>5, <1>7 DEF ConfirmCollection, ChangeLimits, metricVars, MetricShape, MetricStates
  <2>2. UNCHANGED <<rows, ingest, acked, lastAlert, waiting, alerts, dangers, clock>>
    BY <1>7 DEF ConfirmCollection, ChangeLimits, metricVars
  <2>3. ingest' \in [Senders -> MetricRequests \cup {NoMetric}] /\ DangerRaises'
    BY <1>5, <2>2 DEF MetricShape, DangerRaises
  <2> QED
    BY <1>4, <2>1, <2>2, <2>3
<1> QED
  BY <1>1, <1>2, <1>3, <1>6, <1>7 DEF MetricNext

(* A measurement sent again is acknowledged only as the one stored; alerts *)
(* are a cooldown apart, and no CRITICAL measurement goes without one; the *)
(* state neither chatters nor falls as the scrap rises (ingest_edge_metric,*)
(* _process_alert, evaluate_state).                                        *)
THEOREM MeasurementsAreSound == MetricSpec => []LegacyMetricsAreSound
<1>1. MetricInit => MetricInv
  BY MetricAssumption, MetricInitially
<1>2. MetricInv /\ [MetricNext]_metricVars => MetricInv'
  BY MetricAssumption, MetricKept
<1>3. MetricInv => LegacyMetricsAreSound
  <2>1. SUFFICES ASSUME MetricInv PROVE LegacyMetricsAreSound
    OBVIOUS
  <2>2. MetricShape /\ DangerIsNoticed /\ AcceptedIsStored /\ AlertsKeepCooldown
    BY <2>1 DEF MetricInv
  <2>3. DangerIsAlerted
    BY <2>2 DEF DangerIsNoticed, DangerIsAlerted
  <2>4. engine \in MetricStates /\ limits \in Limits /\ limits.critical \in Nat
    BY <2>2, MetricAssumption DEF MetricShape, MetricAssumption
  <2>5. \A level \in 0 .. limits.critical + 1 : level \in Nat
    BY <2>4
  <2>6. HysteresisHolds
    BY <2>4, <2>5, EvaluatedIsSteady, MetricAssumption DEF HysteresisHolds
  <2> QED
    BY <2>2, <2>3, <2>6 DEF LegacyMetricsAreSound
<1> QED
  BY <1>1, <1>2, <1>3, PTL DEF MetricSpec

-----------------------------------------------------------------------------
(* Playback sessions: the inductive invariant. *)

Tags == ServerTags \cup SessionIds
Plays == [etag : Tags, upstream : BOOLEAN, activity : Nat]
PlayCalls == [kind : {"patch", "delete"}, id : SessionIds, tag : Tags \cup {NoTag}]

PlayShape ==
    /\ playing \in [SessionIds -> Plays \cup {NoSession}]
    /\ posting \subseteq used /\ used \subseteq SessionIds
    /\ calls \subseteq PlayCalls /\ playTime \in Nat
    /\ server \subseteq SessionIds /\ signalled \subseteq [id : SessionIds, tag : Tags \cup {NoTag}]

(* An id means nothing before its offer is answered. *)
Unanswered(id) == id \notin used \/ id \in posting

UnansweredIsUnknown ==
    \A id \in SessionIds : Unanswered(id) =>
        /\ playing[id] = NoSession /\ id \notin server
        /\ \A call \in calls : call.id # id
        /\ \A s \in signalled : s.id # id

(* A PATCH on its way has the tag that a signal may have. *)
CallsAreOwn ==
    \A call \in calls : call.kind = "patch" /\ call.id \in Sessions =>
        call.tag \in {NoTag, playing[call.id].etag}

PlayInv == PlayShape /\ UnansweredIsUnknown /\ CallsAreOwn /\ ResourcesAreReleased /\ CandidatesAreOwn

LEMMA PlayInitially == PlayAssumption /\ PlayInit => PlayInv
BY DEF PlayInit, PlayInv, PlayShape, UnansweredIsUnknown, CallsAreOwn, ResourcesAreReleased,
       CandidatesAreOwn

(* What sessions, calls and signals are tagged with agrees as long as a    *)
(* session is only dropped or keeps its tag, and what is new agrees too.   *)
LEMMA TagsStay ==
    ASSUME PlayInv, playing' \in [SessionIds -> Plays \cup {NoSession}],
           \A id \in SessionIds : playing'[id] # NoSession =>
               playing[id] # NoSession /\ playing'[id].etag = playing[id].etag,
           \A call \in calls' : call \in calls \/ (call.kind = "patch" => TagAgrees(call.id, call.tag)),
           \A s \in signalled' : s \in signalled
               \/ \E call \in calls : call.kind = "patch" /\ call.id = s.id /\ call.tag = s.tag,
           calls' \subseteq PlayCalls, signalled' \subseteq [id : SessionIds, tag : Tags \cup {NoTag}]
    PROVE  CallsAreOwn' /\ CandidatesAreOwn'
<1>1. CallsAreOwn /\ CandidatesAreOwn
  BY DEF PlayInv
<1>2. \A id \in SessionIds : id \in Sessions' => id \in Sessions /\ playing'[id].etag = playing[id].etag
  BY DEF Sessions
<1>3. ASSUME NEW call \in calls', call.kind = "patch", call.id \in Sessions'
      PROVE  call.tag \in {NoTag, playing'[call.id].etag}
  <2>1. call.id \in SessionIds
    BY DEF PlayCalls
  <2> QED
    BY <1>1, <1>2, <1>3, <2>1 DEF CallsAreOwn, TagAgrees
<1>4. ASSUME NEW s \in signalled', s.id \in Sessions'
      PROVE  s.tag \in {NoTag, playing'[s.id].etag}
  <2>1. s.id \in SessionIds
    OBVIOUS
  <2> QED
    BY <1>1, <1>2, <1>4, <2>1 DEF CallsAreOwn, CandidatesAreOwn
<1> QED
  BY <1>3, <1>4 DEF CallsAreOwn, CandidatesAreOwn

LEMMA PurgedIsPlaying ==
    ASSUME PlayAssumption, PlayInv
    PROVE  /\ Purged \in [SessionIds -> Plays \cup {NoSession}] /\ PurgedIds \subseteq Sessions
           /\ \A id \in SessionIds : /\ id \in PurgedIds => Purged[id] = NoSession
                                     /\ id \notin PurgedIds => Purged[id] = playing[id]
BY DEF PlayInv, PlayShape, Purged, PurgedIds, Sessions

LEMMA CreateSessionKeeps ==
    ASSUME PlayAssumption, PlayInv, NEW id \in SessionIds, CreateSession(id)
    PROVE  PlayInv'
<1>1. PlayShape /\ UnansweredIsUnknown /\ ResourcesAreReleased
  BY DEF PlayInv
<1>2. /\ playing' = Purged /\ accounted' = accounted \cup PurgedIds
      /\ used' = used \cup {id} /\ posting' = posting \cup {id} /\ id \notin used
      /\ UNCHANGED <<calls, server, signalled, playTime>>
  BY DEF CreateSession
<1>3. /\ playing' \in [SessionIds -> Plays \cup {NoSession}]
      /\ \A i \in SessionIds : /\ i \in PurgedIds => playing'[i] = NoSession
                               /\ i \notin PurgedIds => playing'[i] = playing[i]
  BY <1>2, PurgedIsPlaying
<1>4. PlayShape'
  BY <1>1, <1>2, <1>3 DEF PlayShape
<1>5. UnansweredIsUnknown'
  <2>1. \A i \in SessionIds : Unanswered(i)' => Unanswered(i)
    BY <1>2 DEF Unanswered
  <2> QED
    BY <1>1, <1>2, <1>3, <2>1 DEF UnansweredIsUnknown
<1>6. CallsAreOwn' /\ CandidatesAreOwn'
  BY <1>1, <1>2, <1>3, TagsStay DEF PlayShape
<1>7. ResourcesAreReleased'
  BY <1>1, <1>2, <1>3 DEF ResourcesAreReleased, Sessions
<1> QED
  BY <1>4, <1>5, <1>6, <1>7 DEF PlayInv

(* The server answers, and a session begins, or none. *)
LEMMA AnswerKeeps ==
    ASSUME PlayAssumption, PlayInv, NEW id \in SessionIds, id \in posting, NEW new \in Plays,
           playing' = [playing EXCEPT ![id] = new] \/ UNCHANGED playing,
           posting' = posting \ {id}, UNCHANGED <<used, calls, signalled, playTime>>,
           server' \subseteq server \cup {id}, accounted \subseteq accounted',
           id \in server' \ accounted' => (playing'[id] = new /\ new.upstream)
    PROVE  PlayInv'
<1>1. PlayShape /\ UnansweredIsUnknown /\ ResourcesAreReleased /\ CallsAreOwn /\ CandidatesAreOwn
  BY DEF PlayInv
<1>2. new # NoSession
  BY DEF Plays, PlayAssumption, Tags
<1>3. /\ playing' \in [SessionIds -> Plays \cup {NoSession}]
      /\ \A i \in SessionIds : i # id => playing'[i] = playing[i]
  BY <1>1, <1>2 DEF PlayShape
<1>4. PlayShape'
  BY <1>1, <1>3 DEF PlayShape
<1>5. Unanswered(id) /\ \A i \in SessionIds : Unanswered(i)' => Unanswered(i) /\ i # id
  BY <1>1 DEF Unanswered, PlayShape
<1>6. UnansweredIsUnknown'
  BY <1>1, <1>3, <1>5 DEF UnansweredIsUnknown
<1>7. CallsAreOwn' /\ CandidatesAreOwn'
  <2>1. /\ \A call \in calls : call.id \in SessionIds /\ call.id # id
        /\ \A s \in signalled : s.id \in SessionIds /\ s.id # id
    BY <1>1, <1>5 DEF UnansweredIsUnknown, PlayShape, PlayCalls
  <2> QED
    BY <1>1, <1>3, <2>1 DEF CallsAreOwn, CandidatesAreOwn, Sessions
<1>8. ResourcesAreReleased'
  <2>1. ASSUME NEW i \in server' \ accounted'
        PROVE  \/ i \in Sessions' /\ playing'[i].upstream
               \/ \E call \in calls' : call.kind = "delete" /\ call.id = i
    <3>1. CASE i = id
      BY <1>2, <1>3, <2>1, <3>1 DEF Sessions
    <3>2. CASE i # id
      BY <1>1, <1>3, <2>1, <3>2 DEF ResourcesAreReleased, Sessions
    <3> QED
      BY <3>1, <3>2
  <2> QED
    BY <2>1 DEF ResourcesAreReleased
<1> QED
  BY <1>4, <1>6, <1>7, <1>8 DEF PlayInv

(* A step that answers no offer and draws no id, drops sessions or leaves  *)
(* them their tag and their upstream session, and lets nothing of an       *)
(* unanswered id appear.                                                   *)
LEMMA SessionsStay ==
    ASSUME PlayAssumption, PlayInv, UNCHANGED <<posting, used>>, playTime' \in Nat,
           playing' \in [SessionIds -> Plays \cup {NoSession}],
           \A id \in SessionIds : playing'[id] # NoSession =>
               /\ playing[id] # NoSession /\ playing'[id].etag = playing[id].etag
               /\ playing'[id].upstream = playing[id].upstream,
           \A call \in calls' : call \in calls \/
               (playing[call.id] # NoSession /\ (call.kind = "patch" => TagAgrees(call.id, call.tag))),
           \A s \in signalled' : s \in signalled
               \/ \E call \in calls : call.kind = "patch" /\ call.id = s.id /\ call.tag = s.tag,
           calls' \subseteq PlayCalls, signalled' \subseteq [id : SessionIds, tag : Tags \cup {NoTag}],
           server' \subseteq server, ResourcesAreReleased'
    PROVE  PlayInv'
<1>1. PlayShape /\ UnansweredIsUnknown
  BY DEF PlayInv
<1>2. PlayShape'
  BY <1>1 DEF PlayShape
<1>3. ASSUME NEW id \in SessionIds, Unanswered(id)'
      PROVE  /\ playing'[id] = NoSession /\ id \notin server'
             /\ \A call \in calls' : call.id # id
             /\ \A s \in signalled' : s.id # id
  <2>1. Unanswered(id)
    BY <1>3 DEF Unanswered
  <2>2. /\ playing[id] = NoSession /\ id \notin server
        /\ \A call \in calls : call.id # id
        /\ \A s \in signalled : s.id # id
    BY <1>1, <2>1 DEF UnansweredIsUnknown
  <2> QED
    BY <2>2
<1>4. UnansweredIsUnknown'
  BY <1>3 DEF UnansweredIsUnknown
<1>5. CallsAreOwn' /\ CandidatesAreOwn'
  BY TagsStay
<1> QED
  BY <1>2, <1>4, <1>5 DEF PlayInv

LEMMA PatchSessionKeeps ==
    ASSUME PlayAssumption, PlayInv, NEW id \in SessionIds, NEW tag \in Tags \cup {NoTag},
           PatchSession(id, tag)
    PROVE  PlayInv'
<1>1. PlayShape /\ ResourcesAreReleased
  BY DEF PlayInv
<1>2. /\ accounted' = accounted \cup PurgedIds
      /\ UNCHANGED <<posting, used, server, signalled, playTime>>
  BY DEF PatchSession
<1> DEFINE new == [Purged[id] EXCEPT !.activity = playTime]
<1>3. ASSUME Purged[id] # NoSession
      PROVE  /\ Purged[id] = playing[id] /\ playing[id] \in Plays /\ id \notin PurgedIds
             /\ new \in Plays /\ new.etag = playing[id].etag /\ new.upstream = playing[id].upstream
             /\ new # NoSession
  <2>1. Purged[id] = playing[id] /\ playing[id] \in Plays /\ id \notin PurgedIds
    BY <1>1, <1>3, PurgedIsPlaying DEF PlayShape
  <2>2. playTime \in Nat
    BY <1>1 DEF PlayShape
  <2>3. [playing[id] EXCEPT !.activity = playTime] \in Plays
    BY <2>1, <2>2 DEF Plays
  <2> QED
    BY <2>1, <2>3 DEF Plays, PlayAssumption, Tags
<1>4. \/ playing' = Purged
      \/ Purged[id] # NoSession /\ playing' = [Purged EXCEPT ![id] = new]
  BY DEF PatchSession
<1> HIDE DEF new
<1>5. /\ playing' \in [SessionIds -> Plays \cup {NoSession}]
      /\ \A i \in SessionIds : playing'[i] # NoSession =>
           /\ playing[i] # NoSession /\ playing'[i].etag = playing[i].etag
           /\ playing'[i].upstream = playing[i].upstream
      /\ \A i \in SessionIds : i \notin PurgedIds /\ playing[i] # NoSession =>
           playing'[i] # NoSession
  <2>1. \A i \in SessionIds : Purged[i] # NoSession => Purged[i] = playing[i] /\ i \notin PurgedIds
    BY PurgedIsPlaying
  <2>2. CASE playing' = Purged
    BY <2>1, <2>2, PurgedIsPlaying
  <2>3. CASE Purged[id] # NoSession /\ playing' = [Purged EXCEPT ![id] = new]
    BY <1>3, <2>1, <2>3, PurgedIsPlaying
  <2> QED
    BY <1>4, <2>2, <2>3
<1>6. /\ calls' \subseteq PlayCalls /\ calls \subseteq calls'
      /\ \A call \in calls' : call \in calls \/
           (playing[call.id] # NoSession /\ (call.kind = "patch" => TagAgrees(call.id, call.tag)))
  <2> DEFINE call == [kind |-> "patch", id |-> id, tag |-> tag]
  <2>1. call \in PlayCalls /\ call.id = id /\ call.tag = tag
    BY DEF PlayCalls
  <2>2. calls' = calls \/ (calls' = calls \cup {call} /\ Purged[id] # NoSession /\ TagAgrees(id, tag))
    BY DEF PatchSession
  <2> HIDE DEF call
  <2> QED
    BY <1>1, <1>3, <2>1, <2>2 DEF PlayShape
<1>7. ResourcesAreReleased'
  <2>1. ASSUME NEW i \in server' \ accounted'
        PROVE  \/ i \in Sessions' /\ playing'[i].upstream
               \/ \E call \in calls' : call.kind = "delete" /\ call.id = i
    <3>1. i \in SessionIds /\ i \in server \ accounted /\ i \notin PurgedIds
      BY <1>1, <1>2, <2>1 DEF PlayShape
    <3>2. CASE i \in Sessions /\ playing[i].upstream
      BY <1>5, <3>1, <3>2 DEF Sessions
    <3>3. CASE \E call \in calls : call.kind = "delete" /\ call.id = i
      BY <1>6, <3>3
    <3> QED
      BY <1>1, <3>1, <3>2, <3>3 DEF ResourcesAreReleased
  <2> QED
    BY <2>1 DEF ResourcesAreReleased
<1>8. UNCHANGED <<posting, used>> /\ playTime' \in Nat /\ server' \subseteq server
      /\ signalled' = signalled /\ signalled \subseteq [id : SessionIds, tag : Tags \cup {NoTag}]
  BY <1>1, <1>2 DEF PlayShape
<1> QED
  BY <1>5, <1>6, <1>7, <1>8, SessionsStay

LEMMA DropSessionKeeps ==
    ASSUME PlayAssumption, PlayInv, NEW id \in SessionIds, DeleteSession(id) \/ GetSession(id)
    PROVE  PlayInv'
<1>1. PlayShape /\ ResourcesAreReleased
  BY DEF PlayInv
<1>2. /\ playing' = [playing EXCEPT ![id] = NoSession] /\ accounted \subseteq accounted'
      /\ UNCHANGED <<posting, used, server, signalled, playTime>>
  BY DEF DeleteSession, GetSession
<1>3. id \in Sessions
  BY DEF DeleteSession, GetSession, PurgedIds
<1>4. /\ playing' \in [SessionIds -> Plays \cup {NoSession}] /\ playing'[id] = NoSession
      /\ \A i \in SessionIds : i # id => playing'[i] = playing[i]
  BY <1>1, <1>2 DEF PlayShape
<1> DEFINE call == [kind |-> "delete", id |-> id, tag |-> NoTag]
<1>5. call \in PlayCalls /\ call.kind = "delete" /\ call.id = id
  BY DEF PlayCalls
<1>6. /\ calls' = calls \/ calls' = calls \cup {call}
      /\ playing[id].upstream /\ id \notin accounted' => call \in calls'
  BY DEF DeleteSession, GetSession, ReleaseOf
<1> HIDE DEF call
<1>7. ResourcesAreReleased'
  <2>1. ASSUME NEW i \in server' \ accounted'
        PROVE  \/ i \in Sessions' /\ playing'[i].upstream
               \/ \E c \in calls' : c.kind = "delete" /\ c.id = i
    <3>1. i \in SessionIds /\ i \in server \ accounted
      BY <1>1, <1>2, <2>1 DEF PlayShape
    <3>2. CASE i \in Sessions /\ playing[i].upstream /\ i = id
      BY <1>5, <1>6, <2>1, <3>2
    <3>3. CASE i \in Sessions /\ playing[i].upstream /\ i # id
      BY <1>4, <3>1, <3>3 DEF Sessions
    <3>4. CASE \E c \in calls : c.kind = "delete" /\ c.id = i
      BY <1>6, <3>4
    <3> QED
      BY <1>1, <3>1, <3>2, <3>3, <3>4 DEF ResourcesAreReleased
  <2> QED
    BY <2>1 DEF ResourcesAreReleased
<1>8. /\ calls' \subseteq PlayCalls
      /\ \A c \in calls' : c \in calls \/
           (playing[c.id] # NoSession /\ (c.kind = "patch" => TagAgrees(c.id, c.tag)))
  BY <1>1, <1>3, <1>5, <1>6 DEF PlayShape, Sessions
<1>9. UNCHANGED <<posting, used>> /\ playTime' \in Nat /\ server' \subseteq server
      /\ signalled' = signalled /\ signalled \subseteq [id : SessionIds, tag : Tags \cup {NoTag}]
  BY <1>1, <1>2 DEF PlayShape
<1> QED
  BY <1>4, <1>7, <1>8, <1>9, SessionsStay

LEMMA CallKeeps ==
    ASSUME PlayAssumption, PlayInv, NEW call \in calls, CallArrives(call) \/ CallFails(call)
    PROVE  PlayInv'
<1>1. PlayShape /\ ResourcesAreReleased
  BY DEF PlayInv
<1>2. /\ calls' = calls \ {call} /\ accounted \subseteq accounted' /\ server' \subseteq server
      /\ UNCHANGED <<playing, posting, used, playTime>>
      /\ call.kind = "delete" => call.id \notin server' \ accounted'
  BY DEF CallArrives, CallFails
<1>3. call \in PlayCalls
  BY <1>1 DEF PlayShape
<1>4. /\ \A s \in signalled' : s \in signalled
           \/ \E c \in calls : c.kind = "patch" /\ c.id = s.id /\ c.tag = s.tag
      /\ signalled' \subseteq [id : SessionIds, tag : Tags \cup {NoTag}]
  <2> DEFINE new == [id |-> call.id, tag |-> call.tag]
  <2>1. /\ new.id = call.id /\ new.tag = call.tag
        /\ new \in [id : SessionIds, tag : Tags \cup {NoTag}]
    BY <1>3 DEF PlayCalls
  <2>2. signalled' = signalled \/ (signalled' = signalled \cup {new} /\ call.kind # "delete")
    BY DEF CallArrives, CallFails
  <2>3. call.kind # "delete" => call.kind = "patch"
    BY <1>3 DEF PlayCalls
  <2> HIDE DEF new
  <2> QED
    BY <1>1, <2>1, <2>2, <2>3 DEF PlayShape
<1>5. ResourcesAreReleased'
  BY <1>1, <1>2 DEF ResourcesAreReleased, Sessions
<1> QED
  BY <1>1, <1>2, <1>4, <1>5, SessionsStay DEF PlayShape

LEMMA PlayKept ==
    ASSUME PlayAssumption, PlayInv, [PlayNext]_playVars
    PROVE  PlayInv'
<1>1. ASSUME NEW id \in SessionIds, CreateSession(id) \/ DeleteSession(id) \/ GetSession(id)
      PROVE  PlayInv'
  BY <1>1, CreateSessionKeeps, DropSessionKeeps
<1>2. ASSUME NEW id \in SessionIds, NEW tag \in Tags, NEW located \in BOOLEAN,
             Play(id, tag, located)
      PROVE  \E new \in Plays : /\ playing' = [playing EXCEPT ![id] = new]
                                /\ playing'[id] = new /\ new.upstream = located
  <2> DEFINE new == [etag |-> tag, upstream |-> located, activity |-> playTime]
  <2>1. new \in Plays /\ new.upstream = located
    BY DEF PlayInv, PlayShape, Plays
  <2>2. playing' = [playing EXCEPT ![id] = new]
    BY <1>2 DEF Play
  <2> HIDE DEF new
  <2>3. playing'[id] = new
    BY <2>2 DEF PlayInv, PlayShape
  <2> QED
    BY <2>1, <2>2, <2>3
<1>3. ASSUME NEW id \in SessionIds, NEW tag \in ServerTags, NEW located \in BOOLEAN,
             ServerAccepts(id, tag, located)
      PROVE  PlayInv'
  <2>1. /\ id \in posting /\ tag \in Tags /\ Play(id, tag, located) /\ posting' = posting \ {id}
        /\ UNCHANGED <<used, calls, signalled, playTime>>
        /\ server' \subseteq server \cup {id} /\ accounted \subseteq accounted'
        /\ id \in server' \ accounted' => located
    BY <1>3 DEF ServerAccepts, Tags
  <2>2. PICK new \in Plays : /\ playing' = [playing EXCEPT ![id] = new]
                             /\ playing'[id] = new /\ new.upstream = located
    BY <1>2, <2>1
  <2> QED
    BY <2>1, <2>2, AnswerKeeps
<1>4. ASSUME NEW id \in SessionIds, NEW accepted \in BOOLEAN, ServerFails(id, accepted)
      PROVE  PlayInv'
  <2>1. id \notin server
    BY <1>4 DEF PlayInv, UnansweredIsUnknown, Unanswered, ServerFails
  <2>2. /\ id \in posting /\ posting' = posting \ {id} /\ UNCHANGED <<used, calls, signalled, playTime>>
        /\ server' \subseteq server \cup {id} /\ accounted \subseteq accounted'
        /\ id \notin server' \ accounted'
    BY <1>4, <2>1 DEF ServerFails
  <2>3. \E new \in Plays : playing' = [playing EXCEPT ![id] = new] \/ UNCHANGED playing
    <3>1. CASE MockFallback
      <4>1. Play(id, id, FALSE) /\ id \in Tags
        BY <1>4, <3>1 DEF ServerFails, Tags
      <4> QED
        BY <1>2, <4>1
    <3>2. CASE ~MockFallback
      <4>1. UNCHANGED playing
        BY <1>4, <3>2 DEF ServerFails
      <4>2. [etag |-> id, upstream |-> FALSE, activity |-> 0] \in Plays
        BY DEF Plays, Tags
      <4> QED
        BY <4>1, <4>2
    <3> QED
      BY <3>1, <3>2
  <2> QED
    BY <2>2, <2>3, AnswerKeeps
<1>5. ASSUME NEW id \in SessionIds, NEW tag \in ServerTags \cup SessionIds \cup {NoTag},
             PatchSession(id, tag)
      PROVE  PlayInv'
  BY <1>5, PatchSessionKeeps DEF Tags
<1>6. ASSUME NEW call \in calls, CallArrives(call) \/ CallFails(call)
      PROVE  PlayInv'
  BY <1>6, CallKeeps
<1>7. CASE PlayTick \/ UNCHANGED playVars
  BY <1>7 DEF PlayTick, playVars, PlayInv, PlayShape, UnansweredIsUnknown, Unanswered, CallsAreOwn,
              ResourcesAreReleased, CandidatesAreOwn, Sessions
<1> QED
  BY <1>1, <1>3, <1>4, <1>5, <1>6, <1>7 DEF PlayNext

(* The media server is left with no resource that nobody asks it to        *)
(* release, except those of lost answers, expired sessions and failed      *)
(* releases, and no candidate reaches another session's resource           *)
(* (create_session, update_ice_candidate, delete_session).                 *)
THEOREM Relaying == PlaySpec => []PlaybackIsRelayed
<1>1. PlayInit => PlayInv
  BY PlayAssumption, PlayInitially
<1>2. PlayInv /\ [PlayNext]_playVars => PlayInv'
  BY PlayAssumption, PlayKept
<1>3. PlayInv => PlaybackIsRelayed
  BY DEF PlayInv, PlaybackIsRelayed
<1> QED
  BY <1>1, <1>2, <1>3, PTL DEF PlaySpec
-----------------------------------------------------------------------------
(* Downloads: the inductive invariant. *)

ExportRows ==
    [owner : Owners, request : Requests, window : Windows, source : MediaSources,
     status : Underway \cup {"ready", "failed", "gone", "blocked"},
     clip : BOOLEAN, retry : BOOLEAN, due : BOOLEAN]

MediaClips == [status : {"processing", "ready", "failed", "gone"}, extractions : Nat]

ExportShape ==
    /\ exports \in Seq(ExportRows) /\ mediaClips \in Seq(MediaClips \cup {NoMedia})
    /\ Len(mediaClips) = Len(exports) /\ source \in MediaSources
    /\ aliases \in [Owners \X Requests -> Nat]
    /\ told \in [Owners \X Requests -> SUBSET (Nat \X Windows)]
    /\ owed \subseteq DOMAIN exports

(* A job that is shown as failed, and that nobody asked again for, has     *)
(* failed at the media service, too.                                       *)
SoundRow(job, clip) ==
    /\ job.clip => clip # NoMedia
    /\ job.status \in {"failed", "gone"} /\ ~job.retry =>
         clip # NoMedia /\ clip.status \in {"failed", "gone"}

RowsAreSound == \A j \in DOMAIN exports : SoundRow(exports[j], mediaClips[j])

(* A number is bound before a job of its is committed, and to a job of its *)
(* account; what it was answered is of that job.                           *)
NumbersAreBound ==
    /\ \A o \in Owners, r \in Requests : aliases[<<o, r>>] # 0 =>
         aliases[<<o, r>>] \in DOMAIN exports /\ exports[aliases[<<o, r>>]].owner = o
    /\ \A j \in DOMAIN exports : aliases[<<exports[j].owner, exports[j].request>>] # 0

ToldOfBound ==
    \A o \in Owners, r \in Requests : \A answer \in told[<<o, r>>] :
        aliases[<<o, r>>] # 0 /\ answer = <<aliases[<<o, r>>], exports[aliases[<<o, r>>]].window>>

ExportInv == ExportShape /\ RowsAreSound /\ NumbersAreBound /\ ToldOfBound /\ RetryIsKept

SameRequest(job, other) ==
    /\ job.owner = other.owner /\ job.request = other.request
    /\ job.window = other.window /\ job.source = other.source

LEMMA ExportInitially == ExportAssumption /\ ExportInit => ExportInv
<1> SUFFICES ASSUME ExportAssumption, ExportInit PROVE ExportInv
  OBVIOUS
<1>1. ExportShape
  <2>1. <<>> \in Seq(ExportRows) /\ <<>> \in Seq(MediaClips \cup {NoMedia})
    OBVIOUS
  <2> QED
    BY <2>1 DEF ExportInit, ExportShape, ExportAssumption
<1>2. RowsAreSound /\ NumbersAreBound /\ ToldOfBound /\ RetryIsKept
  BY DEF ExportInit, RowsAreSound, NumbersAreBound, ToldOfBound, RetryIsKept
<1> QED
  BY <1>1, <1>2 DEF ExportInv

(* What an answer of the media service makes of a job. *)
LEMMA AppliedRow ==
    ASSUME NEW job \in ExportRows, NEW clip \in MediaClips, clip # NoMedia, NEW receipt \in BOOLEAN
    PROVE  /\ Applied(job, clip, receipt) \in ExportRows
           /\ SameRequest(Applied(job, clip, receipt), job)
           /\ SoundRow(Applied(job, clip, receipt), clip)
           /\ Applied(job, clip, receipt).retry = job.retry
           /\ Applied(job, clip, receipt).status = clip.status
<1> DEFINE due == receipt \/ clip.status \in {"collecting", "processing"}
           new == [job EXCEPT !.clip = TRUE, !.status = clip.status, !.due = due]
<1>1. due \in BOOLEAN /\ clip.status \in {"processing", "ready", "failed", "gone"}
  BY DEF MediaClips
<1>2. Applied(job, clip, receipt) = new
  BY DEF Applied
<1> HIDE DEF due
<1>3. new \in ExportRows
  BY <1>1 DEF ExportRows, Underway
<1>4. SameRequest(new, job) /\ new.retry = job.retry /\ new.status = clip.status
  BY DEF ExportRows, SameRequest
<1>5. SoundRow(new, clip)
  BY <1>4 DEF SoundRow
<1> HIDE DEF new
<1> QED
  BY <1>2, <1>3, <1>4, <1>5

LEMMA PostedClip ==
    ASSUME ExportAssumption, NEW clip \in MediaClips \cup {NoMedia}, NEW retry \in BOOLEAN
    PROVE  /\ AfterPost(clip, retry) \in MediaClips /\ AfterPost(clip, retry) # NoMedia
           /\ ~retry /\ clip # NoMedia => AfterPost(clip, retry) = clip
<1>1. NoMedia \notin MediaClips
  BY DEF ExportAssumption, MediaClips
<1>2. CASE clip = NoMedia
  <2> DEFINE new == [status |-> "processing", extractions |-> 1]
  <2>1. new \in MediaClips /\ AfterPost(clip, retry) = new
    BY <1>2 DEF AfterPost, MediaClips
  <2> QED
    BY <1>1, <1>2, <2>1
<1>3. CASE clip # NoMedia /\ retry /\ clip.status = "failed"
  <2> DEFINE new == [clip EXCEPT !.status = "processing", !.extractions = @ + 1]
  <2>1. clip \in MediaClips /\ clip.extractions + 1 \in Nat
    BY <1>3 DEF MediaClips
  <2>2. new \in MediaClips
    BY <2>1 DEF MediaClips
  <2>3. AfterPost(clip, retry) = new
    BY <1>3 DEF AfterPost
  <2> HIDE DEF new
  <2> QED
    BY <1>1, <1>3, <2>2, <2>3
<1>4. CASE clip # NoMedia /\ ~(retry /\ clip.status = "failed")
  BY <1>1, <1>4 DEF AfterPost
<1> QED
  BY <1>2, <1>3, <1>4

(* What a dispatch makes of a job and of its clip, whatever becomes of the *)
(* call: the retry is gone only when it was sent.                          *)
LEMMA ResultRow ==
    ASSUME ExportAssumption, NEW job \in ExportRows, NEW clip \in MediaClips \cup {NoMedia},
           SoundRow(job, clip), NEW result \in Results(job, clip)
    PROVE  /\ result.job \in ExportRows /\ result.clip \in MediaClips \cup {NoMedia}
           /\ SameRequest(result.job, job) /\ SoundRow(result.job, result.clip)
           /\ result.sent \in BOOLEAN
           /\ ~result.sent => result.job.retry = job.retry
<1> DEFINE posted  == AfterPost(clip, job.retry)
           later   == [job EXCEPT !.due = TRUE]
           blocked == [job EXCEPT !.due = FALSE, !.status = "blocked"]
           heard   == [Applied(job, posted, TRUE) EXCEPT !.retry = FALSE]
           read    == Applied(job, clip, FALSE)
<1>1. /\ posted \in MediaClips /\ posted # NoMedia
      /\ ~job.retry /\ clip # NoMedia => posted = clip
  <2>1. job.retry \in BOOLEAN
    BY DEF ExportRows
  <2> QED
    BY <2>1, PostedClip
<1> HIDE DEF posted
<1>2. /\ later \in ExportRows /\ SameRequest(later, job) /\ later.retry = job.retry
      /\ later.status = job.status /\ later.clip = job.clip
  BY DEF ExportRows, SameRequest
<1>3. /\ blocked \in ExportRows /\ SameRequest(blocked, job) /\ blocked.retry = job.retry
      /\ blocked.status = "blocked" /\ blocked.clip = job.clip
  BY DEF ExportRows, SameRequest
<1>4. /\ heard \in ExportRows /\ SameRequest(heard, job) /\ SoundRow(heard, posted)
  <2> DEFINE new == Applied(job, posted, TRUE)
  <2>1. new \in ExportRows /\ SameRequest(new, job) /\ new.status = posted.status
    BY <1>1, AppliedRow
  <2> HIDE DEF new
  <2>2. [new EXCEPT !.retry = FALSE] \in ExportRows
    BY <2>1 DEF ExportRows
  <2>3. SameRequest([new EXCEPT !.retry = FALSE], job) /\ [new EXCEPT !.retry = FALSE].status = posted.status
    BY <2>1 DEF SameRequest, ExportRows
  <2>4. SoundRow([new EXCEPT !.retry = FALSE], posted)
    BY <1>1, <2>3 DEF SoundRow
  <2> QED
    BY <2>2, <2>3, <2>4 DEF new
<1>5. ASSUME job.clip
      PROVE  /\ read \in ExportRows /\ SameRequest(read, job) /\ SoundRow(read, clip)
             /\ read.retry = job.retry
  <2>1. clip \in MediaClips /\ clip # NoMedia
    BY <1>5 DEF SoundRow
  <2> QED
    BY <2>1, AppliedRow
<1> HIDE DEF later, blocked, heard, read
<1>6. /\ SoundRow(later, clip) /\ SoundRow(blocked, clip)
      /\ ~job.clip \/ job.retry => SoundRow(later, posted) /\ SoundRow(blocked, posted)
  BY <1>1, <1>2, <1>3 DEF SoundRow
<1>7. \/ result = [job |-> blocked, clip |-> clip, sent |-> FALSE, ok |-> FALSE]
      \/ result = [job |-> later, clip |-> clip, sent |-> FALSE, ok |-> FALSE]
      \/ (~job.clip \/ job.retry) /\ result = [job |-> heard, clip |-> posted, sent |-> TRUE, ok |-> TRUE]
      \/ (~job.clip \/ job.retry) /\ result = [job |-> later, clip |-> posted, sent |-> TRUE, ok |-> FALSE]
      \/ (~job.clip \/ job.retry) /\ result = [job |-> blocked, clip |-> posted, sent |-> TRUE, ok |-> FALSE]
      \/ job.clip /\ result = [job |-> read, clip |-> clip, sent |-> FALSE, ok |-> TRUE]
  BY DEF Results, posted, later, blocked, heard, read
<1>8. CASE result.sent
  BY <1>1, <1>2, <1>3, <1>4, <1>6, <1>7, <1>8
<1>9. CASE result = [job |-> blocked, clip |-> clip, sent |-> FALSE, ok |-> FALSE]
  <2>1. result.job = blocked /\ result.clip = clip /\ result.sent = FALSE
    BY <1>9
  <2> QED
    BY <1>3, <1>6, <2>1
<1>10. CASE result = [job |-> later, clip |-> clip, sent |-> FALSE, ok |-> FALSE]
  <2>1. result.job = later /\ result.clip = clip /\ result.sent = FALSE
    BY <1>10
  <2> QED
    BY <1>2, <1>6, <2>1
<1>11. CASE job.clip /\ result = [job |-> read, clip |-> clip, sent |-> FALSE, ok |-> TRUE]
  <2>1. result.job = read /\ result.clip = clip /\ result.sent = FALSE
    BY <1>11
  <2> QED
    BY <1>5, <1>11, <2>1
<1> QED
  BY <1>7, <1>8, <1>9, <1>10, <1>11

LEMMA RefreshedRow ==
    ASSUME ExportInv, NEW j \in DOMAIN exports
    PROVE  /\ Refreshed(j) \in ExportRows /\ SameRequest(Refreshed(j), exports[j])
           /\ SoundRow(Refreshed(j), mediaClips[j]) /\ Refreshed(j).retry = exports[j].retry
           /\ exports[j].clip => mediaClips[j] # NoMedia /\ Refreshed(j).status = mediaClips[j].status
           /\ ~exports[j].clip => Refreshed(j) = exports[j]
<1>1. /\ exports[j] \in ExportRows /\ mediaClips[j] \in MediaClips \cup {NoMedia}
      /\ SoundRow(exports[j], mediaClips[j])
  BY DEF ExportInv, ExportShape, RowsAreSound
<1>2. CASE exports[j].clip
  <2>1. mediaClips[j] \in MediaClips /\ mediaClips[j] # NoMedia
    BY <1>1, <1>2 DEF SoundRow
  <2> QED
    BY <1>1, <1>2, <2>1, AppliedRow DEF Refreshed
<1>3. CASE ~exports[j].clip
  BY <1>1, <1>3 DEF Refreshed, SameRequest
<1> QED
  BY <1>2, <1>3

(* Jobs keep their requests and stay sound, numbers keep their jobs, and   *)
(* what is told is told of the job of the number.                          *)
LEMMA ExportsGoOn ==
    ASSUME ExportInv,
           exports' \in Seq(ExportRows), mediaClips' \in Seq(MediaClips \cup {NoMedia}),
           Len(mediaClips') = Len(exports'), Len(exports') >= Len(exports), source' \in MediaSources,
           \A j \in DOMAIN exports : SameRequest(exports'[j], exports[j]),
           \A j \in DOMAIN exports' : SoundRow(exports'[j], mediaClips'[j]),
           owed' \subseteq DOMAIN exports', \A j \in owed' : exports'[j].retry,
           aliases' \in [Owners \X Requests -> Nat],
           \A k \in Owners \X Requests : aliases[k] # 0 => aliases'[k] = aliases[k],
           \A o \in Owners, r \in Requests : aliases[<<o, r>>] = 0 /\ aliases'[<<o, r>>] # 0 =>
               aliases'[<<o, r>>] \in DOMAIN exports' /\ exports'[aliases'[<<o, r>>]].owner = o,
           \A j \in DOMAIN exports' : j \notin DOMAIN exports =>
               aliases'[<<exports'[j].owner, exports'[j].request>>] # 0,
           told' \in [Owners \X Requests -> SUBSET (Nat \X Windows)],
           \A o \in Owners, r \in Requests : \A answer \in told'[<<o, r>>] :
               \/ answer \in told[<<o, r>>]
               \/ /\ aliases'[<<o, r>>] # 0
                  /\ answer = <<aliases'[<<o, r>>], exports'[aliases'[<<o, r>>]].window>>
    PROVE  ExportInv'
<1>1. ExportShape /\ NumbersAreBound /\ ToldOfBound
  BY DEF ExportInv
<1>2. DOMAIN exports \subseteq DOMAIN exports' /\ \A j \in DOMAIN exports : exports[j] \in ExportRows
  BY <1>1 DEF ExportShape
<1>3. ExportShape' /\ RowsAreSound' /\ RetryIsKept'
  BY DEF ExportShape, RowsAreSound, RetryIsKept
<1>4. ASSUME NEW o \in Owners, NEW r \in Requests, aliases[<<o, r>>] # 0
      PROVE  /\ aliases'[<<o, r>>] = aliases[<<o, r>>] /\ aliases[<<o, r>>] \in DOMAIN exports
             /\ exports'[aliases[<<o, r>>]].owner = o
             /\ exports'[aliases[<<o, r>>]].window = exports[aliases[<<o, r>>]].window
  <2>1. <<o, r>> \in Owners \X Requests
    OBVIOUS
  <2> QED
    BY <1>1, <1>4, <2>1 DEF NumbersAreBound, SameRequest
<1>5. NumbersAreBound'
  <2>1. ASSUME NEW o \in Owners, NEW r \in Requests, aliases'[<<o, r>>] # 0
        PROVE  aliases'[<<o, r>>] \in DOMAIN exports' /\ exports'[aliases'[<<o, r>>]].owner = o
    BY <1>2, <1>4, <2>1
  <2>2. ASSUME NEW j \in DOMAIN exports', j \in DOMAIN exports
        PROVE  aliases'[<<exports'[j].owner, exports'[j].request>>] # 0
    <3>1. exports[j].owner \in Owners /\ exports[j].request \in Requests
      BY <1>2, <2>2 DEF ExportRows
    <3>2. aliases[<<exports[j].owner, exports[j].request>>] # 0
      BY <1>1, <2>2 DEF NumbersAreBound
    <3>3. aliases'[<<exports[j].owner, exports[j].request>>] # 0
      BY <1>4, <3>1, <3>2
    <3>4. exports'[j].owner = exports[j].owner /\ exports'[j].request = exports[j].request
      BY <2>2 DEF SameRequest
    <3> QED
      BY <3>3, <3>4
  <2> QED
    BY <2>1, <2>2 DEF NumbersAreBound
<1>6. ToldOfBound'
  <2>1. ASSUME NEW o \in Owners, NEW r \in Requests, NEW answer \in told'[<<o, r>>],
               answer \in told[<<o, r>>]
        PROVE  aliases'[<<o, r>>] # 0 /\ answer = <<aliases'[<<o, r>>], exports'[aliases'[<<o, r>>]].window>>
    <3>1. aliases[<<o, r>>] # 0 /\ answer = <<aliases[<<o, r>>], exports[aliases[<<o, r>>]].window>>
      BY <1>1, <2>1 DEF ToldOfBound
    <3> QED
      BY <1>4, <3>1
  <2> QED
    BY <2>1 DEF ToldOfBound
<1> QED
  BY <1>3, <1>5, <1>6 DEF ExportInv

(* The number of a request is that of its alias. *)
LEMMA BoundIsAlias ==
    ASSUME ExportInv, NEW o \in Owners, NEW r \in Requests
    PROVE  Bound(o, r) = aliases[<<o, r>>]
<1>1. aliases[<<o, r>>] = 0 => Canonical(o, r) = {}
  BY DEF ExportInv, NumbersAreBound, Canonical
<1> QED
  BY <1>1 DEF Bound

(* A step that touches one job, or none. *)
LEMMA OneJobGoesOn ==
    ASSUME ExportInv, NEW j \in DOMAIN exports,
           NEW job \in ExportRows, NEW clip \in MediaClips \cup {NoMedia},
           SameRequest(job, exports[j]), SoundRow(job, clip),
           exports' = [exports EXCEPT ![j] = job], mediaClips' = [mediaClips EXCEPT ![j] = clip],
           owed' \subseteq owed \cup {j}, j \in owed' => job.retry,
           UNCHANGED <<aliases, source>>, NEW o \in Owners, NEW r \in Requests, NEW w \in Windows,
           \/ UNCHANGED told
           \/ Told(o, r, w, j) /\ aliases[<<o, r>>] = j /\ exports[j].window = w
    PROVE  ExportInv'
<1>1. ExportShape /\ RowsAreSound /\ ToldOfBound /\ RetryIsKept
  BY DEF ExportInv
<1>2. /\ exports' \in Seq(ExportRows) /\ mediaClips' \in Seq(MediaClips \cup {NoMedia})
      /\ Len(mediaClips') = Len(exports') /\ Len(exports') = Len(exports)
      /\ DOMAIN exports' = DOMAIN exports
      /\ exports'[j] = job /\ mediaClips'[j] = clip
      /\ \A i \in DOMAIN exports : i # j => exports'[i] = exports[i] /\ mediaClips'[i] = mediaClips[i]
  BY <1>1 DEF ExportShape
<1>3. \A i \in DOMAIN exports : SameRequest(exports'[i], exports[i])
  BY <1>2 DEF SameRequest
<1>4. \A i \in DOMAIN exports' : SoundRow(exports'[i], mediaClips'[i])
  BY <1>1, <1>2 DEF RowsAreSound
<1>5. owed' \subseteq DOMAIN exports' /\ \A i \in owed' : exports'[i].retry
  BY <1>1, <1>2 DEF ExportShape, RetryIsKept
<1>6. /\ told' \in [Owners \X Requests -> SUBSET (Nat \X Windows)]
      /\ \A p \in Owners, q \in Requests : \A answer \in told'[<<p, q>>] :
           \/ answer \in told[<<p, q>>]
           \/ /\ aliases'[<<p, q>>] # 0
              /\ answer = <<aliases'[<<p, q>>], exports'[aliases'[<<p, q>>]].window>>
  <2>1. CASE UNCHANGED told
    BY <1>1, <2>1 DEF ExportShape
  <2>2. CASE Told(o, r, w, j) /\ aliases[<<o, r>>] = j /\ exports[j].window = w
    <3> DEFINE k == <<o, r>>
               a == <<j, w>>
    <3>1. k \in Owners \X Requests /\ a \in Nat \X Windows /\ j # 0
      BY <1>1 DEF ExportShape
    <3>2. told' = [told EXCEPT ![k] = @ \cup {a}] /\ told \in [Owners \X Requests -> SUBSET (Nat \X Windows)]
      BY <1>1, <2>2 DEF Told, ExportShape
    <3>3. a = <<aliases'[k], exports'[aliases'[k]].window>> /\ aliases'[k] # 0
      BY <1>3, <2>2, <3>1 DEF SameRequest
    <3>4. /\ told' \in [Owners \X Requests -> SUBSET (Nat \X Windows)]
          /\ \A p \in Owners \X Requests : told'[p] \subseteq told[p] \/ (p = k /\ told'[p] \subseteq told[p] \cup {a})
      <4> HIDE DEF k, a
      <4> QED
        BY <3>1, <3>2
    <3>5. ASSUME NEW p \in Owners, NEW q \in Requests, NEW answer \in told'[<<p, q>>],
                 answer \notin told[<<p, q>>]
          PROVE  <<p, q>> = k /\ answer = a
      <4>1. <<p, q>> \in Owners \X Requests
        OBVIOUS
      <4> HIDE DEF k, a
      <4> QED
        BY <3>4, <3>5, <4>1
    <3> QED
      BY <3>3, <3>4, <3>5
  <2> QED
    BY <2>1, <2>2
<1>7. aliases' \in [Owners \X Requests -> Nat] /\ source' \in MediaSources /\ aliases' = aliases
  BY <1>1 DEF ExportShape
<1>8. Len(exports') >= Len(exports)
  BY <1>1, <1>2 DEF ExportShape
<1> QED
  BY <1>2, <1>3, <1>4, <1>5, <1>6, <1>7, <1>8, ExportsGoOn

(* The newest of some jobs is one of them. *)
LEMMA NewestJob ==
    ASSUME ExportInv, NEW S \in SUBSET DOMAIN exports, S # {}
    PROVE  Max(S) \in S /\ \A i \in S : i <= Max(S)
<1>1. Len(exports) \in Nat /\ DOMAIN exports = 1 .. Len(exports)
  BY DEF ExportInv, ExportShape
<1>2. S \in SUBSET Nat /\ \A x \in S : x <= Len(exports)
  BY <1>1
<1>3. PICK m \in S : \A x \in S : x <= m
  BY <1>1, <1>2, GreatestNat
<1>4. \A x \in S : x \in Nat
  BY <1>2
<1> QED
  BY <1>3, <1>4 DEF Max

(* Reads: a job is brought up to date. *)
LEMMA RefreshGoesOn ==
    ASSUME ExportInv, NEW j \in DOMAIN exports, NEW o \in Owners, NEW r \in Requests, NEW w \in Windows,
           exports' = [exports EXCEPT ![j] = Refreshed(j)],
           UNCHANGED <<aliases, source, mediaClips, owed>>,
           \/ UNCHANGED told
           \/ Told(o, r, w, j) /\ aliases[<<o, r>>] = j /\ exports[j].window = w
    PROVE  ExportInv'
<1>1. /\ Refreshed(j) \in ExportRows /\ SameRequest(Refreshed(j), exports[j])
      /\ SoundRow(Refreshed(j), mediaClips[j]) /\ Refreshed(j).retry = exports[j].retry
  BY RefreshedRow
<1>2. /\ mediaClips' = [mediaClips EXCEPT ![j] = mediaClips[j]]
      /\ mediaClips[j] \in MediaClips \cup {NoMedia}
  BY DEF ExportInv, ExportShape
<1>3. owed' \subseteq owed \cup {j} /\ (j \in owed' => Refreshed(j).retry)
  BY <1>1 DEF ExportInv, RetryIsKept
<1> DEFINE job == Refreshed(j)
           clip == mediaClips[j]
<1>4. /\ job \in ExportRows /\ SameRequest(job, exports[j]) /\ SoundRow(job, clip)
      /\ clip \in MediaClips \cup {NoMedia} /\ (j \in owed' => job.retry)
      /\ exports' = [exports EXCEPT ![j] = job] /\ mediaClips' = [mediaClips EXCEPT ![j] = clip]
  BY <1>1, <1>2, <1>3
<1>5. UNCHANGED <<aliases, source>> /\ owed' \subseteq owed \cup {j}
  BY <1>3
<1> HIDE DEF job, clip
<1> QED
  BY <1>4, <1>5, OneJobGoesOn

LEMMA ReadsGoOn ==
    ASSUME ExportInv, NEW o \in Owners, NEW r \in Requests, NEW w \in Windows,
           ReadExport(o, r, w) \/ LookupExport(o, w)
    PROVE  ExportInv'
<1>1. CASE ReadExport(o, r, w)
  <2> DEFINE j == aliases[<<o, r>>]
  <2>1. Bound(o, r) = j
    BY BoundIsAlias
  <2>2. /\ j # 0 /\ exports[j].window = w /\ exports' = [exports EXCEPT ![j] = Refreshed(j)]
        /\ Told(o, r, w, j) /\ UNCHANGED <<aliases, source, mediaClips, owed>>
    BY <1>1, <2>1 DEF ReadExport
  <2>3. j \in DOMAIN exports
    BY <2>2 DEF ExportInv, NumbersAreBound
  <2> QED
    BY <2>2, <2>3, RefreshGoesOn
<1>2. CASE LookupExport(o, w)
  <2> DEFINE S == Matching(o, w)
             j == Max(S)
  <2>1. S \in SUBSET DOMAIN exports /\ S # {}
    BY <1>2 DEF LookupExport, Matching
  <2>2. j \in DOMAIN exports
    BY <2>1, NewestJob
  <2>3. exports' = [exports EXCEPT ![j] = Refreshed(j)] /\ UNCHANGED <<aliases, source, mediaClips, told, owed>>
    BY <1>2 DEF LookupExport
  <2> HIDE DEF j
  <2> QED
    BY <2>2, <2>3, RefreshGoesOn
<1> QED
  BY <1>1, <1>2

(* The worker's dispatch, and that of a request for a known number. *)
LEMMA WorkerGoesOn ==
    ASSUME ExportAssumption, ExportInv, NEW j \in DOMAIN exports, WorkerDispatches(j)
    PROVE  ExportInv'
<1>1. /\ exports[j] \in ExportRows /\ mediaClips[j] \in MediaClips \cup {NoMedia}
      /\ SoundRow(exports[j], mediaClips[j]) /\ (j \in owed => exports[j].retry)
  BY DEF ExportInv, ExportShape, RowsAreSound, RetryIsKept
<1>2. PICK result \in Results(exports[j], mediaClips[j]) :
        /\ exports' = [exports EXCEPT ![j] = result.job]
        /\ mediaClips' = [mediaClips EXCEPT ![j] = result.clip]
        /\ owed' = IF result.sent THEN owed \ {j} ELSE owed
  BY DEF WorkerDispatches
<1>3. /\ result.job \in ExportRows /\ result.clip \in MediaClips \cup {NoMedia}
      /\ SameRequest(result.job, exports[j]) /\ SoundRow(result.job, result.clip)
      /\ result.sent \in BOOLEAN
      /\ ~result.sent => result.job.retry = exports[j].retry
  BY <1>1, ResultRow
<1>4. owed' \subseteq owed \cup {j} /\ (j \in owed' => result.job.retry)
  BY <1>1, <1>2, <1>3
<1>5. UNCHANGED <<aliases, source, told>>
  BY DEF WorkerDispatches
<1>6. exports[j].owner \in Owners /\ exports[j].request \in Requests /\ exports[j].window \in Windows
  BY <1>1 DEF ExportRows
<1> QED
  BY <1>2, <1>3, <1>4, <1>5, <1>6, OneJobGoesOn

LEMMA RequestGoesOn ==
    ASSUME ExportAssumption, ExportInv, NEW o \in Owners, NEW r \in Requests, NEW w \in Windows,
           NEW retry \in BOOLEAN, RequestAgain(o, r, w, retry)
    PROVE  ExportInv'
<1> DEFINE j == aliases[<<o, r>>]
           job == [exports[j] EXCEPT !.retry = @ \/ retry]
<1>1. Bound(o, r) = j
  BY BoundIsAlias
<1>2. /\ j # 0 /\ exports[j].window = w /\ Dispatch(j, job, o, r, w)
      /\ UNCHANGED <<aliases, source>>
  BY <1>1 DEF RequestAgain
<1>3. j \in DOMAIN exports
  BY <1>2 DEF ExportInv, NumbersAreBound
<1>4. /\ exports[j] \in ExportRows /\ mediaClips[j] \in MediaClips \cup {NoMedia}
      /\ SoundRow(exports[j], mediaClips[j]) /\ (j \in owed => exports[j].retry)
  BY <1>3 DEF ExportInv, ExportShape, RowsAreSound, RetryIsKept
<1>5. /\ job \in ExportRows /\ SameRequest(job, exports[j]) /\ (exports[j].retry => job.retry)
      /\ job.status = exports[j].status /\ job.clip = exports[j].clip
  BY <1>4 DEF ExportRows, SameRequest
<1>6. SoundRow(job, mediaClips[j])
  BY <1>4, <1>5 DEF SoundRow
<1> HIDE DEF job
<1>7. CASE \E result \in Results(job, mediaClips[j]) :
             /\ exports' = [exports EXCEPT ![j] = result.job]
             /\ mediaClips' = [mediaClips EXCEPT ![j] = result.clip]
             /\ owed' = IF result.sent THEN owed \ {j}
                        ELSE IF job.retry /\ ~exports[j].retry THEN owed \cup {j} ELSE owed
             /\ IF result.ok THEN Told(o, r, w, j) ELSE UNCHANGED told
  <2>1. PICK result \in Results(job, mediaClips[j]) :
          /\ exports' = [exports EXCEPT ![j] = result.job]
          /\ mediaClips' = [mediaClips EXCEPT ![j] = result.clip]
          /\ owed' = IF result.sent THEN owed \ {j}
                     ELSE IF job.retry /\ ~exports[j].retry THEN owed \cup {j} ELSE owed
          /\ IF result.ok THEN Told(o, r, w, j) ELSE UNCHANGED told
    BY <1>7
  <2>2. /\ result.job \in ExportRows /\ result.clip \in MediaClips \cup {NoMedia}
        /\ SameRequest(result.job, job) /\ SoundRow(result.job, result.clip)
        /\ result.sent \in BOOLEAN
        /\ ~result.sent => result.job.retry = job.retry
    BY <1>4, <1>5, <1>6, ResultRow
  <2>3. SameRequest(result.job, exports[j])
    BY <1>5, <2>2 DEF SameRequest
  <2>4. owed' \subseteq owed \cup {j} /\ (j \in owed' => result.job.retry)
    BY <1>4, <1>5, <2>1, <2>2
  <2>5. UNCHANGED told \/ (Told(o, r, w, j) /\ aliases[<<o, r>>] = j /\ exports[j].window = w)
    BY <1>2, <2>1
  <2> HIDE DEF j
  <2> QED
    BY <1>2, <1>3, <2>1, <2>2, <2>3, <2>4, <2>5, OneJobGoesOn
<1>8. CASE /\ exports' = [exports EXCEPT ![j] = job]
           /\ owed' = IF job.retry /\ ~exports[j].retry THEN owed \cup {j} ELSE owed
           /\ UNCHANGED <<mediaClips, told>>
  <2>1. mediaClips' = [mediaClips EXCEPT ![j] = mediaClips[j]]
    BY <1>8 DEF ExportInv, ExportShape
  <2>2. owed' \subseteq owed \cup {j} /\ (j \in owed' => job.retry)
    BY <1>4, <1>5, <1>8
  <2> HIDE DEF j
  <2> QED
    BY <1>2, <1>3, <1>4, <1>5, <1>6, <1>8, <2>1, <2>2, OneJobGoesOn
<1> QED
  BY <1>2, <1>7, <1>8 DEF Dispatch

LEMMA ClipMovesGoesOn ==
    ASSUME ExportInv, NEW j \in DOMAIN exports, ClipMoves(j)
    PROVE  ExportInv'
<1>1. /\ exports[j] \in ExportRows /\ mediaClips[j] \in MediaClips
      /\ SoundRow(exports[j], mediaClips[j]) /\ (j \in owed => exports[j].retry)
      /\ UNCHANGED <<exports, aliases, source, told, owed>>
      /\ exports' = [exports EXCEPT ![j] = exports[j]] /\ mediaClips[j] # NoMedia
  BY DEF ExportInv, ExportShape, RowsAreSound, RetryIsKept, ClipMoves
<1>2. PICK status \in {"ready", "failed", "gone"} :
        /\ mediaClips' = [mediaClips EXCEPT ![j].status = status]
        /\ mediaClips[j].status \in {"processing", "ready"}
  BY DEF ClipMoves
<1> DEFINE clip == [mediaClips[j] EXCEPT !.status = status]
<1>3. clip \in MediaClips /\ mediaClips' = [mediaClips EXCEPT ![j] = clip]
  BY <1>1, <1>2 DEF MediaClips
<1>4. clip # NoMedia
  BY <1>3, ExportAssumption DEF ExportAssumption, MediaClips
<1>5. SoundRow(exports[j], clip)
  BY <1>1, <1>2, <1>4 DEF SoundRow
<1>6. /\ exports[j].owner \in Owners /\ exports[j].request \in Requests /\ exports[j].window \in Windows
      /\ SameRequest(exports[j], exports[j])
  BY <1>1 DEF ExportRows, SameRequest
<1> HIDE DEF clip
<1>7. owed' \subseteq owed \cup {j} /\ (j \in owed' => exports[j].retry)
  BY <1>1
<1> QED
  BY <1>1, <1>3, <1>5, <1>6, <1>7, OneJobGoesOn

(* Jobs brought up to date all at once. *)
LEMMA RefreshedRows ==
    ASSUME ExportInv, NEW S \in SUBSET DOMAIN exports
    PROVE  /\ RefreshedAll(S) \in Seq(ExportRows) /\ Len(RefreshedAll(S)) = Len(exports)
           /\ \A j \in DOMAIN exports :
                /\ SameRequest(RefreshedAll(S)[j], exports[j])
                /\ SoundRow(RefreshedAll(S)[j], mediaClips[j])
                /\ RefreshedAll(S)[j].retry = exports[j].retry
<1>1. Len(exports) \in Nat /\ DOMAIN exports = 1 .. Len(exports)
  BY DEF ExportInv, ExportShape
<1>2. ASSUME NEW j \in DOMAIN exports
      PROVE  /\ RefreshedAll(S)[j] \in ExportRows
             /\ SameRequest(RefreshedAll(S)[j], exports[j])
             /\ SoundRow(RefreshedAll(S)[j], mediaClips[j])
             /\ RefreshedAll(S)[j].retry = exports[j].retry
  <2>1. CASE j \in S
    BY <2>1, RefreshedRow DEF RefreshedAll
  <2>2. CASE j \notin S
    <3>1. RefreshedAll(S)[j] = exports[j]
      BY <2>2 DEF RefreshedAll
    <3>2. exports[j] \in ExportRows /\ SoundRow(exports[j], mediaClips[j])
      BY DEF ExportInv, ExportShape, RowsAreSound
    <3> QED
      BY <3>1, <3>2 DEF SameRequest
  <2> QED
    BY <2>1, <2>2
<1> DEFINE renewed == RefreshedAll(S)
<1>3. renewed = [j \in 1 .. Len(exports) |-> IF j \in S THEN Refreshed(j) ELSE exports[j]]
  BY <1>1 DEF RefreshedAll
<1>4. DOMAIN renewed = 1 .. Len(exports) /\ renewed = [j \in 1 .. Len(exports) |-> renewed[j]]
  BY <1>3
<1> HIDE DEF renewed
<1>5. renewed \in [1 .. Len(exports) -> ExportRows]
  BY <1>1, <1>2, <1>4 DEF renewed
<1>6. renewed \in Seq(ExportRows) /\ Len(renewed) = Len(exports)
  BY <1>1, <1>5
<1> QED
  BY <1>2, <1>6 DEF renewed

(* A request that refreshes some jobs, and is bound to the last, or to     *)
(* none if one of them cannot be refreshed.                                *)
LEMMA ReuseGoesOn ==
    ASSUME ExportInv, NEW o \in Owners, NEW r \in Requests, NEW w \in Windows,
           ReuseJob(o, r, w) \/ RefreshFails(o, r, w)
    PROVE  ExportInv'
<1>1. ExportShape /\ RowsAreSound /\ NumbersAreBound /\ RetryIsKept
  BY DEF ExportInv
<1>2. PICK S \in SUBSET DOMAIN exports : exports' = RefreshedAll(S)
  BY DEF ReuseJob, RefreshFails, Candidates, Matching
<1>3. UNCHANGED <<source, mediaClips, owed>> /\ aliases[<<o, r>>] = 0
  BY BoundIsAlias DEF ReuseJob, RefreshFails
<1>4. /\ exports' \in Seq(ExportRows) /\ Len(exports') = Len(exports)
      /\ \A j \in DOMAIN exports :
           /\ SameRequest(exports'[j], exports[j]) /\ SoundRow(exports'[j], mediaClips[j])
           /\ exports'[j].retry = exports[j].retry
  BY <1>2, RefreshedRows
<1>5. DOMAIN exports' = DOMAIN exports /\ Len(exports') >= Len(exports)
  BY <1>1, <1>4 DEF ExportShape
<1>6. /\ mediaClips' \in Seq(MediaClips \cup {NoMedia}) /\ Len(mediaClips') = Len(exports')
      /\ source' \in MediaSources /\ owed' \subseteq DOMAIN exports'
      /\ \A j \in DOMAIN exports' : SoundRow(exports'[j], mediaClips'[j])
  BY <1>1, <1>3, <1>4, <1>5 DEF ExportShape
<1>7. \A j \in owed' : exports'[j].retry
  BY <1>1, <1>3, <1>4 DEF ExportShape, RetryIsKept
<1>8. CASE UNCHANGED <<aliases, told>>
  BY <1>1, <1>4, <1>5, <1>6, <1>7, <1>8, ExportsGoOn DEF ExportShape
<1>9. CASE ReuseJob(o, r, w)
  <2> DEFINE j == Max(Serving(o, w))
             k == <<o, r>>
             a == <<j, w>>
  <2>1. Serving(o, w) # {} /\ Serving(o, w) \in SUBSET DOMAIN exports
    BY <1>9 DEF ReuseJob, Serving, Candidates, Matching
  <2>2. j \in Serving(o, w)
    BY <2>1, NewestJob
  <2>3. j \in DOMAIN exports /\ exports[j].owner = o /\ exports[j].window = w
    BY <2>2 DEF Serving, Candidates, Matching
  <2>4. aliases' = [aliases EXCEPT ![k] = j] /\ told' = [told EXCEPT ![k] = @ \cup {a}]
    BY <1>9 DEF ReuseJob, Told
  <2>5. /\ k \in Owners \X Requests /\ j \in Nat /\ j # 0 /\ a \in Nat \X Windows
        /\ exports'[j].owner = o /\ exports'[j].window = w
    BY <1>1, <1>4, <2>3 DEF ExportShape, SameRequest
  <2> HIDE DEF j, k, a
  <2>6. /\ aliases' \in [Owners \X Requests -> Nat] /\ aliases'[k] = j
        /\ \A i \in Owners \X Requests : i # k => aliases'[i] = aliases[i] /\ told'[i] = told[i]
        /\ told' \in [Owners \X Requests -> SUBSET (Nat \X Windows)]
        /\ told'[k] = told[k] \cup {a}
    BY <1>1, <2>4, <2>5 DEF ExportShape
  <2>7. aliases[k] = 0
    BY <1>3 DEF k
  <2>8. \A i \in Owners \X Requests : aliases[i] # 0 => aliases'[i] = aliases[i]
    BY <2>6, <2>7
  <2>9. ASSUME NEW p \in Owners, NEW q \in Requests, aliases[<<p, q>>] = 0, aliases'[<<p, q>>] # 0
        PROVE  aliases'[<<p, q>>] \in DOMAIN exports' /\ exports'[aliases'[<<p, q>>]].owner = p
    <3>1. <<p, q>> \in Owners \X Requests
      OBVIOUS
    <3>2. <<p, q>> = k
      BY <2>6, <2>9, <3>1
    <3>3. p = o
      BY <3>2 DEF k
    <3> QED
      BY <1>5, <2>3, <2>5, <2>6, <3>2, <3>3
  <2>10. ASSUME NEW p \in Owners, NEW q \in Requests, NEW answer \in told'[<<p, q>>],
                answer \notin told[<<p, q>>]
         PROVE  aliases'[<<p, q>>] # 0 /\ answer = <<aliases'[<<p, q>>], exports'[aliases'[<<p, q>>]].window>>
    <3>1. <<p, q>> \in Owners \X Requests
      OBVIOUS
    <3>2. <<p, q>> = k /\ answer = a
      BY <2>6, <2>10, <3>1
    <3> QED
      BY <2>5, <2>6, <3>2 DEF a
  <2> QED
    BY <1>4, <1>5, <1>6, <1>7, <2>6, <2>8, <2>9, <2>10, ExportsGoOn
<1> QED
  BY <1>8, <1>9 DEF RefreshFails

LEMMA MakeJobGoesOn ==
    ASSUME ExportAssumption, ExportInv, NEW o \in Owners, NEW r \in Requests, NEW w \in Windows,
           MakeJob(o, r, w)
    PROVE  ExportInv'
<1>1. ExportShape /\ RowsAreSound /\ NumbersAreBound /\ RetryIsKept /\ ToldOfBound
  BY DEF ExportInv
<1> DEFINE before == RefreshedAll(Candidates(o, w))
           new    == NewExport(o, r, w)
           n      == Len(exports) + 1
           k      == <<o, r>>
           a      == <<n, w>>
<1>2. Candidates(o, w) \in SUBSET DOMAIN exports
  BY DEF Candidates, Matching
<1>3. /\ before \in Seq(ExportRows) /\ Len(before) = Len(exports)
      /\ \A j \in DOMAIN exports :
           /\ SameRequest(before[j], exports[j]) /\ SoundRow(before[j], mediaClips[j])
           /\ before[j].retry = exports[j].retry
  BY <1>2, RefreshedRows
<1>4. new \in ExportRows /\ new.owner = o /\ new.request = r /\ new.window = w /\ SoundRow(new, NoMedia)
  BY <1>1 DEF NewExport, ExportRows, ExportShape, SoundRow, Underway
<1>5. /\ UNCHANGED <<source, owed>> /\ aliases' = [aliases EXCEPT ![k] = n] /\ aliases[k] = 0
      /\ n \in Nat /\ n # 0 /\ Len(exports) \in Nat /\ DOMAIN exports = 1 .. Len(exports)
      /\ k \in Owners \X Requests /\ a \in Nat \X Windows
  BY <1>1, BoundIsAlias DEF MakeJob, ExportShape
<1>6. \E job \in ExportRows, clip \in MediaClips \cup {NoMedia} :
        /\ exports' = Append(before, job) /\ mediaClips' = Append(mediaClips, clip)
        /\ SameRequest(job, new) /\ SoundRow(job, clip)
        /\ UNCHANGED told \/ told' = [told EXCEPT ![k] = @ \cup {a}]
  <2>1. CASE \E result \in Results(new, NoMedia) :
               /\ exports' = Append(before, result.job)
               /\ mediaClips' = Append(mediaClips, result.clip)
               /\ IF result.ok THEN Told(o, r, w, n) ELSE UNCHANGED told
    <3>1. PICK result \in Results(new, NoMedia) :
            /\ exports' = Append(before, result.job)
            /\ mediaClips' = Append(mediaClips, result.clip)
            /\ IF result.ok THEN Told(o, r, w, n) ELSE UNCHANGED told
      BY <2>1
    <3>2. /\ result.job \in ExportRows /\ result.clip \in MediaClips \cup {NoMedia}
          /\ SameRequest(result.job, new) /\ SoundRow(result.job, result.clip)
      <4> HIDE DEF new
      <4> QED
        BY <1>4, ResultRow
    <3>3. UNCHANGED told \/ told' = [told EXCEPT ![k] = @ \cup {a}]
      BY <3>1 DEF Told
    <3> HIDE DEF before, new, n, k, a
    <3> QED
      BY <3>1, <3>2, <3>3
  <2>2. CASE exports' = Append(before, new) /\ mediaClips' = Append(mediaClips, NoMedia) /\ UNCHANGED told
    <3>1. SameRequest(new, new)
      BY DEF SameRequest
    <3> HIDE DEF before, new, n, k, a
    <3> QED
      BY <1>4, <2>2, <3>1
  <2> QED
    BY <2>1, <2>2 DEF MakeJob
<1> HIDE DEF before, new, n, k, a
<1>7. PICK job \in ExportRows, clip \in MediaClips \cup {NoMedia} :
        /\ exports' = Append(before, job) /\ mediaClips' = Append(mediaClips, clip)
        /\ SameRequest(job, new) /\ SoundRow(job, clip)
        /\ UNCHANGED told \/ told' = [told EXCEPT ![k] = @ \cup {a}]
  BY <1>6
<1>8. /\ exports' \in Seq(ExportRows) /\ Len(exports') = n /\ exports'[n] = job
      /\ \A j \in DOMAIN exports : exports'[j] = before[j]
      /\ mediaClips' \in Seq(MediaClips \cup {NoMedia}) /\ Len(mediaClips') = n /\ mediaClips'[n] = clip
      /\ \A j \in DOMAIN exports : mediaClips'[j] = mediaClips[j]
  BY <1>1, <1>3, <1>5, <1>7 DEF ExportShape, n
<1>9. DOMAIN exports' = 1 .. n /\ n = Len(exports) + 1
  BY <1>5, <1>8 DEF n
<1>10. Len(exports') >= Len(exports) /\ \A j \in DOMAIN exports' : j \in DOMAIN exports \/ j = n
  BY <1>5, <1>8, <1>9
<1>11. \A j \in DOMAIN exports : SameRequest(exports'[j], exports[j])
  BY <1>3, <1>8
<1>12. \A j \in DOMAIN exports' : SoundRow(exports'[j], mediaClips'[j])
  BY <1>3, <1>7, <1>8, <1>10
<1>13. owed' \subseteq DOMAIN exports' /\ \A j \in owed' : exports'[j].retry
  <2>1. owed' = owed /\ owed \subseteq DOMAIN exports /\ \A j \in owed : exports[j].retry
    BY <1>1, <1>5 DEF ExportShape, RetryIsKept
  <2>2. DOMAIN exports \subseteq DOMAIN exports'
    BY <1>5, <1>9
  <2>3. \A j \in owed : exports'[j] = before[j] /\ before[j].retry = exports[j].retry
    BY <1>3, <1>8, <2>1
  <2> QED
    BY <2>1, <2>2, <2>3
<1>14. /\ aliases' \in [Owners \X Requests -> Nat] /\ aliases'[k] = n
       /\ \A i \in Owners \X Requests : i # k => aliases'[i] = aliases[i]
       /\ \A i \in Owners \X Requests : aliases[i] # 0 => aliases'[i] = aliases[i]
  BY <1>1, <1>5 DEF ExportShape
<1>15. job.owner = o /\ job.request = r /\ job.window = w
  BY <1>4, <1>7 DEF SameRequest
<1>16. /\ told' \in [Owners \X Requests -> SUBSET (Nat \X Windows)]
       /\ \A i \in Owners \X Requests : told'[i] \subseteq told[i] \/ (i = k /\ told'[i] \subseteq told[i] \cup {a})
  <2>1. told \in [Owners \X Requests -> SUBSET (Nat \X Windows)] /\ k \in Owners \X Requests
        /\ a \in Nat \X Windows
    BY <1>1, <1>5 DEF ExportShape
  <2>2. CASE UNCHANGED told
    BY <2>1, <2>2
  <2>3. CASE told' = [told EXCEPT ![k] = @ \cup {a}]
    BY <2>1, <2>3
  <2> QED
    BY <1>7, <2>2, <2>3
<1>17. ASSUME NEW p \in Owners, NEW q \in Requests, aliases[<<p, q>>] = 0, aliases'[<<p, q>>] # 0
       PROVE  aliases'[<<p, q>>] \in DOMAIN exports' /\ exports'[aliases'[<<p, q>>]].owner = p
  <2>1. <<p, q>> \in Owners \X Requests
    OBVIOUS
  <2>2. <<p, q>> = k
    BY <1>14, <1>17, <2>1
  <2>3. p = o
    BY <2>2 DEF k
  <2> QED
    BY <1>5, <1>8, <1>9, <1>14, <1>15, <2>2, <2>3
<1>18. ASSUME NEW p \in Owners, NEW q \in Requests, NEW answer \in told'[<<p, q>>],
              answer \notin told[<<p, q>>]
       PROVE  aliases'[<<p, q>>] # 0 /\ answer = <<aliases'[<<p, q>>], exports'[aliases'[<<p, q>>]].window>>
  <2>1. <<p, q>> \in Owners \X Requests
    OBVIOUS
  <2>2. <<p, q>> = k /\ answer = a
    BY <1>16, <1>18, <2>1
  <2> QED
    BY <1>5, <1>8, <1>14, <1>15, <2>2 DEF a
<1>19. ASSUME NEW j \in DOMAIN exports', j \notin DOMAIN exports
       PROVE  aliases'[<<exports'[j].owner, exports'[j].request>>] # 0
  <2>1. j = n
    BY <1>10, <1>19
  <2>2. <<exports'[j].owner, exports'[j].request>> = k
    BY <1>8, <1>15, <2>1 DEF k
  <2> QED
    BY <1>5, <1>14, <2>2
<1>20. source' \in MediaSources /\ Len(mediaClips') = Len(exports')
  BY <1>1, <1>5, <1>8 DEF ExportShape
<1> QED
  BY <1>8, <1>10, <1>11, <1>12, <1>13, <1>14, <1>16, <1>17, <1>18, <1>19, <1>20, ExportsGoOn

LEMMA ExportKept ==
    ASSUME ExportAssumption, ExportInv, [ExportNext]_exportVars
    PROVE  ExportInv'
<1>1. ASSUME NEW o \in Owners, NEW r \in Requests, NEW w \in Windows,
             ReadExport(o, r, w) \/ LookupExport(o, w)
      PROVE  ExportInv'
  BY <1>1, ReadsGoOn
<1>2. ASSUME NEW o \in Owners, NEW r \in Requests, NEW w \in Windows,
             ReuseJob(o, r, w) \/ RefreshFails(o, r, w) \/ MakeJob(o, r, w)
      PROVE  ExportInv'
  BY <1>2, ReuseGoesOn, MakeJobGoesOn
<1>3. ASSUME NEW o \in Owners, NEW r \in Requests, NEW w \in Windows, NEW retry \in BOOLEAN,
             RequestAgain(o, r, w, retry)
      PROVE  ExportInv'
  BY <1>3, RequestGoesOn
<1>4. ASSUME NEW j \in DOMAIN exports, WorkerDispatches(j) \/ ClipMoves(j)
      PROVE  ExportInv'
  BY <1>4, WorkerGoesOn, ClipMovesGoesOn
<1>5. ASSUME NEW s \in MediaSources, ChangeSource(s)
      PROVE  ExportInv'
  BY <1>5 DEF ChangeSource, ExportInv, ExportShape, RowsAreSound, NumbersAreBound, ToldOfBound, RetryIsKept
<1>6. ASSUME UNCHANGED exportVars
      PROVE  ExportInv'
  BY <1>6 DEF exportVars, ExportInv, ExportShape, RowsAreSound, NumbersAreBound, ToldOfBound, RetryIsKept
<1>7. CASE \E o \in Owners, w \in Windows : LookupExport(o, w)
  <2>1. PICK o \in Owners, w \in Windows : LookupExport(o, w)
    BY <1>7
  <2>2. PICK j \in DOMAIN exports : TRUE
    <3>1. Matching(o, w) # {} /\ Matching(o, w) \subseteq DOMAIN exports
      BY <2>1 DEF LookupExport, Matching
    <3> QED
      BY <3>1
  <2>3. exports[j].request \in Requests
    <3>1. exports[j] \in ExportRows
      BY <2>2 DEF ExportInv, ExportShape
    <3> QED
      BY <3>1 DEF ExportRows
  <2> QED
    BY <1>1, <2>1, <2>3
<1>8. CASE \E o \in Owners, r \in Requests, w \in Windows : RefuseNumber(o, r, w)
  BY <1>6, <1>8 DEF RefuseNumber
<1> QED
  BY <1>1, <1>2, <1>3, <1>4, <1>5, <1>6, <1>7, <1>8 DEF ExportNext

(* All answers under one number are about one job of its account and its   *)
(* window, and a retry that was asked for stays until the media service    *)
(* was sent it (request_export, process_job, apply_snapshot).              *)
THEOREM RequestsKept == ExportSpec => []RequestsAreKept
<1>1. ExportInit => ExportInv
  BY ExportAssumption, ExportInitially
<1>2. ExportInv /\ [ExportNext]_exportVars => ExportInv'
  BY ExportAssumption, ExportKept
<1>3. ExportInv => RequestsAreKept
  <2>1. SUFFICES ASSUME ExportInv PROVE RequestsAreKept
    OBVIOUS
  <2>2. NumbersAreBound /\ ToldOfBound /\ RetryIsKept
    BY <2>1 DEF ExportInv
  <2>3. ASSUME NEW o \in Owners, NEW r \in Requests
        PROVE  /\ Cardinality(told[<<o, r>>]) <= 1
               /\ \A answer \in told[<<o, r>>] :
                    exports[answer[1]].owner = o /\ exports[answer[1]].window = answer[2]
    <3> DEFINE j == aliases[<<o, r>>]
               a == <<j, exports[j].window>>
    <3>1. \A answer \in told[<<o, r>>] : j # 0 /\ answer = a
      BY <2>2 DEF ToldOfBound
    <3>2. j # 0 => exports[j].owner = o
      BY <2>2 DEF NumbersAreBound
    <3>3. a[1] = j /\ a[2] = exports[j].window
      OBVIOUS
    <3> HIDE DEF j, a
    <3>4. told[<<o, r>>] = {} \/ told[<<o, r>>] = {a}
      BY <3>1
    <3>5. Cardinality({}) = 0 /\ Cardinality({a}) = 1
      BY FS_EmptySet, FS_Singleton
    <3>6. Cardinality(told[<<o, r>>]) <= 1
      BY <3>4, <3>5
    <3> QED
      BY <3>1, <3>2, <3>3, <3>6
  <2> QED
    BY <2>2, <2>3 DEF RequestsKeepTheirClip, RequestsAreKept
<1> QED
  BY <1>1, <1>2, <1>3, PTL DEF ExportSpec

(* The job a request makes is the request's, and the last. *)
LEMMA MadeJob ==
    ASSUME ExportAssumption, ExportInv, NEW o \in Owners, NEW r \in Requests, NEW w \in Windows,
           MakeJob(o, r, w)
    PROVE  SameRequest(exports'[Len(exports')], NewExport(o, r, w))
<1> DEFINE before == RefreshedAll(Candidates(o, w))
           new    == NewExport(o, r, w)
<1>1. before \in Seq(ExportRows)
  <2>1. Candidates(o, w) \in SUBSET DOMAIN exports
    BY DEF Candidates, Matching
  <2> QED
    BY <2>1, RefreshedRows
<1>2. new \in ExportRows /\ SoundRow(new, NoMedia) /\ SameRequest(new, new)
  BY DEF ExportInv, NewExport, ExportRows, ExportShape, SoundRow, Underway, SameRequest
<1>3. \/ exports' = Append(before, new)
      \/ \E result \in Results(new, NoMedia) : exports' = Append(before, result.job)
  BY DEF MakeJob
<1> HIDE DEF before, new
<1>4. \A result \in Results(new, NoMedia) : result.job \in ExportRows /\ SameRequest(result.job, new)
  BY <1>2, ResultRow
<1>5. \E job \in ExportRows : exports' = Append(before, job) /\ SameRequest(job, new)
  BY <1>2, <1>3, <1>4
<1>6. SameRequest(exports'[Len(exports')], new)
  BY <1>1, <1>5
<1> QED
  BY <1>6 DEF new

(* No other step makes one. *)
LEMMA NoneMade ==
    ASSUME ExportInv, ExportNext,
           \A o \in Owners, r \in Requests, w \in Windows : ~MakeJob(o, r, w)
    PROVE  Len(exports') = Len(exports)
<1>1. exports \in Seq(ExportRows)
  BY DEF ExportInv, ExportShape
<1>2. \A j \in DOMAIN exports : \A job : Len([exports EXCEPT ![j] = job]) = Len(exports)
  BY <1>1
<1>3. \A S \in SUBSET DOMAIN exports : Len(RefreshedAll(S)) = Len(exports)
  BY RefreshedRows
<1>4. ASSUME NEW o \in Owners, NEW r \in Requests, NEW w \in Windows,
             ReuseJob(o, r, w) \/ RefreshFails(o, r, w)
      PROVE  Len(exports') = Len(exports)
  <2>1. PICK S \in SUBSET DOMAIN exports : exports' = RefreshedAll(S)
    BY <1>4 DEF ReuseJob, RefreshFails, Candidates, Matching
  <2> QED
    BY <1>3, <2>1
<1>5. ASSUME NEW o \in Owners, NEW w \in Windows, LookupExport(o, w)
      PROVE  Len(exports') = Len(exports)
  <2>1. Max(Matching(o, w)) \in DOMAIN exports
    BY <1>5, NewestJob DEF LookupExport, Matching
  <2> QED
    BY <1>2, <1>5, <2>1 DEF LookupExport
<1>6. ASSUME NEW o \in Owners, NEW r \in Requests, NEW w \in Windows, NEW retry \in BOOLEAN,
             ReadExport(o, r, w) \/ RequestAgain(o, r, w, retry)
      PROVE  Len(exports') = Len(exports)
  <2>1. Bound(o, r) # 0 => Bound(o, r) \in DOMAIN exports
    <3>1. aliases[<<o, r>>] # 0 => aliases[<<o, r>>] \in DOMAIN exports
      BY DEF ExportInv, NumbersAreBound
    <3> QED
      BY <3>1, BoundIsAlias
  <2>2. CASE ReadExport(o, r, w)
    BY <1>2, <2>1, <2>2 DEF ReadExport
  <2>3. CASE RequestAgain(o, r, w, retry)
    <3>1. Bound(o, r) \in DOMAIN exports
      BY <2>1, <2>3 DEF RequestAgain
    <3>2. \E job : exports' = [exports EXCEPT ![Bound(o, r)] = job]
      BY <2>3 DEF RequestAgain, Dispatch
    <3> QED
      BY <1>2, <3>1, <3>2
  <2> QED
    BY <1>6, <2>2, <2>3
<1>7. ASSUME NEW j \in DOMAIN exports, WorkerDispatches(j) \/ ClipMoves(j)
      PROVE  Len(exports') = Len(exports)
  BY <1>2, <1>7 DEF WorkerDispatches, ClipMoves
<1>8. ASSUME \/ \E s \in MediaSources : ChangeSource(s)
             \/ \E o \in Owners, r \in Requests, w \in Windows : RefuseNumber(o, r, w)
      PROVE  Len(exports') = Len(exports)
  BY <1>8 DEF ChangeSource, RefuseNumber, exportVars
<1> QED
  BY <1>4, <1>5, <1>6, <1>7, <1>8 DEF ExportNext

(* A new file is made only when no earlier job of the same account, window *)
(* and source stands for one that is made or can be downloaded, except one *)
(* that is blocked or waits for the answer to a retry (request_export,     *)
(* refresh_export).                                                        *)
THEOREM NoneNeedless == ExportSpec => NoNeedlessClip
<1>1. ExportInit => ExportInv
  BY ExportAssumption, ExportInitially
<1>2. ExportInv /\ [ExportNext]_exportVars => ExportInv'
  BY ExportAssumption, ExportKept
<1> DEFINE made == exports'[Len(exports')]
           Needed == \A j \in DOMAIN exports :
             /\ Len(exports') > Len(exports)
             /\ exports[j].owner = made.owner /\ exports[j].window = made.window
             /\ exports[j].source = made.source
             /\ exports[j].status # "blocked" /\ ~exports[j].retry
             => mediaClips[j] # NoMedia /\ mediaClips[j].status \in {"failed", "gone"}
<1>3. ExportInv /\ [ExportNext]_exportVars => [Needed]_exportVars
  <2>1. SUFFICES ASSUME ExportInv, ExportNext, NEW j \in DOMAIN exports, Len(exports') > Len(exports),
                        exports[j].owner = made.owner, exports[j].window = made.window,
                        exports[j].source = made.source,
                        exports[j].status # "blocked", ~exports[j].retry
                 PROVE  mediaClips[j] # NoMedia /\ mediaClips[j].status \in {"failed", "gone"}
    OBVIOUS
  <2>2. PICK o \in Owners, r \in Requests, w \in Windows : MakeJob(o, r, w)
    <3>1. Len(exports) \in Nat
      BY <2>1 DEF ExportInv, ExportShape
    <3>2. Len(exports') # Len(exports)
      BY <2>1, <3>1
    <3> QED
      BY <2>1, <3>2, NoneMade
  <2>3. made.owner = o /\ made.window = w /\ made.source = source
    BY <2>1, <2>2, ExportAssumption, MadeJob DEF SameRequest, NewExport
  <2>4. j \in Matching(o, w) /\ Serving(o, w) = {}
    BY <2>1, <2>2, <2>3 DEF Matching, MakeJob
  <2>5. /\ exports[j] \in ExportRows /\ SoundRow(exports[j], mediaClips[j])
        /\ mediaClips[j] \in MediaClips \cup {NoMedia}
    BY <2>1 DEF ExportInv, ExportShape, RowsAreSound
  <2>6. CASE exports[j].status \in Underway \cup {"ready"}
    <3>1. ~Reusable(Refreshed(j))
      BY <2>4, <2>6 DEF Serving, Candidates
    <3>2. Reusable(exports[j])
      BY <2>6 DEF Reusable
    <3>3. exports[j].clip /\ mediaClips[j] # NoMedia /\ Refreshed(j).status = mediaClips[j].status
      BY <2>1, <3>1, <3>2, RefreshedRow
    <3>4. mediaClips[j].status \notin Underway \cup {"ready"}
      BY <3>1, <3>3 DEF Reusable
    <3>5. mediaClips[j].status \in {"processing", "ready", "failed", "gone"}
      BY <2>5, <3>3 DEF MediaClips
    <3> QED
      BY <3>3, <3>4, <3>5 DEF Underway
  <2>7. CASE exports[j].status \in {"failed", "gone"}
    BY <2>1, <2>5, <2>7 DEF SoundRow
  <2> QED
    BY <2>1, <2>5, <2>6, <2>7 DEF ExportRows
<1> QED
  BY <1>1, <1>2, <1>3, PTL DEF ExportSpec, NoNeedlessClip

-----------------------------------------------------------------------------
(* CameraStatus: the inductive invariant. *)

SavedStatus == [binding : Bindings, status : Evidence \cup {Unknown},
                deadline : Int, refreshAt : Int, receivedAt : Int]
LastSeen    == [binding : Bindings, assessed : Int, deadline : Int]
ReaderStage == {"idle", "waiting", "fetching", "read"}
Readings    == [stage : ReaderStage, binding : Bindings \cup {NoBinding}, started : Int,
                status : Evidence \cup {Unknown}, receivedAt : Int, computed : Int]
Showings    == [status : Evidence, at : Int, source : Bindings]

CameraShape ==
    /\ steady \in Int /\ wall \in Int
    /\ bound \in Bindings /\ past \subseteq Bindings
    /\ cached \in SavedStatus \cup {Empty} /\ last \in LastSeen \cup {Empty}
    /\ reader \in [Readers -> Readings]
    /\ shows \in [Readers -> Showings \cup {Empty}]
    /\ firsts \subseteq [assessed : Int, started : Int]

(* A deadline lies within the lease of some answer, and of each that had   *)
(* the same assessment.                                                    *)
BackedBy(answers, assessed, deadline) ==
    /\ \E first \in answers : deadline <= first.started + Lease
    /\ \A first \in answers : first.assessed = assessed => deadline <= first.started + Lease

(* An assessment is no newer than the last. *)
KnownTo(seen, assessed) == seen # Empty /\ assessed <= seen.assessed

(* One request is on its way, and it began after every answer. *)
OneAsks ==
    /\ \A r, other \in Readers : Holds(r) /\ Holds(other) => r = other
    /\ past # {} => firsts = {}
    /\ \A first \in firsts :
         /\ first.started <= steady /\ KnownTo(last, first.assessed)
         /\ \A r \in Readers : Holds(r) => first.started <= reader[r].started

(* The rest holds of the source the process began with. *)
LastSound ==
    past = {} /\ last # Empty => last.binding = bound /\ BackedBy(firsts, last.assessed, last.deadline)

CacheSound ==
    cached # Empty =>
       /\ past = {} => cached.binding = bound
       /\ IsEvidence(cached.status) =>
            /\ cached.status.binding = cached.binding
            /\ past = {} => /\ last # Empty /\ cached.status.assessed = last.assessed
                            /\ BackedBy(firsts, cached.status.assessed, cached.deadline)

ReadingSound(r, read) ==
    /\ read.stage # "idle" => /\ read.binding \in Bindings
                              /\ past = {} => read.binding = bound
    /\ read.stage = "fetching" => read.started <= steady
    /\ IsEvidence(read.status) =>
         /\ read.status.binding = read.binding
         /\ past = {} =>
              /\ KnownTo(last, read.status.assessed)
              /\ BackedBy(firsts, read.status.assessed, read.receivedAt + read.status.validFor)
              /\ shows[r] # Empty => shows[r].status.assessed <= read.status.assessed

ShowingSound(show) ==
    show # Empty =>
       /\ show.status.binding = show.source
       /\ past = {} => /\ KnownTo(last, show.status.assessed)
                       /\ BackedBy(firsts, show.status.assessed, show.at + show.status.validFor)

AllSound == \A r \in Readers : ReadingSound(r, reader[r]) /\ ShowingSound(shows[r])

CameraInv == CameraShape /\ OneAsks /\ LastSound /\ CacheSound /\ AllSound

USE CameraAssumption

LEMMA LeastOf ==
    ASSUME NEW a \in Int, NEW b \in Int
    PROVE  Least(a, b) \in Int /\ Least(a, b) <= a /\ Least(a, b) <= b
  BY DEF Least

(* A step of one reader that keeps the answers, the cache and the clocks. *)
LEMMA ReaderStep ==
    ASSUME CameraInv, NEW r \in Readers, NEW read \in Readings,
           reader' = [reader EXCEPT ![r] = read], ReadingSound(r, read),
           read.stage = "fetching" => /\ \A other \in Readers : ~Holds(other)
                                      /\ read.started = steady,
           UNCHANGED <<steady, wall, sets, bound, past, cached, last, shows, firsts>>
    PROVE  CameraInv'
  <1>1. reader' \in [Readers -> Readings]
    BY DEF CameraInv, CameraShape
  <1>2. \A other \in Readers : reader'[other] = IF other = r THEN read ELSE reader[other]
    BY DEF CameraInv, CameraShape
  <1>3. CameraShape'
    BY <1>1 DEF CameraInv, CameraShape
  <1>4. OneAsks'
    <2>1. \A other \in Readers : Holds(other)' =>
             \/ other # r /\ Holds(other) /\ reader'[other] = reader[other]
             \/ other = r /\ read.stage = "fetching" /\ reader'[other] = read
      BY <1>2 DEF Holds
    <2> QED BY <2>1 DEF CameraInv, OneAsks, KnownTo
  <1>5. LastSound' /\ CacheSound'
    BY DEF CameraInv, LastSound, CacheSound, BackedBy
  <1>6. AllSound'
    <2>1. \A other \in Readers : ShowingSound(shows[other])'
      BY DEF CameraInv, AllSound, ShowingSound, BackedBy, KnownTo
    <2>2. \A other \in Readers : ReadingSound(other, reader[other])'
      <3> TAKE other \in Readers
      <3>1. ReadingSound(other, reader'[other])
        BY <1>2 DEF CameraInv, AllSound
      <3> QED BY <3>1 DEF ReadingSound, BackedBy, KnownTo
    <2> QED BY <2>1, <2>2 DEF AllSound
  <1> QED BY <1>3, <1>4, <1>5, <1>6 DEF CameraInv

(* What the cache holds, given again, is valid no longer than it was. *)
LEMMA CachedIsSound ==
    ASSUME NEW saved \in SavedStatus, steady \in Int, wall \in Int
    PROVE  /\ Cached(saved) \in Evidence \cup {Unknown}
           /\ IsEvidence(saved.status) =>
                /\ Cached(saved).binding = saved.status.binding
                /\ Cached(saved).assessed = saved.status.assessed
                /\ Cached(saved).validFor \in Int
                /\ steady + Cached(saved).validFor <= saved.deadline
           /\ IsEvidence(Cached(saved)) => IsEvidence(saved.status)
  <1>1. CASE IsEvidence(saved.status)
    <2>1. saved.status \in Evidence /\ saved.deadline \in Int
      BY <1>1 DEF SavedStatus, IsEvidence
    <2> DEFINE n == Least(saved.deadline - steady, saved.status.validUntil - wall)
    <2>2. n \in Int /\ n <= saved.deadline - steady
      <3>1. saved.deadline - steady \in Int /\ saved.status.validUntil - wall \in Int
        BY <2>1 DEF Evidence
      <3> QED BY <3>1, LeastOf
    <2>3. Cached(saved) = [saved.status EXCEPT !.validFor = n]
      BY <1>1 DEF Cached, RenewedStatus
    <2> HIDE DEF n
    <2>4. /\ Cached(saved) \in Evidence /\ Cached(saved).binding = saved.status.binding
          /\ Cached(saved).assessed = saved.status.assessed /\ Cached(saved).validFor = n
      BY <2>1, <2>2, <2>3 DEF Evidence
    <2>5. steady + n <= saved.deadline
      BY <2>1, <2>2
    <2> QED BY <1>1, <2>2, <2>4, <2>5
  <1>2. CASE ~IsEvidence(saved.status)
    BY <1>2 DEF Cached, IsEvidence
  <1> QED BY <1>1, <1>2

(* The cache answers a reader. *)
LEMMA CachedReading ==
    ASSUME CameraInv, NEW r \in Readers, NEW binding \in Bindings,
           past = {} => binding = bound, IsCurrent(cached, binding),
           NEW read \in Readings, read.stage = "read", read.binding = binding,
           read.status = Cached(cached), read.receivedAt = steady
    PROVE  ReadingSound(r, read)
  <1>1. cached \in SavedStatus /\ cached.binding = binding /\ cached # Empty
    BY DEF IsCurrent, CameraInv, CameraShape
  <1>2. steady \in Int /\ wall \in Int
    BY DEF CameraInv, CameraShape
  <1>3. /\ Cached(cached) \in Evidence \cup {Unknown}
        /\ IsEvidence(cached.status) =>
              /\ Cached(cached).binding = cached.status.binding
              /\ Cached(cached).assessed = cached.status.assessed
              /\ Cached(cached).validFor \in Int
              /\ steady + Cached(cached).validFor <= cached.deadline
        /\ IsEvidence(Cached(cached)) => IsEvidence(cached.status)
    BY <1>1, <1>2, CachedIsSound
  <1> SUFFICES ASSUME IsEvidence(read.status)
               PROVE  /\ read.status.binding = read.binding
                      /\ past = {} =>
                           /\ KnownTo(last, read.status.assessed)
                           /\ BackedBy(firsts, read.status.assessed, read.receivedAt + read.status.validFor)
                           /\ shows[r] # Empty => shows[r].status.assessed <= read.status.assessed
    BY DEF ReadingSound
  <1>4. IsEvidence(cached.status)
    BY <1>3
  <1>5. read.status.binding = read.binding
    BY <1>1, <1>3, <1>4 DEF CameraInv, CacheSound
  <1>6. ASSUME past = {}
        PROVE  /\ KnownTo(last, read.status.assessed)
               /\ BackedBy(firsts, read.status.assessed, read.receivedAt + read.status.validFor)
               /\ shows[r] # Empty => shows[r].status.assessed <= read.status.assessed
    <2>1. /\ last # Empty /\ cached.status.assessed = last.assessed
          /\ BackedBy(firsts, cached.status.assessed, cached.deadline)
      BY <1>1, <1>4, <1>6 DEF CameraInv, CacheSound
    <2>2. last.assessed \in Int /\ cached.deadline \in Int
      BY <1>1, <2>1 DEF CameraInv, CameraShape, LastSeen, SavedStatus
    <2>3. KnownTo(last, read.status.assessed)
      BY <1>3, <1>4, <2>1, <2>2 DEF KnownTo
    <2>4. \A first \in firsts : first.started \in Int
      BY DEF CameraInv, CameraShape
    <2>5. BackedBy(firsts, read.status.assessed, read.receivedAt + read.status.validFor)
      <3> DEFINE n == Cached(cached).validFor
      <3>1. n \in Int /\ steady + n <= cached.deadline
        BY <1>3, <1>4
      <3> HIDE DEF n
      <3>2. \A first \in firsts : cached.deadline <= first.started + Lease
                                     => steady + n <= first.started + Lease
        BY <1>2, <2>2, <2>4, <3>1
      <3>3. BackedBy(firsts, cached.status.assessed, steady + n)
        BY <2>1, <3>2 DEF BackedBy
      <3> QED BY <1>3, <1>4, <3>3 DEF n
    <2>6. shows[r] # Empty => KnownTo(last, shows[r].status.assessed)
      BY <1>6 DEF CameraInv, AllSound, ShowingSound
    <2> QED BY <1>3, <1>4, <2>1, <2>3, <2>5, <2>6 DEF KnownTo
  <1> QED BY <1>5, <1>6

LEMMA AtRestType == AtRest \in Readings /\ AtRest.stage = "idle" /\ AtRest.status = Unknown
  BY DEF AtRest, Readings, ReaderStage

LEMMA CameraInitInv == CameraInit => CameraInv
  <1> SUFFICES ASSUME CameraInit PROVE CameraInv
    OBVIOUS
  <1> USE DEF CameraInit
  <1>1. bound \in Bindings
    OBVIOUS
  <1>2. AtRest \in Readings /\ AtRest.stage = "idle" /\ AtRest.status = Unknown
    BY AtRestType
  <1>3. CameraShape
    BY <1>1, <1>2 DEF CameraShape
  <1>4. AllSound
    BY <1>2 DEF AllSound, ReadingSound, ShowingSound, IsEvidence
  <1>5. OneAsks
    BY <1>2 DEF OneAsks, Holds
  <1> QED BY <1>3, <1>4, <1>5 DEF CameraInv, LastSound, CacheSound

(* A reader whose request failed, or that only waits, knows nothing. *)
LEMMA NothingKnown ==
    ASSUME CameraInv, NEW r \in Readers, NEW read \in Readings, read.status = Unknown,
           read.stage # "idle" => /\ read.binding \in Bindings
                                  /\ past = {} => read.binding = bound,
           read.stage = "fetching" => read.started = steady
    PROVE  ReadingSound(r, read)
  BY DEF ReadingSound, IsEvidence, CameraInv, CameraShape

LEMMA ReadInv == ASSUME CameraInv, NEW r \in Readers, Read(r) PROVE CameraInv'
  <1>1. /\ bound \in Bindings /\ steady \in Int /\ wall \in Int
        /\ cached \in SavedStatus \cup {Empty}
        /\ UNCHANGED <<steady, wall, sets, bound, past, cached, last, shows, firsts>>
    BY DEF CameraInv, CameraShape, Read
  <1>2. CASE IsCurrent(cached, bound)
    <2> DEFINE read == [AtRest EXCEPT !.stage = "read", !.binding = bound,
                                      !.status = Cached(cached),
                                      !.receivedAt = steady, !.computed = wall]
    <2>1. reader' = [reader EXCEPT ![r] = read]
      BY <1>2 DEF Read
    <2>2. Cached(cached) \in Evidence \cup {Unknown}
      BY <1>1, <1>2, CachedIsSound DEF IsCurrent
    <2>3. /\ read \in Readings /\ read.stage = "read" /\ read.binding = bound
          /\ read.status = Cached(cached) /\ read.receivedAt = steady
      BY <1>1, <2>2, AtRestType DEF Readings, ReaderStage
    <2> HIDE DEF read
    <2>4. ReadingSound(r, read)
      BY <1>1, <1>2, <2>3, CachedReading
    <2> QED BY <1>1, <2>1, <2>3, <2>4, ReaderStep
  <1>3. CASE ~IsCurrent(cached, bound)
    <2> DEFINE read == [AtRest EXCEPT !.stage = "waiting", !.binding = bound]
    <2>1. reader' = [reader EXCEPT ![r] = read]
      BY <1>3 DEF Read
    <2>2. /\ read \in Readings /\ read.stage = "waiting" /\ read.binding = bound
          /\ read.status = Unknown
      BY <1>1, AtRestType DEF Readings, ReaderStage
    <2> HIDE DEF read
    <2>3. ReadingSound(r, read)
      BY <1>1, <2>2, NothingKnown
    <2> QED BY <1>1, <2>1, <2>2, <2>3, ReaderStep
  <1> QED BY <1>2, <1>3

(* Answered, with a status of this moment. *)
LEMMA AnsweredReading ==
    ASSUME CameraInv, NEW r \in Readers, reader[r].stage # "idle",
           NEW status \in Evidence \cup {Unknown}, Answered(r, status)
    PROVE  \E read \in Readings :
              /\ reader' = [reader EXCEPT ![r] = read]
              /\ read.stage = "read" /\ read.binding = reader[r].binding
              /\ read.status = status /\ read.receivedAt = steady
              /\ read.binding \in Bindings /\ (past = {} => read.binding = bound)
  <1> DEFINE read == [reader[r] EXCEPT !.stage = "read", !.status = status,
                                       !.receivedAt = steady, !.computed = wall]
  <1>1. reader[r] \in Readings /\ steady \in Int /\ wall \in Int
    BY DEF CameraInv, CameraShape
  <1>2. reader' = [reader EXCEPT ![r] = read]
    BY DEF Answered
  <1>3. /\ read \in Readings /\ read.stage = "read" /\ read.binding = reader[r].binding
        /\ read.status = status /\ read.receivedAt = steady
    BY <1>1 DEF Readings, ReaderStage
  <1>4. reader[r].binding \in Bindings /\ (past = {} => reader[r].binding = bound)
    BY DEF CameraInv, AllSound, ReadingSound
  <1> HIDE DEF read
  <1> QED BY <1>2, <1>3, <1>4

LEMMA EnterLockInv == ASSUME CameraInv, NEW r \in Readers, EnterLock(r) PROVE CameraInv'
  <1>1. /\ reader[r] \in Readings /\ steady \in Int /\ wall \in Int
        /\ cached \in SavedStatus \cup {Empty}
        /\ reader[r].stage = "waiting" /\ \A other \in Readers : ~Holds(other)
        /\ UNCHANGED <<steady, wall, sets, bound, past, cached, last, shows, firsts>>
    BY DEF CameraInv, CameraShape, EnterLock
  <1>2. CASE IsCurrent(cached, reader[r].binding)
    <2>1. Cached(cached) \in Evidence \cup {Unknown}
      BY <1>1, <1>2, CachedIsSound DEF IsCurrent
    <2>2. Answered(r, Cached(cached))
      BY <1>2 DEF EnterLock
    <2>3. PICK read \in Readings :
              /\ reader' = [reader EXCEPT ![r] = read]
              /\ read.stage = "read" /\ read.binding = reader[r].binding
              /\ read.status = Cached(cached) /\ read.receivedAt = steady
              /\ read.binding \in Bindings /\ (past = {} => read.binding = bound)
      BY <1>1, <2>1, <2>2, AnsweredReading
    <2>4. ReadingSound(r, read)
      BY <1>2, <2>3, CachedReading
    <2> QED BY <1>1, <2>3, <2>4, ReaderStep
  <1>3. CASE ~IsCurrent(cached, reader[r].binding)
    <2> DEFINE read == [reader[r] EXCEPT !.stage = "fetching", !.started = steady]
    <2>1. reader' = [reader EXCEPT ![r] = read]
      BY <1>3 DEF EnterLock
    <2>2. /\ read \in Readings /\ read.stage = "fetching" /\ read.started = steady
          /\ read.binding = reader[r].binding /\ read.status = reader[r].status
          /\ read.receivedAt = reader[r].receivedAt
      BY <1>1 DEF Readings, ReaderStage
    <2> HIDE DEF read
    <2>3. ReadingSound(r, reader[r])
      BY DEF CameraInv, AllSound
    <2>4. ReadingSound(r, read)
      BY <1>1, <2>2, <2>3 DEF ReadingSound
    <2> QED BY <1>1, <2>1, <2>2, <2>4, ReaderStep
  <1> QED BY <1>2, <1>3

LEMMA BusyInv == ASSUME CameraInv, NEW r \in Readers, Busy(r) PROVE CameraInv'
  <1>1. /\ reader[r].stage # "idle" /\ Answered(r, Unknown)
        /\ UNCHANGED <<steady, wall, sets, bound, past, cached, last, shows, firsts>>
    BY DEF Busy
  <1>2. PICK read \in Readings :
            /\ reader' = [reader EXCEPT ![r] = read]
            /\ read.stage = "read" /\ read.binding = reader[r].binding
            /\ read.status = Unknown /\ read.receivedAt = steady
            /\ read.binding \in Bindings /\ (past = {} => read.binding = bound)
    BY <1>1, AnsweredReading
  <1>3. ReadingSound(r, read)
    BY <1>2, NothingKnown
  <1> QED BY <1>1, <1>2, <1>3, ReaderStep

(* What is delivered is what was read, valid no longer than it was. *)
LEMMA DeliveredIsSound ==
    ASSUME CameraInv, NEW r \in Readers, IsEvidence(Delivered(reader[r]))
    PROVE  /\ IsEvidence(reader[r].status) /\ bound = reader[r].binding
           /\ Delivered(reader[r]) \in Evidence
           /\ Delivered(reader[r]).binding = reader[r].status.binding
           /\ Delivered(reader[r]).assessed = reader[r].status.assessed
           /\ Delivered(reader[r]).validFor \in Int
           /\ steady + Delivered(reader[r]).validFor
                 <= reader[r].receivedAt + reader[r].status.validFor
  <1> DEFINE read == reader[r]
             n == Remaining(read)
  <1>1. /\ read \in Readings /\ steady \in Int /\ wall \in Int
    BY DEF CameraInv, CameraShape
  <1>2. bound = read.binding
    BY DEF Delivered, IsEvidence
  <1>3. wall >= read.computed
    BY <1>1, <1>2 DEF Delivered, IsEvidence, Readings
  <1>4. IsEvidence(read.status) /\ Delivered(read) = [read.status EXCEPT !.validFor = n]
    BY <1>2, <1>3 DEF Delivered, IsEvidence
  <1>5. read.status \in Evidence /\ read.receivedAt \in Int
    BY <1>1, <1>4 DEF Readings, IsEvidence
  <1>6. n \in Int /\ n <= read.status.validFor - (steady - read.receivedAt)
    <2>1. /\ read.status.validFor - (steady - read.receivedAt) \in Int
          /\ read.status.validUntil - wall \in Int
      BY <1>1, <1>5 DEF Evidence
    <2> HIDE DEF read
    <2> QED BY <2>1, LeastOf DEF Remaining
  <1>7. read.status.validFor \in Int
    BY <1>5 DEF Evidence
  <1> HIDE DEF n
  <1>8. /\ Delivered(read) \in Evidence /\ Delivered(read).validFor = n
        /\ Delivered(read).binding = read.status.binding
        /\ Delivered(read).assessed = read.status.assessed
    BY <1>4, <1>5, <1>6 DEF Evidence
  <1>9. steady + n <= read.receivedAt + read.status.validFor
    BY <1>1, <1>5, <1>6, <1>7
  <1> QED BY <1>2, <1>4, <1>6, <1>8, <1>9

(* A delivery, and what is remembered of it. *)
LEMMA DeliveryIsSound ==
    ASSUME CameraInv, NEW r \in Readers, IsEvidence(Delivered(reader[r])),
           NEW show, show = [status |-> Delivered(reader[r]), at |-> steady, source |-> bound]
    PROVE  /\ show \in Showings /\ show # Empty /\ ShowingSound(show)
           /\ past = {} /\ shows[r] # Empty
                 => shows[r].status.assessed <= show.status.assessed
  <1> DEFINE status == Delivered(reader[r])
             given  == reader[r].status
  <1>1. /\ IsEvidence(given) /\ bound = reader[r].binding
        /\ status \in Evidence /\ status.binding = given.binding
        /\ status.assessed = given.assessed /\ status.validFor \in Int
        /\ steady + status.validFor <= reader[r].receivedAt + given.validFor
    BY DeliveredIsSound
  <1>2. steady \in Int /\ bound \in Bindings /\ reader[r] \in Readings
    BY DEF CameraInv, CameraShape
  <1>3. reader[r].receivedAt + given.validFor \in Int
    BY <1>1, <1>2 DEF Readings, Evidence, IsEvidence
  <1>4. ReadingSound(r, reader[r])
    BY DEF CameraInv, AllSound
  <1> HIDE DEF status
  <1>5. /\ show \in Showings /\ show # Empty
        /\ show.status = status /\ show.at = steady /\ show.source = bound
    BY <1>1, <1>2 DEF Showings, status
  <1>6. status.binding = bound
    BY <1>1, <1>4 DEF ReadingSound
  <1>7. ASSUME past = {}
        PROVE  /\ KnownTo(last, status.assessed) /\ BackedBy(firsts, status.assessed, steady + status.validFor)
               /\ shows[r] # Empty => shows[r].status.assessed <= status.assessed
    <2>1. /\ KnownTo(last, given.assessed)
          /\ BackedBy(firsts, given.assessed, reader[r].receivedAt + given.validFor)
          /\ shows[r] # Empty => shows[r].status.assessed <= given.assessed
      BY <1>1, <1>4, <1>7 DEF ReadingSound
    <2> DEFINE d == reader[r].receivedAt + given.validFor
               e == steady + status.validFor
    <2>2. d \in Int /\ e \in Int /\ e <= d
      BY <1>1, <1>2, <1>3
    <2>3. \A first \in firsts : first.started \in Int
      BY DEF CameraInv, CameraShape
    <2>4. BackedBy(firsts, given.assessed, d)
      BY <2>1
    <2> HIDE DEF d, e
    <2>5. \A first \in firsts : d <= first.started + Lease => e <= first.started + Lease
      BY <2>2, <2>3
    <2>6. BackedBy(firsts, given.assessed, e)
      BY <2>4, <2>5 DEF BackedBy
    <2> QED BY <1>1, <2>1, <2>6 DEF e
  <1> QED BY <1>5, <1>6, <1>7 DEF ShowingSound

LEMMA DeliverInv == ASSUME CameraInv, NEW r \in Readers, Deliver(r) PROVE CameraInv'
  <1> DEFINE status == Delivered(reader[r])
             show == [status |-> status, at |-> steady, source |-> bound]
  <1>1. /\ reader' = [reader EXCEPT ![r] = AtRest]
        /\ UNCHANGED <<steady, wall, sets, bound, past, cached, last, firsts>>
    BY DEF Deliver
  <1>2. AtRest \in Readings /\ AtRest.stage = "idle" /\ AtRest.status = Unknown
    BY AtRestType
  <1>3. \A other \in Readers : reader'[other] = IF other = r THEN AtRest ELSE reader[other]
    BY <1>1 DEF CameraInv, CameraShape
  <1>4. /\ shows' \in [Readers -> Showings \cup {Empty}]
        /\ \A other \in Readers : ShowingSound(shows'[other])
        /\ \A other \in Readers : other # r => shows'[other] = shows[other]
    <2>1. CASE IsEvidence(status)
      <3>1. shows' = [shows EXCEPT ![r] = show]
        BY <2>1 DEF Deliver
      <3>2. show \in Showings /\ ShowingSound(show)
        BY <2>1, DeliveryIsSound
      <3> HIDE DEF show
      <3>3. shows \in [Readers -> Showings \cup {Empty}] /\ \A o \in Readers : ShowingSound(shows[o])
        BY DEF CameraInv, CameraShape, AllSound
      <3> QED BY <3>1, <3>2, <3>3
    <2>2. CASE ~IsEvidence(status)
      <3>1. shows' = shows
        BY <2>2 DEF Deliver
      <3> QED BY <3>1 DEF CameraInv, CameraShape, AllSound
    <2> QED BY <2>1, <2>2
  <1>5. CameraShape'
    <2>1. reader' \in [Readers -> Readings]
      BY <1>1, <1>2 DEF CameraInv, CameraShape
    <2> QED BY <1>1, <1>4, <2>1 DEF CameraInv, CameraShape
  <1>6. OneAsks'
    <2>1. \A other \in Readers : Holds(other)' => Holds(other) /\ reader'[other] = reader[other]
      BY <1>2, <1>3 DEF Holds
    <2> QED BY <1>1, <2>1 DEF CameraInv, OneAsks, KnownTo
  <1>7. LastSound' /\ CacheSound'
    BY <1>1 DEF CameraInv, LastSound, CacheSound, BackedBy
  <1>8. AllSound'
    <2>1. \A other \in Readers : ShowingSound(shows[other])'
      BY <1>1, <1>4 DEF ShowingSound, BackedBy, KnownTo
    <2>2. \A other \in Readers : ReadingSound(other, reader[other])'
      <3> TAKE other \in Readers
      <3>1. CASE other = r
        BY <1>2, <1>3, <3>1 DEF ReadingSound, IsEvidence
      <3>2. CASE other # r
        <4>1. ReadingSound(other, reader'[other]) /\ shows'[other] = shows[other]
          BY <1>3, <1>4, <3>2 DEF CameraInv, AllSound
        <4> QED BY <1>1, <4>1 DEF ReadingSound, BackedBy, KnownTo
      <3> QED BY <3>1, <3>2
    <2> QED BY <2>1, <2>2 DEF AllSound
  <1> QED BY <1>5, <1>6, <1>7, <1>8 DEF CameraInv

(* The lease an answer is given: no longer than from its own request, nor  *)
(* than from an earlier one that had the same assessment.                  *)
LEMMA DeadlineOf ==
    ASSUME CameraInv, NEW binding \in Bindings, NEW assessed \in Int, NEW started \in Int
    PROVE  /\ Deadline(binding, assessed, started) \in Int
           /\ Deadline(binding, assessed, started) <= started + Lease
           /\ last # Empty /\ last.binding = binding /\ last.assessed = assessed
                 => Deadline(binding, assessed, started) <= last.deadline
  <1> DEFINE a == assessed + Lease - wall
             b == Lease - (steady - started)
             d == DeadlineOfAnswer(binding, assessed, started)
  <1>1. steady \in Int /\ wall \in Int /\ Lease \in Int
    BY DEF CameraInv, CameraShape
  <1>2. a \in Int /\ b \in Int
    BY <1>1
  <1> HIDE DEF a
  <1>3. Least(a, b) \in Int /\ Least(a, b) <= b
    BY <1>2, LeastOf
  <1>4. d = steady + Least(a, b)
    BY DEF DeadlineOfAnswer, a
  <1>5. d \in Int /\ d <= started + Lease
    <2> DEFINE n == Least(a, b)
    <2>1. n \in Int /\ n <= Lease - (steady - started) /\ d = steady + n
      BY <1>3, <1>4
    <2> HIDE DEF n, d
    <2> QED BY <1>1, <2>1
  <1> HIDE DEF d
  <1>6. CASE last # Empty /\ last.binding = binding /\ last.assessed = assessed
    <2>1. last.deadline \in Int
      BY <1>6 DEF CameraInv, CameraShape, LastSeen
    <2>2. Deadline(binding, assessed, started) = Least(d, last.deadline)
      BY <1>6 DEF Deadline, d
    <2>3. /\ Least(d, last.deadline) \in Int /\ Least(d, last.deadline) <= d
          /\ Least(d, last.deadline) <= last.deadline
      BY <1>5, <2>1, LeastOf
    <2>4. started + Lease \in Int
      BY <1>1
    <2> DEFINE n == Least(d, last.deadline)
    <2>5. n \in Int /\ n <= d /\ n <= last.deadline
      BY <2>3
    <2> HIDE DEF n
    <2>6. n <= started + Lease
      BY <1>5, <2>4, <2>5
    <2> QED BY <2>2, <2>5, <2>6 DEF n
  <1>7. CASE ~(last # Empty /\ last.binding = binding /\ last.assessed = assessed)
    <2>1. Deadline(binding, assessed, started) = d
      BY <1>7 DEF Deadline, d
    <2> QED BY <1>5, <1>7, <2>1
  <1> QED BY <1>6, <1>7

(* An accepted answer of the first source. *)
LEMMA AcceptedIsSound ==
    ASSUME CameraInv, NEW r \in Readers, Holds(r), past = {}, NEW assessed \in Int,
           NEW deadline, deadline = Deadline(reader[r].binding, assessed, reader[r].started),
           Accepts(reader[r].binding, assessed, reader[r].started),
           last' = [binding |-> reader[r].binding, assessed |-> assessed, deadline |-> deadline],
           firsts' = firsts \cup {[assessed |-> assessed, started |-> reader[r].started]}
    PROVE  /\ BackedBy(firsts', assessed, deadline) /\ last' \in LastSeen
           /\ \A a, d \in Int : BackedBy(firsts, a, d) => BackedBy(firsts', a, d)
           /\ \A a \in Int : KnownTo(last, a) => KnownTo(last', a)
  <1> DEFINE b == reader[r].binding
             s == reader[r].started
             f == [assessed |-> assessed, started |-> s]
  <1>1. /\ b \in Bindings /\ b = bound /\ s \in Int
        /\ firsts \subseteq [assessed : Int, started : Int]
        /\ last \in LastSeen \cup {Empty} /\ Lease \in Int
    BY DEF CameraInv, CameraShape, AllSound, ReadingSound, Holds, Readings
  <1>2. /\ deadline \in Int /\ deadline <= s + Lease
        /\ last # Empty /\ last.binding = b /\ last.assessed = assessed
              => deadline <= last.deadline
    BY <1>1, DeadlineOf
  <1>3. last # Empty => last.binding = b /\ last.assessed <= assessed
    BY <1>1 DEF CameraInv, LastSound, Accepts, LastSeen
  <1>4. \A first \in firsts : /\ first.started <= s /\ first.started \in Int
                              /\ KnownTo(last, first.assessed) /\ first.assessed \in Int
    BY <1>1 DEF CameraInv, OneAsks
  <1>5. firsts' = firsts \cup {f} /\ f.started = s /\ f.assessed = assessed
    OBVIOUS
  <1>6. last' # Empty /\ last'.assessed = assessed /\ last' \in LastSeen
    <2>1. last' \in LastSeen
      BY <1>1, <1>2 DEF LastSeen
    <2> QED BY <2>1 DEF LastSeen
  <1>7. last # Empty => last.assessed \in Int /\ last.deadline \in Int
    BY <1>1 DEF LastSeen
  <1> HIDE DEF f, b, s
  <1>8. ASSUME NEW first \in firsts', first.assessed = assessed
        PROVE  deadline <= first.started + Lease
    <2>1. CASE first = f
      BY <1>2, <1>5, <2>1
    <2>2. CASE first \in firsts
      <3>1. last # Empty /\ assessed <= last.assessed
        BY <1>4, <1>8, <2>2 DEF KnownTo
      <3>2. last.binding = b /\ last.assessed = assessed
        BY <1>3, <1>7, <3>1
      <3>3. deadline <= last.deadline
        BY <1>2, <3>1, <3>2
      <3>4. last.deadline <= first.started + Lease
        BY <1>8, <2>2, <3>1, <3>2 DEF CameraInv, LastSound, BackedBy
      <3>5. first.started \in Int
        BY <1>4, <2>2
      <3> QED BY <1>1, <1>2, <1>7, <3>1, <3>3, <3>4, <3>5
    <2> QED BY <1>5, <2>1, <2>2
  <1>9. BackedBy(firsts', assessed, deadline)
    <2>1. f \in firsts' /\ deadline <= f.started + Lease
      BY <1>2, <1>5
    <2> QED BY <1>8, <2>1 DEF BackedBy
  <1>10. ASSUME NEW a \in Int, NEW d \in Int, BackedBy(firsts, a, d) PROVE BackedBy(firsts', a, d)
    <2>1. PICK g \in firsts : d <= g.started + Lease
      BY <1>10 DEF BackedBy
    <2>2. d <= f.started + Lease
      <3>1. g.started \in Int /\ g.started <= s
        BY <1>4
      <3> QED BY <1>1, <1>5, <2>1, <3>1
    <2>3. \A first \in firsts' : first.assessed = a => d <= first.started + Lease
      BY <1>5, <1>10, <2>2 DEF BackedBy
    <2>4. g \in firsts'
      BY <1>5
    <2> QED BY <2>1, <2>3, <2>4 DEF BackedBy
  <1>11. ASSUME NEW a \in Int, KnownTo(last, a) PROVE KnownTo(last', a)
    <2>1. last # Empty /\ a <= last.assessed
      BY <1>11 DEF KnownTo
    <2>2. a <= assessed
      BY <1>3, <1>7, <2>1
    <2> QED BY <1>6, <2>2 DEF KnownTo
  <1> QED BY <1>6, <1>9, <1>10, <1>11

(* What a reader is given of what was just saved. *)
LEMMA ObserveInv ==
    ASSUME CameraInv, NEW r \in Readers, NEW fails \in BOOLEAN, NEW assessed \in Int,
           Observe(r, fails, assessed)
    PROVE  CameraInv'
  <1> DEFINE b == reader[r].binding
             s == reader[r].started
             accepted == ~fails /\ Accepts(b, assessed, s)
             d == Deadline(b, assessed, s)
             known == [binding |-> b, assessed |-> assessed,
                       validUntil |-> wall + d - steady, validFor |-> d - steady]
             status == IF accepted THEN known ELSE Unknown
             saved == Saved(r, status, IF accepted THEN d ELSE steady)
             given == IF bound = b /\ IsCurrent(saved, b) THEN Cached(saved) ELSE Unknown
  <1>1. /\ Holds(r) /\ reader[r] \in Readings /\ b \in Bindings /\ s \in Int
        /\ past = {} => b = bound
        /\ steady \in Int /\ wall \in Int /\ RefreshTime \in Int
        /\ UNCHANGED <<steady, wall, sets, bound, past, shows>>
    BY DEF Observe, CameraInv, CameraShape, AllSound, ReadingSound, Holds, Readings
  <1>2. d \in Int
    BY <1>1, DeadlineOf
  <1>3. known \in Evidence /\ known # Unknown
    BY <1>1, <1>2 DEF Evidence
  <1>4. /\ last' = IF accepted THEN [binding |-> b, assessed |-> assessed, deadline |-> d]
                   ELSE last
        /\ firsts' = IF accepted /\ past = {}
                       THEN firsts \cup {[assessed |-> assessed, started |-> s]} ELSE firsts
        /\ cached' = IF bound # b THEN Empty ELSE saved
        /\ Answered(r, given)
    BY DEF Observe
  <1>5. /\ saved \in SavedStatus /\ saved.binding = b /\ saved.status = status
        /\ accepted => saved.deadline = d
    <2> DEFINE dd == IF accepted THEN d ELSE steady
               refresh == IF IsEvidence(status) THEN Least(steady + RefreshTime, dd)
                          ELSE steady + RefreshTime
    <2>1. dd \in Int
      BY <1>1, <1>2
    <2>2. refresh \in Int
      <3>1. steady + RefreshTime \in Int
        BY <1>1
      <3> DEFINE sum == steady + RefreshTime
      <3> HIDE DEF sum, dd, status
      <3>2. sum \in Int
        BY <3>1 DEF sum
      <3>3. Least(sum, dd) \in Int
        BY <2>1, <3>2, LeastOf
      <3> QED BY <3>2, <3>3 DEF sum
    <2>3. status \in Evidence \cup {Unknown}
      BY <1>3
    <2> HIDE DEF refresh, status
    <2>4. saved = [binding |-> b, status |-> status, deadline |-> dd,
                   refreshAt |-> refresh, receivedAt |-> wall]
      BY DEF Saved, refresh
    <2> QED BY <1>1, <2>1, <2>2, <2>3, <2>4 DEF SavedStatus
  <1>6. IsEvidence(status) <=> accepted
    BY <1>3 DEF IsEvidence
  <1>7. accepted => status = known /\ known.binding = b /\ known.assessed = assessed
    OBVIOUS
  <1> HIDE DEF known, saved, status
  <1>8. /\ given \in Evidence \cup {Unknown}
        /\ IsEvidence(given) =>
             /\ accepted /\ given.binding = b /\ given.assessed = assessed
             /\ given.validFor \in Int /\ steady + given.validFor <= d
    <2>1. CASE bound = b /\ IsCurrent(saved, b)
      <3>1. given = Cached(saved)
        BY <2>1
      <3>2. /\ Cached(saved) \in Evidence \cup {Unknown}
            /\ IsEvidence(saved.status) =>
                 /\ Cached(saved).binding = saved.status.binding
                 /\ Cached(saved).assessed = saved.status.assessed
                 /\ Cached(saved).validFor \in Int
                 /\ steady + Cached(saved).validFor <= saved.deadline
            /\ IsEvidence(Cached(saved)) => IsEvidence(saved.status)
        BY <1>1, <1>5, CachedIsSound
      <3> HIDE DEF given, accepted, d
      <3> QED BY <1>5, <1>6, <1>7, <3>1, <3>2
    <2>2. CASE ~(bound = b /\ IsCurrent(saved, b))
      BY <2>2 DEF IsEvidence
    <2> QED BY <2>1, <2>2
  <1>9. PICK read \in Readings :
            /\ reader' = [reader EXCEPT ![r] = read]
            /\ read.stage = "read" /\ read.binding = b
            /\ read.status = given /\ read.receivedAt = steady
            /\ read.binding \in Bindings /\ (past = {} => read.binding = bound)
    <2>1. reader[r].stage # "idle"
      BY <1>1 DEF Holds
    <2> HIDE DEF given, accepted, d
    <2> QED BY <1>4, <1>8, <2>1, AnsweredReading
  <1> HIDE DEF given
  <1>10. ASSUME past = {}, accepted
         PROVE  /\ BackedBy(firsts', assessed, d) /\ last' \in LastSeen
                /\ \A a, e \in Int : BackedBy(firsts, a, e) => BackedBy(firsts', a, e)
                /\ \A a \in Int : KnownTo(last, a) => KnownTo(last', a)
    BY <1>1, <1>4, <1>10, AcceptedIsSound
  <1>11. ASSUME past = {}
         PROVE  /\ \A a, e \in Int : BackedBy(firsts, a, e) => BackedBy(firsts', a, e)
                /\ \A a \in Int : KnownTo(last, a) => KnownTo(last', a)
    <2>1. CASE accepted
      BY <1>10, <1>11, <2>1
    <2>2. CASE ~accepted
      <3>1. last' = last /\ firsts' = firsts
        BY <1>4, <2>2
      <3> QED BY <3>1 DEF BackedBy, KnownTo
    <2> QED BY <2>1, <2>2
  <1>12. last' \in LastSeen \cup {Empty} /\ (accepted => last' \in LastSeen)
    <2>1. [binding |-> b, assessed |-> assessed, deadline |-> d] \in LastSeen
      BY <1>1, <1>2 DEF LastSeen
    <2>2. last \in LastSeen \cup {Empty}
      BY DEF CameraInv, CameraShape
    <2> QED BY <1>4, <2>1, <2>2
  <1>13. accepted => last' # Empty /\ last'.binding = b /\ last'.assessed = assessed
                     /\ last'.deadline = d
    BY <1>4, <1>12 DEF LastSeen
  <1>14. firsts' \subseteq [assessed : Int, started : Int]
    BY <1>1, <1>4 DEF CameraInv, CameraShape
  <1>15. \A other \in Readers : reader'[other] = IF other = r THEN read ELSE reader[other]
    BY <1>9 DEF CameraInv, CameraShape
  <1> HIDE DEF accepted, d
  <1>16. CameraShape'
    <2>1. reader' \in [Readers -> Readings]
      BY <1>9 DEF CameraInv, CameraShape
    <2>2. cached' \in SavedStatus \cup {Empty}
      BY <1>4, <1>5
    <2> QED BY <1>1, <1>12, <1>14, <2>1, <2>2 DEF CameraInv, CameraShape
  <1>17. OneAsks'
    <2>1. \A other \in Readers : ~Holds(other)'
      <3> TAKE other \in Readers
      <3>1. other # r => ~Holds(other)
        BY <1>1 DEF CameraInv, OneAsks
      <3> QED BY <1>9, <1>15, <3>1 DEF Holds
    <2>2. past # {} => firsts' = {}
      BY <1>4 DEF CameraInv, OneAsks
    <2>3. ASSUME NEW first \in firsts'
          PROVE  first.started <= steady /\ KnownTo(last', first.assessed)
      <3>1. past = {}
        BY <2>2, <2>3
      <3>2. CASE first \in firsts
        <4>1. /\ first.started <= steady /\ KnownTo(last, first.assessed)
              /\ first.assessed \in Int
          BY <3>2 DEF CameraInv, CameraShape, OneAsks
        <4> QED BY <1>11, <3>1, <4>1
      <3>3. CASE first \notin firsts
        <4>1. accepted /\ first = [assessed |-> assessed, started |-> s]
          BY <1>4, <2>3, <3>3
        <4>2. s <= steady
          BY <1>1 DEF CameraInv, AllSound, ReadingSound, Holds
        <4>3. KnownTo(last', assessed)
          BY <1>13, <4>1 DEF KnownTo
        <4> QED BY <4>1, <4>2, <4>3
      <3> QED BY <3>2, <3>3
    <2> QED BY <1>1, <2>1, <2>2, <2>3 DEF OneAsks
  <1>18. LastSound'
    <2> SUFFICES ASSUME past = {}, last' # Empty
                 PROVE  last'.binding = bound /\ BackedBy(firsts', last'.assessed, last'.deadline)
      BY <1>1 DEF LastSound
    <2>1. CASE accepted
      <3>1. BackedBy(firsts', assessed, d)
        BY <1>10, <2>1
      <3> QED BY <1>1, <1>13, <2>1, <3>1 DEF BackedBy
    <2>2. CASE ~accepted
      <3>1. last' = last /\ firsts' = firsts
        BY <1>4, <2>2
      <3> QED BY <3>1 DEF CameraInv, LastSound, BackedBy
    <2> QED BY <2>1, <2>2
  <1>19. CacheSound'
    <2> SUFFICES ASSUME cached' # Empty
                 PROVE  /\ past = {} => cached'.binding = bound
                        /\ IsEvidence(cached'.status) =>
                             /\ cached'.status.binding = cached'.binding
                             /\ past = {} => /\ last' # Empty
                                             /\ cached'.status.assessed = last'.assessed
                                             /\ BackedBy(firsts', cached'.status.assessed, cached'.deadline)
      BY <1>1 DEF CacheSound
    <2>1. cached' = saved /\ bound = b
      BY <1>4
    <2> SUFFICES ASSUME accepted
                 PROVE  /\ cached'.status.binding = cached'.binding
                        /\ past = {} => /\ last' # Empty
                                        /\ cached'.status.assessed = last'.assessed
                                        /\ BackedBy(firsts', cached'.status.assessed, cached'.deadline)
      BY <1>5, <1>6, <2>1
    <2>2. /\ cached'.status.binding = b /\ cached'.status.assessed = assessed
          /\ cached'.binding = b /\ cached'.deadline = d
      BY <1>5, <1>7, <2>1
    <2>3. past = {} => BackedBy(firsts', assessed, d)
      BY <1>10
    <2> QED BY <1>13, <2>2, <2>3 DEF BackedBy
  <1>20. AllSound'
    <2>1. ASSUME NEW other \in Readers PROVE ShowingSound(shows[other])'
      <3>1. shows[other] \in Showings \cup {Empty} /\ ShowingSound(shows[other])
        BY DEF CameraInv, CameraShape, AllSound
      <3> DEFINE a == shows[other].status.assessed
                 e == shows[other].at + shows[other].status.validFor
      <3>2. shows[other] # Empty => a \in Int /\ e \in Int
        BY <3>1 DEF Showings, Evidence
      <3>3. past = {} /\ shows[other] # Empty => KnownTo(last, a) /\ BackedBy(firsts, a, e)
        BY <3>1 DEF ShowingSound
      <3> HIDE DEF a, e
      <3>4. past = {} /\ shows[other] # Empty => KnownTo(last', a) /\ BackedBy(firsts', a, e)
        BY <1>11, <3>2, <3>3
      <3> QED BY <1>1, <3>1, <3>4 DEF ShowingSound, KnownTo, BackedBy, a, e
    <2>2. ASSUME NEW other \in Readers PROVE ReadingSound(other, reader[other])'
      <3>1. CASE other = r
        <4>1. reader'[other] = read
          BY <1>15, <3>1
        <4> SUFFICES ASSUME IsEvidence(given)
                     PROVE  /\ given.binding = b
                            /\ past = {} =>
                                 /\ KnownTo(last', given.assessed)
                                 /\ BackedBy(firsts', given.assessed, steady + given.validFor)
                                 /\ shows[other] # Empty =>
                                      shows[other].status.assessed <= given.assessed
          BY <1>1, <1>9, <4>1 DEF ReadingSound, KnownTo, BackedBy
        <4>2. /\ accepted /\ given.binding = b /\ given.assessed = assessed
              /\ given.validFor \in Int /\ steady + given.validFor <= d
          BY <1>8
        <4>3. ASSUME past = {}
              PROVE  /\ KnownTo(last', assessed) /\ BackedBy(firsts', assessed, steady + given.validFor)
                     /\ shows[other] # Empty => shows[other].status.assessed <= assessed
          <5>1. BackedBy(firsts', assessed, d)
            BY <1>10, <4>2, <4>3
          <5> DEFINE n == given.validFor
          <5>2. n \in Int /\ steady + n <= d
            BY <4>2
          <5> HIDE DEF n
          <5>3. \A first \in firsts' : d <= first.started + Lease
                                           => steady + n <= first.started + Lease
            BY <1>1, <1>2, <1>14, <5>2
          <5>4. BackedBy(firsts', assessed, steady + n)
            BY <1>1, <5>1, <5>3 DEF BackedBy, n
          <5>5. shows[other] # Empty => /\ KnownTo(last, shows[other].status.assessed)
                                        /\ shows[other].status.assessed \in Int
            BY <4>3 DEF CameraInv, CameraShape, AllSound, ShowingSound, Showings, Evidence
          <5>6. shows[other] # Empty => KnownTo(last', shows[other].status.assessed)
            <6> DEFINE a == shows[other].status.assessed
            <6>1. shows[other] # Empty => KnownTo(last, a) /\ a \in Int
              BY <5>5
            <6> HIDE DEF a
            <6>2. shows[other] # Empty => KnownTo(last', a)
              BY <1>11, <4>3, <6>1
            <6> QED BY <6>2 DEF a
          <5>7. KnownTo(last', assessed)
            BY <1>13, <4>2 DEF KnownTo
          <5> QED BY <1>1, <1>13, <4>2, <5>4, <5>6, <5>7 DEF KnownTo, BackedBy, n
        <4> QED BY <1>1, <4>2, <4>3 DEF KnownTo, BackedBy
      <3>2. CASE other # r
        <4>1. reader'[other] = reader[other]
          BY <1>15, <3>2
        <4>2. reader[other] \in Readings /\ ReadingSound(other, reader[other])
          BY DEF CameraInv, CameraShape, AllSound
        <4> DEFINE a == reader[other].status.assessed
                   e == reader[other].receivedAt + reader[other].status.validFor
        <4>3. IsEvidence(reader[other].status) => a \in Int /\ e \in Int
          BY <4>2 DEF Readings, Evidence, IsEvidence
        <4>4. IsEvidence(reader[other].status) /\ past = {} => KnownTo(last, a) /\ BackedBy(firsts, a, e)
          BY <4>2 DEF ReadingSound
        <4> HIDE DEF a, e
        <4>5. IsEvidence(reader[other].status) /\ past = {} => KnownTo(last', a) /\ BackedBy(firsts', a, e)
          BY <1>11, <4>3, <4>4
        <4> QED BY <1>1, <4>1, <4>2, <4>5 DEF ReadingSound, KnownTo, BackedBy, IsEvidence, a, e
      <3> QED BY <3>1, <3>2
    <2> QED BY <2>1, <2>2 DEF AllSound
  <1> QED BY <1>16, <1>17, <1>18, <1>19, <1>20 DEF CameraInv

(* The clocks go, or are set: what was delivered, read or saved stays. *)
LEMMA ClocksInv ==
    ASSUME CameraInv, steady' \in Int, steady <= steady', wall' \in Int,
           UNCHANGED <<bound, past, cached, last, reader, shows, firsts>>
    PROVE  CameraInv'
  <1>1. CameraShape'
    BY DEF CameraInv, CameraShape
  <1>2. OneAsks'
    <2>1. steady \in Int /\ \A first \in firsts : first.started \in Int
      BY DEF CameraInv, CameraShape
    <2> QED BY <2>1 DEF CameraInv, OneAsks, Holds, KnownTo
  <1>3. LastSound' /\ CacheSound'
    BY DEF CameraInv, LastSound, CacheSound
  <1>4. AllSound'
    <2>1. ASSUME NEW r \in Readers
          PROVE  ReadingSound(r, reader[r])' /\ ShowingSound(shows[r])'
      <3>1. /\ ReadingSound(r, reader[r]) /\ ShowingSound(shows[r])
            /\ reader[r].started \in Int /\ steady \in Int
        BY DEF CameraInv, CameraShape, AllSound, Readings
      <3> QED BY <3>1 DEF ReadingSound, ShowingSound
    <2> QED BY <2>1 DEF AllSound
  <1> QED BY <1>1, <1>2, <1>3, <1>4 DEF CameraInv

LEMMA ChangeBindingInv ==
    ASSUME CameraInv, NEW binding \in Bindings, ChangeBinding(binding) PROVE CameraInv'
  <1>1. /\ bound' = binding /\ past' = past \cup {bound} /\ past' # {} /\ firsts' = {}
        /\ UNCHANGED <<steady, wall, cached, last, reader, shows>>
    BY DEF ChangeBinding
  <1>2. CameraShape'
    BY <1>1 DEF CameraInv, CameraShape
  <1>3. OneAsks'
    BY <1>1 DEF CameraInv, OneAsks, Holds
  <1>4. LastSound' /\ CacheSound'
    BY <1>1 DEF CameraInv, LastSound, CacheSound
  <1>5. AllSound'
    <2>1. ASSUME NEW r \in Readers
          PROVE  ReadingSound(r, reader[r])' /\ ShowingSound(shows[r])'
      <3>1. ReadingSound(r, reader[r]) /\ ShowingSound(shows[r])
        BY DEF CameraInv, AllSound
      <3> QED BY <1>1, <3>1 DEF ReadingSound, ShowingSound
    <2> QED BY <2>1 DEF AllSound
  <1> QED BY <1>2, <1>3, <1>4, <1>5 DEF CameraInv

LEMMA CameraStepInv == CameraInv /\ [CameraNext]_cameraVars => CameraInv'
  <1> SUFFICES ASSUME CameraInv, [CameraNext]_cameraVars PROVE CameraInv'
    OBVIOUS
  <1>0. steady \in Int /\ wall \in Int
    BY DEF CameraInv, CameraShape
  <1>1. ASSUME NEW r \in Readers, Read(r) PROVE CameraInv'
    BY <1>1, ReadInv
  <1>2. ASSUME NEW r \in Readers, EnterLock(r) PROVE CameraInv'
    BY <1>2, EnterLockInv
  <1>3. ASSUME NEW r \in Readers, Busy(r) PROVE CameraInv'
    BY <1>3, BusyInv
  <1>4. ASSUME NEW r \in Readers, Deliver(r) PROVE CameraInv'
    BY <1>4, DeliverInv
  <1>5. ASSUME NEW r \in Readers, Observe(r, TRUE, 0) PROVE CameraInv'
    <2>1. 0 \in Int /\ TRUE \in BOOLEAN
      OBVIOUS
    <2> QED BY <1>5, <2>1, ObserveInv, Zenon
  <1>6. ASSUME NEW r \in Readers, NEW assessed \in Assessments, Observe(r, FALSE, assessed)
        PROVE  CameraInv'
    <2>1. assessed \in Int /\ FALSE \in BOOLEAN
      OBVIOUS
    <2> QED BY <1>6, <2>1, ObserveInv, Zenon
  <1>7. CASE CameraTick
    BY <1>0, <1>7, ClocksInv DEF CameraTick
  <1>8. ASSUME NEW time \in WallTimes, SetWallClock(time) PROVE CameraInv'
    BY <1>0, <1>8, ClocksInv DEF SetWallClock
  <1>9. ASSUME NEW binding \in Bindings, ChangeBinding(binding) PROVE CameraInv'
    BY <1>9, ChangeBindingInv
  <1>10. CASE UNCHANGED cameraVars
    BY <1>0, <1>10, ClocksInv DEF cameraVars
  <1> QED BY <1>1, <1>2, <1>3, <1>4, <1>5, <1>6, <1>7, <1>8, <1>9, <1>10 DEF CameraNext

LEMMA HonestEvidence == CameraInv => EvidenceIsNotRenewed /\ EvidenceIsOfSource
  BY DEF CameraInv, AllSound, ShowingSound, BackedBy, EvidenceIsNotRenewed, EvidenceIsOfSource

(* Only a delivery changes what a stream was shown. *)
LEMMA ShownOnlyByDelivery ==
    ASSUME CameraInv, [CameraNext]_cameraVars, NEW r \in Readers, shows[r] # shows'[r],
           shows[r] # Empty, past' = {}
    PROVE  shows'[r].status.assessed >= shows[r].status.assessed
  <1>1. PICK other \in Readers : Deliver(other)
    <2>1. CameraNext
      BY DEF cameraVars
    <2>2. \A o \in Readers : ~Read(o) /\ ~EnterLock(o) /\ ~Busy(o)
      BY DEF Read, EnterLock, Busy
    <2>3. \A o \in Readers : ~Observe(o, TRUE, 0)
      BY DEF Observe
    <2>4. \A o \in Readers, assessed \in Assessments : ~Observe(o, FALSE, assessed)
      BY DEF Observe
    <2>5. ~CameraTick /\ \A time \in WallTimes : ~SetWallClock(time)
      BY DEF CameraTick, SetWallClock
    <2>6. \A binding \in Bindings : ~ChangeBinding(binding)
      BY DEF ChangeBinding
    <2> QED BY <2>1, <2>2, <2>3, <2>4, <2>5, <2>6 DEF CameraNext
  <1>2. past = {}
    BY <1>1 DEF Deliver
  <1> DEFINE show == [status |-> Delivered(reader[other]), at |-> steady, source |-> bound]
  <1>3. IsEvidence(Delivered(reader[other])) /\ shows' = [shows EXCEPT ![other] = show]
    BY <1>1 DEF Deliver
  <1>4. /\ show \in Showings
        /\ shows[other] # Empty => shows[other].status.assessed <= show.status.assessed
    BY <1>2, <1>3, DeliveryIsSound
  <1>5. shows \in [Readers -> Showings \cup {Empty}]
    BY DEF CameraInv, CameraShape
  <1> HIDE DEF show
  <1>6. other = r /\ shows'[r] = show
    BY <1>3, <1>5
  <1>7. shows[r].status.assessed \in Int /\ show.status.assessed \in Int
    BY <1>4, <1>5 DEF Showings, Evidence
  <1> QED BY <1>4, <1>6, <1>7

(* However often an assessment is read, cached and delivered, and however  *)
(* the wall clock is set, a stream is shown no evidence beyond the life of *)
(* the answer that brought it first, nor of a source that is not the       *)
(* configured one, nor older evidence than it has seen (the cache, the     *)
(* lock and the late delivery of CameraStatusService).                     *)
THEOREM CameraHonest == CameraSpec => CameraIsHonest
  <1> DEFINE Monotone == \A r \in Readers :
                 shows[r] # shows'[r] /\ shows[r] # Empty /\ past' = {}
                 => shows'[r].status.assessed >= shows[r].status.assessed
  <1>1. CameraInit => CameraInv
    BY CameraInitInv
  <1>2. CameraInv /\ [CameraNext]_cameraVars => CameraInv'
    BY CameraStepInv
  <1>3. CameraInv' => EvidenceIsNotRenewed' /\ EvidenceIsOfSource'
    BY HonestEvidence, PTL
  <1>4. CameraInv /\ [CameraNext]_cameraVars => Monotone
    BY ShownOnlyByDelivery
  <1>5. CameraInv /\ [CameraNext]_cameraVars
          => [/\ EvidenceIsNotRenewed' /\ EvidenceIsOfSource' /\ Monotone]_cameraVars
    BY <1>2, <1>3, <1>4
  <1> QED BY <1>1, <1>2, <1>5, PTL DEF CameraSpec, CameraIsHonest

-----------------------------------------------------------------------------
(* Frozen event pages: sums, and what is left of a sequence.             *)

(* f runs through the sums of the beginnings of q. *)
RunsUp(f, q, k) == f[0] = 0 /\ \A n \in 1 .. k : f[n] = f[n - 1] + q[n]

(* There are such functions: of the lengths without one the least would    *)
(* follow a length that has one.                                           *)
LEMMA SumsExist ==
    ASSUME NEW q \in Seq(Nat)
    PROVE  \E f \in [0 .. Len(q) -> Nat] : RunsUp(f, q, Len(q))
  <1> DEFINE Sums(k) == \E f \in [0 .. k -> Nat] : RunsUp(f, q, k)
             T == {k \in 0 .. Len(q) : ~Sums(k)}
  <1>1. Len(q) \in Nat /\ \A n \in 1 .. Len(q) : q[n] \in Nat
    OBVIOUS
  <1>2. T = {}
    <2>1. SUFFICES ASSUME T # {} PROVE FALSE
      OBVIOUS
    <2>2. T \in SUBSET Nat
      BY <1>1
    <2>3. PICK m \in T : \A k \in T : m <= k
      <3> HIDE DEF T
      <3> QED BY <2>1, <2>2, SmallestNat
    <2>4. m \in 0 .. Len(q) /\ ~Sums(m)
      OBVIOUS
    <2>5. m # 0
      <3>1. SUFFICES ASSUME m = 0 PROVE FALSE
        OBVIOUS
      <3> DEFINE f == [n \in 0 .. 0 |-> 0]
      <3>2. f \in [0 .. 0 -> Nat] /\ RunsUp(f, q, 0)
        BY DEF RunsUp
      <3> HIDE DEF f
      <3> QED BY <2>4, <3>1, <3>2
    <2>6. m - 1 \in 0 .. Len(q) /\ ~(m <= m - 1)
      BY <1>1, <2>4, <2>5
    <2>7. Sums(m - 1)
      <3> HIDE DEF Sums
      <3> QED BY <2>3, <2>6
    <2>8. PICK f \in [0 .. m - 1 -> Nat] : RunsUp(f, q, m - 1)
      BY <2>7
    <2> DEFINE g == [n \in 0 .. m |-> IF n = m THEN f[m - 1] + q[m] ELSE f[n]]
    <2>9. g \in [0 .. m -> Nat]
      <3>1. ASSUME NEW n \in 0 .. m PROVE g[n] \in Nat
        <4>1. CASE n = m
          <5>1. f[m - 1] \in Nat /\ q[m] \in Nat
            BY <1>1, <2>4, <2>5, <2>8
          <5> QED BY <4>1, <5>1
        <4>2. CASE n # m
          <5>1. n \in 0 .. m - 1
            BY <2>4, <4>2
          <5> QED BY <2>8, <4>2, <5>1
        <4> QED BY <4>1, <4>2
      <3> QED BY <3>1
    <2>10. RunsUp(g, q, m)
      <3>1. g[0] = 0
        BY <2>4, <2>5, <2>8 DEF RunsUp
      <3>2. ASSUME NEW n \in 1 .. m PROVE g[n] = g[n - 1] + q[n]
        <4>1. n - 1 \in 0 .. m /\ n - 1 # m /\ n \in 0 .. m /\ m \in Int
          BY <2>4
        <4>2. g[n - 1] = f[n - 1]
          BY <4>1
        <4>3. CASE n = m
          BY <4>1, <4>2, <4>3
        <4>4. CASE n # m
          <5>1. n \in 1 .. m - 1
            BY <4>1, <4>4
          <5>2. f[n] = f[n - 1] + q[n]
            BY <2>8, <5>1 DEF RunsUp
          <5> QED BY <4>1, <4>2, <4>4, <5>2
        <4> QED BY <4>3, <4>4
      <3> HIDE DEF g
      <3> QED BY <3>1, <3>2 DEF RunsUp
    <2> HIDE DEF g
    <2> QED BY <2>4, <2>9, <2>10
  <1>3. Len(q) \notin T
    BY <1>2
  <1> QED BY <1>1, <1>3

(* Two of them agree. *)
LEMMA SumsAgree ==
    ASSUME NEW N \in Nat, NEW q, NEW f, NEW g, RunsUp(f, q, N), RunsUp(g, q, N)
    PROVE  \A n \in 0 .. N : f[n] = g[n]
  <1> DEFINE T == {n \in 0 .. N : f[n] # g[n]}
  <1>1. SUFFICES ASSUME T # {} PROVE FALSE
    OBVIOUS
  <1>2. T \in SUBSET Nat
    OBVIOUS
  <1>3. PICK m \in T : \A k \in T : m <= k
    <2> HIDE DEF T
    <2> QED BY <1>1, <1>2, SmallestNat
  <1>4. m \in 0 .. N /\ f[m] # g[m]
    OBVIOUS
  <1>5. m # 0
    BY <1>4 DEF RunsUp
  <1>6. m \in 1 .. N /\ m - 1 \in 0 .. N /\ ~(m <= m - 1)
    BY <1>4, <1>5
  <1>7. f[m - 1] = g[m - 1]
    BY <1>3, <1>6
  <1> QED BY <1>4, <1>6, <1>7 DEF RunsUp

LEMMA TotalIs ==
    ASSUME NEW q \in Seq(Nat), NEW f \in [0 .. Len(q) -> Nat], RunsUp(f, q, Len(q))
    PROVE  TotalOf(q) = f[Len(q)] /\ TotalOf(q) \in Nat
  <1> DEFINE Up(g) == g = [n \in 0 .. Len(q) |-> IF n = 0 THEN 0 ELSE g[n - 1] + q[n]]
             upTo == CHOOSE g : Up(g)
  <1>1. Len(q) \in Nat
    OBVIOUS
  <1>2. Up(f)
    <2>1. ASSUME NEW n \in 0 .. Len(q) PROVE f[n] = IF n = 0 THEN 0 ELSE f[n - 1] + q[n]
      <3>1. n # 0 => n \in 1 .. Len(q)
        BY <1>1
      <3> QED BY <3>1 DEF RunsUp
    <2> QED BY <2>1
  <1>3. Up(upTo)
    <2> HIDE DEF Up
    <2> QED BY <1>2
  <1>4. RunsUp(upTo, q, Len(q))
    <2> HIDE DEF upTo
    <2>1. upTo = [n \in 0 .. Len(q) |-> IF n = 0 THEN 0 ELSE upTo[n - 1] + q[n]]
      BY <1>3
    <2>2. 0 \in 0 .. Len(q) /\ \A n \in 1 .. Len(q) : n \in 0 .. Len(q) /\ n # 0
      BY <1>1
    <2>3. upTo[0] = 0
      BY <2>1, <2>2
    <2>4. \A n \in 1 .. Len(q) : upTo[n] = upTo[n - 1] + q[n]
      BY <2>1, <2>2
    <2> QED BY <2>3, <2>4 DEF RunsUp
  <1>5. TotalOf(q) = upTo[Len(q)]
    BY DEF TotalOf
  <1> HIDE DEF upTo, Up
  <1>6. \A n \in 0 .. Len(q) : upTo[n] = f[n]
    BY <1>1, <1>4, SumsAgree
  <1>7. Len(q) \in 0 .. Len(q)
    BY <1>1
  <1> QED BY <1>5, <1>6, <1>7

LEMMA TotalAppend ==
    ASSUME NEW q \in Seq(Nat), NEW x \in Nat
    PROVE  TotalOf(Append(q, x)) = TotalOf(q) + x
  <1>1. PICK f \in [0 .. Len(q) -> Nat] : RunsUp(f, q, Len(q))
    BY SumsExist
  <1> DEFINE N == Len(q)
             p == Append(q, x)
             g == [n \in 0 .. N + 1 |-> IF n = N + 1 THEN f[N] + x ELSE f[n]]
  <1>2. N \in Nat /\ p \in Seq(Nat) /\ Len(p) = N + 1 /\ p[N + 1] = x
        /\ \A n \in 1 .. N : p[n] = q[n]
    OBVIOUS
  <1> HIDE DEF p, N
  <1>3. f \in [0 .. N -> Nat] /\ RunsUp(f, q, N)
    BY <1>1 DEF N
  <1>4. g \in [0 .. N + 1 -> Nat]
    <2>1. ASSUME NEW n \in 0 .. N + 1 PROVE g[n] \in Nat
      <3>1. f[N] \in Nat
        BY <1>2, <1>3
      <3>2. n # N + 1 => n \in 0 .. N
        BY <1>2
      <3> QED BY <1>2, <1>3, <3>1, <3>2
    <2> QED BY <2>1
  <1>5. RunsUp(g, p, N + 1)
    <2>1. g[0] = 0
      BY <1>2, <1>3 DEF RunsUp
    <2>2. ASSUME NEW n \in 1 .. N + 1 PROVE g[n] = g[n - 1] + p[n]
      <3>1. n - 1 \in 0 .. N /\ n - 1 # N + 1 /\ n \in 0 .. N + 1
        BY <1>2
      <3>2. g[n - 1] = f[n - 1]
        BY <1>2, <3>1
      <3>3. CASE n = N + 1
        <4>1. n - 1 = N
          BY <1>2, <3>3
        <4> QED BY <1>2, <3>1, <3>2, <3>3, <4>1
      <3>4. CASE n # N + 1
        <4>1. n \in 1 .. N
          BY <1>2, <3>4
        <4>2. f[n] = f[n - 1] + q[n]
          BY <1>3, <4>1 DEF RunsUp
        <4> QED BY <1>2, <3>1, <3>2, <3>4, <4>1, <4>2
      <3> QED BY <3>3, <3>4
    <2> HIDE DEF g
    <2> QED BY <2>1, <2>2 DEF RunsUp
  <1>6. g[N + 1] = f[N] + x
    BY <1>2
  <1> HIDE DEF g
  <1>7. TotalOf(p) = g[N + 1]
    <2>1. g \in [0 .. Len(p) -> Nat] /\ RunsUp(g, p, Len(p))
      BY <1>2, <1>4, <1>5
    <2>2. TotalOf(p) = g[Len(p)]
      BY <1>2, <2>1, TotalIs
    <2> QED BY <1>2, <2>2
  <1>8. TotalOf(q) = f[N]
    BY <1>1, TotalIs DEF N
  <1> QED BY <1>6, <1>7, <1>8 DEF p

LEMMA TotalOfNone == ASSUME NEW q \in Seq(Nat), Len(q) = 0 PROVE TotalOf(q) = 0
  <1>1. PICK f \in [0 .. Len(q) -> Nat] : RunsUp(f, q, Len(q))
    BY SumsExist
  <1> QED BY <1>1, TotalIs DEF RunsUp

LEMMA TotalType == ASSUME NEW q \in Seq(Nat) PROVE TotalOf(q) \in Nat
  BY SumsExist, TotalIs

(* Some of the numbers, in their order, sum up to no more. *)
LEMMA TotalOfSome ==
    ASSUME NEW q \in Seq(Nat), NEW p \in Seq(Nat), NEW at \in [1 .. Len(p) -> 1 .. Len(q)],
           \A k \in 1 .. Len(p) : p[k] = q[at[k]],
           \A k, l \in 1 .. Len(p) : k < l => at[k] < at[l]
    PROVE  TotalOf(p) <= TotalOf(q)
  <1>1. PICK f \in [0 .. Len(q) -> Nat] : RunsUp(f, q, Len(q))
    BY SumsExist
  <1>2. PICK g \in [0 .. Len(p) -> Nat] : RunsUp(g, p, Len(p))
    BY SumsExist
  <1> DEFINE M == Len(p)
             N == Len(q)
  <1>3. M \in Nat /\ N \in Nat /\ \A n \in 1 .. N : q[n] \in Nat
    OBVIOUS
  <1>4. ASSUME NEW m \in 0 .. N, NEW n \in 0 .. N, m <= n PROVE f[m] <= f[n]
    <2> DEFINE T == {k \in m .. n : ~(f[m] <= f[k])}
    <2>1. SUFFICES ASSUME T # {} PROVE FALSE
      <3>1. n \in m .. n
        BY <1>3, <1>4
      <3> QED BY <3>1
    <2>2. T \in SUBSET Nat
      BY <1>3
    <2>3. PICK l \in T : \A k \in T : l <= k
      <3> HIDE DEF T
      <3> QED BY <2>1, <2>2, SmallestNat
    <2>4. l \in m .. n /\ ~(f[m] <= f[l])
      OBVIOUS
    <2>5. \A k \in 0 .. N : f[k] \in Nat
      BY <1>1
    <2>6. l # m
      BY <1>3, <2>4, <2>5
    <2>7. l - 1 \in m .. n /\ ~(l <= l - 1) /\ l \in 1 .. N /\ l - 1 \in 0 .. N /\ l \in 0 .. N
      BY <1>3, <2>4, <2>6
    <2>8. f[m] <= f[l - 1]
      BY <2>3, <2>7
    <2>9. f[l] = f[l - 1] + q[l]
      BY <1>1, <2>7 DEF RunsUp
    <2>10. q[l] \in Nat
      BY <1>3, <2>7
    <2>11. f[l - 1] \in Nat /\ f[m] \in Nat
      BY <2>5, <2>7
    <2>12. f[m] <= f[l - 1] + q[l]
      BY <2>8, <2>10, <2>11
    <2> QED BY <2>4, <2>9, <2>12
  <1> DEFINE T == {k \in 0 .. M : ~(g[k] <= f[IF k = 0 THEN 0 ELSE at[k]])}
  <1>5. T = {}
    <2>1. SUFFICES ASSUME T # {} PROVE FALSE
      OBVIOUS
    <2>2. T \in SUBSET Nat
      BY <1>3
    <2>3. PICK l \in T : \A k \in T : l <= k
      <3> HIDE DEF T
      <3> QED BY <2>1, <2>2, SmallestNat
    <2>4. l \in 0 .. M /\ ~(g[l] <= f[IF l = 0 THEN 0 ELSE at[l]])
      OBVIOUS
    <2>5. f[0] = 0 /\ g[0] = 0
      BY <1>1, <1>2 DEF RunsUp
    <2>6. l # 0
      BY <2>4, <2>5
    <2>7. l \in 1 .. M /\ l - 1 \in 0 .. M /\ ~(l <= l - 1)
      BY <1>3, <2>4, <2>6
    <2> DEFINE before == IF l - 1 = 0 THEN 0 ELSE at[l - 1]
    <2>8. g[l - 1] <= f[before]
      BY <2>3, <2>7
    <2>9. at[l] \in 1 .. N
      BY <2>7
    <2>10. before \in 0 .. N /\ before <= at[l] - 1
      <3>1. CASE l - 1 = 0
        BY <1>3, <2>9, <3>1
      <3>2. CASE l - 1 # 0
        <4>1. l - 1 \in 1 .. M /\ l - 1 < l
          BY <1>3, <2>7, <3>2
        <4>2. at[l - 1] \in 1 .. N /\ at[l - 1] < at[l]
          BY <2>7, <4>1
        <4> QED BY <1>3, <2>9, <3>2, <4>2
      <3> QED BY <3>1, <3>2
    <2> HIDE DEF before
    <2>11. at[l] - 1 \in 0 .. N
      BY <1>3, <2>9
    <2>12. f[before] <= f[at[l] - 1]
      BY <1>4, <2>10, <2>11
    <2>13. f[at[l]] = f[at[l] - 1] + q[at[l]]
      BY <1>1, <2>9 DEF RunsUp
    <2>14. g[l] = g[l - 1] + q[at[l]]
      BY <1>2, <2>7 DEF RunsUp
    <2>15. /\ g[l - 1] \in Nat /\ f[before] \in Nat /\ f[at[l] - 1] \in Nat
           /\ q[at[l]] \in Nat
      BY <1>1, <1>2, <1>3, <2>7, <2>9, <2>10, <2>11
    <2>16. g[l - 1] + q[at[l]] <= f[at[l] - 1] + q[at[l]]
      <3> DEFINE a == g[l - 1]
                 b == f[before]
                 c == f[at[l] - 1]
                 x == q[at[l]]
      <3>1. a \in Nat /\ b \in Nat /\ c \in Nat /\ x \in Nat /\ a <= b /\ b <= c
        BY <2>8, <2>12, <2>15
      <3> HIDE DEF a, b, c, x
      <3>2. a + x <= c + x
        BY <3>1
      <3> QED BY <3>2 DEF a, c, x
    <2>17. g[l] <= f[at[l]]
      BY <2>13, <2>14, <2>16
    <2> QED BY <2>4, <2>6, <2>17
  <1>6. g[M] <= f[N]
    <2>1. M \in 0 .. M /\ N \in 0 .. N /\ 0 \in 0 .. N
      BY <1>3
    <2>2. g[M] <= f[IF M = 0 THEN 0 ELSE at[M]]
      BY <1>5, <2>1
    <2> DEFINE e == IF M = 0 THEN 0 ELSE at[M]
    <2>3. e \in 0 .. N /\ e <= N
      <3>1. CASE M = 0
        BY <1>3, <3>1
      <3>2. CASE M # 0
        <4>1. M \in 1 .. Len(p)
          BY <1>3, <3>2
        <4>2. at[M] \in 1 .. N
          BY <4>1
        <4> QED BY <1>3, <3>2, <4>2
      <3> QED BY <3>1, <3>2
    <2>4. g[M] <= f[e]
      BY <2>2
    <2> HIDE DEF e
    <2>5. f[e] <= f[N]
      BY <1>4, <2>1, <2>3
    <2>6. g[M] \in Nat /\ f[e] \in Nat /\ f[N] \in Nat
      BY <1>1, <1>2, <2>1, <2>3
    <2> QED BY <2>4, <2>5, <2>6
  <1> QED BY <1>1, <1>2, <1>6, TotalIs

(* What is kept of a sequence are its entries at the places, in order. *)
LEMMA KeptPlaces ==
    ASSUME NEW E, NEW s \in Seq(E), NEW places \in SUBSET DOMAIN s
    PROVE  /\ Kept(s, places) \in Seq(E) /\ Len(Kept(s, places)) <= Len(s)
           /\ Len(Kept(s, places)) \in Nat
           /\ \E at \in [1 .. Len(Kept(s, places)) -> places] :
                /\ \A k \in 1 .. Len(Kept(s, places)) : Kept(s, places)[k] = s[at[k]]
                /\ \A k, l \in 1 .. Len(Kept(s, places)) : k < l => at[k] < at[l]
  <1> DEFINE N == Cardinality(places)
             B(i) == {j \in places : j < i}
             at == [k \in 1 .. N |-> CHOOSE i \in places : Cardinality(B(i)) = k - 1]
  <1>1. /\ places \in SUBSET Nat /\ Len(s) \in Nat /\ \A i \in places : i \in 1 .. Len(s)
        /\ places \in SUBSET (1 .. Len(s))
    OBVIOUS
  <1>2. IsFiniteSet(places) /\ N \in Nat /\ N <= Len(s)
    <2>1. IsFiniteSet(1 .. Len(s)) /\ Cardinality(1 .. Len(s)) = Len(s)
      <3>1. 1 \in Int /\ Len(s) \in Int
        BY <1>1
      <3>2. Cardinality(1 .. Len(s)) = IF 1 > Len(s) THEN 0 ELSE Len(s) - 1 + 1
        BY <3>1, FS_Interval
      <3>3. IsFiniteSet(1 .. Len(s))
        BY <3>1, FS_Interval
      <3> QED BY <1>1, <3>2, <3>3
    <2>2. IsFiniteSet(places) /\ N <= Len(s)
      BY <1>1, <2>1, FS_Subset
    <2> QED BY <2>2, FS_CardinalityType
  <1> HIDE DEF N
  <1>3. ASSUME NEW k \in 1 .. N PROVE at[k] \in places /\ Cardinality(B(at[k])) = k - 1
    <2>1. k - 1 \in Nat /\ k - 1 < N
      BY <1>2
    <2>2. \E i \in places : Cardinality(B(i)) = k - 1
      BY <1>1, <1>2, <2>1, Ranks DEF N
    <2> HIDE DEF B
    <2> QED BY <2>2
  <1>4. \A i \in places : IsFiniteSet(B(i))
    <2>1. \A i \in places : B(i) \in SUBSET places
      OBVIOUS
    <2> HIDE DEF B
    <2> QED BY <1>2, <2>1, FS_Subset
  <1>5. ASSUME NEW k \in 1 .. N, NEW l \in 1 .. N, k < l PROVE at[k] < at[l]
    <2>1. at[k] \in places /\ at[l] \in places /\ at[k] \in Nat /\ at[l] \in Nat
      BY <1>1, <1>3
    <2>2. Cardinality(B(at[k])) = k - 1 /\ Cardinality(B(at[l])) = l - 1
      BY <1>3
    <2> HIDE DEF at
    <2>3. SUFFICES ASSUME at[l] <= at[k] PROVE FALSE
      BY <2>1
    <2>4. B(at[l]) \in SUBSET B(at[k])
      <3>1. ASSUME NEW j \in places, j < at[l] PROVE j < at[k]
        <4>1. j \in Nat
          BY <1>1
        <4> QED BY <2>1, <2>3, <3>1, <4>1
      <3> QED BY <3>1
    <2>5. IsFiniteSet(B(at[k]))
      BY <1>4, <2>1
    <2> HIDE DEF B
    <2>6. Cardinality(B(at[l])) <= Cardinality(B(at[k]))
      BY <2>4, <2>5, FS_Subset
    <2>7. l - 1 <= k - 1
      BY <2>2, <2>6
    <2> QED BY <1>2, <1>5, <2>7
  <1> DEFINE t == Kept(s, places)
  <1>6. t = [k \in 1 .. N |-> s[at[k]]]
    BY DEF Kept, N
  <1> HIDE DEF at, t
  <1>7. \A k \in 1 .. N : t[k] = s[at[k]] /\ s[at[k]] \in E
    <2>1. \A k \in 1 .. N : at[k] \in 1 .. Len(s)
      BY <1>1, <1>3
    <2> QED BY <1>6, <2>1
  <1>8. t \in Seq(E) /\ Len(t) = N
    BY <1>2, <1>6, <1>7
  <1>9. at \in [1 .. N -> places]
    BY <1>3 DEF at
  <1> QED BY <1>2, <1>5, <1>7, <1>8, <1>9 DEF t

(* The inductive invariant. *)

FrozenLists == [followed : BOOLEAN, owner : PageReaders, items : Seq(ListedEvents), left : Nat]
PageBuilds  == [read : BOOLEAN, items : Seq(ListedEvents)]
Walks       == [list : Seq(ListedEvents), got : Seq(ListedEvents), page : Nat]

PageShape ==
    /\ table \in Seq(ListedEvents) /\ entries \in Seq(FrozenLists)
    /\ building \in [PageReaders -> PageBuilds \cup {NoBuild}]
    /\ walk \in Walks \cup {NoWalk}

(* A list that is followed is the one the follower's pages are of. *)
FollowedIsWalked ==
    \A i \in DOMAIN entries :
        entries[i].followed => walk # NoWalk /\ entries[i].items = walk.list

(* After some pages the follower has their entries, or all there are. *)
PagesAreWhole ==
    walk # NoWalk =>
        /\ Len(walk.got) = IF walk.page * PageSize < Len(walk.list)
                             THEN walk.page * PageSize ELSE Len(walk.list)
        /\ walk.got = SubSeq(walk.list, 1, Len(walk.got))

PagesInv == PageShape /\ FollowedIsWalked /\ PagesAreWhole /\ StoreIsBounded

USE PageAssumption

LEMMA BytesType == ASSUME NEW items \in Seq(ListedEvents) PROVE Bytes(items) \in Nat
  <1>1. Len(items) \in Nat /\ ItemBytes \in Nat /\ ListBytes \in Nat
    OBVIOUS
  <1> DEFINE l == Len(items)
  <1> HIDE DEF l
  <1>2. ItemBytes * l \in Nat
    BY <1>1 DEF l
  <1> QED BY <1>1, <1>2 DEF Bytes, l

LEMMA SizesOf ==
    ASSUME NEW s \in Seq(FrozenLists)
    PROVE  /\ [i \in DOMAIN s |-> Bytes(s[i].items)] \in Seq(Nat)
           /\ Len([i \in DOMAIN s |-> Bytes(s[i].items)]) = Len(s)
           /\ BytesOf(s) \in Nat
  <1> DEFINE q == [i \in DOMAIN s |-> Bytes(s[i].items)]
  <1>1. \A i \in 1 .. Len(s) : s[i] \in FrozenLists
    OBVIOUS
  <1>2. \A i \in 1 .. Len(s) : s[i].items \in Seq(ListedEvents)
    BY <1>1 DEF FrozenLists
  <1>3. \A i \in 1 .. Len(s) : Bytes(s[i].items) \in Nat
    BY <1>2, BytesType
  <1>4. q \in Seq(Nat) /\ Len(q) = Len(s)
    <2>1. DOMAIN s = 1 .. Len(s) /\ Len(s) \in Nat
      OBVIOUS
    <2>2. q \in [1 .. Len(s) -> Nat]
      BY <1>3, <2>1
    <2> HIDE DEF q
    <2> QED BY <2>1, <2>2
  <1> HIDE DEF q
  <1>5. TotalOf(q) \in Nat
    BY <1>4, TotalType
  <1> QED BY <1>4, <1>5 DEF q, BytesOf

LEMMA BytesAppend ==
    ASSUME NEW s \in Seq(FrozenLists), NEW entry \in FrozenLists
    PROVE  BytesOf(Append(s, entry)) = BytesOf(s) + Bytes(entry.items)
  <1> DEFINE q == [i \in DOMAIN s |-> Bytes(s[i].items)]
             t == Append(s, entry)
             p == [i \in DOMAIN t |-> Bytes(t[i].items)]
             x == Bytes(entry.items)
  <1>1. q \in Seq(Nat) /\ Len(q) = Len(s)
    BY SizesOf
  <1>2. x \in Nat
    BY BytesType DEF FrozenLists
  <1>3. p = Append(q, x)
    <2>1. /\ t \in Seq(FrozenLists) /\ Len(t) = Len(s) + 1 /\ t[Len(s) + 1] = entry
          /\ \A i \in 1 .. Len(s) : t[i] = s[i]
          /\ DOMAIN t = 1 .. Len(s) + 1 /\ DOMAIN s = 1 .. Len(s) /\ Len(s) \in Nat
      OBVIOUS
    <2> HIDE DEF t, x
    <2>2. p \in Seq(Nat) /\ Len(p) = Len(s) + 1
      BY <2>1, SizesOf
    <2>3. p[Len(s) + 1] = x
      BY <2>1 DEF x
    <2>4. \A i \in 1 .. Len(s) : p[i] = q[i]
      BY <2>1
    <2> HIDE DEF p, q
    <2> QED BY <1>1, <1>2, <2>1, <2>2, <2>3, <2>4
  <1>4. BytesOf(t) = TotalOf(p) /\ BytesOf(s) = TotalOf(q)
    BY DEF BytesOf
  <1> HIDE DEF q, p, t, x
  <1>5. TotalOf(Append(q, x)) = TotalOf(q) + x
    BY <1>1, <1>2, TotalAppend
  <1> QED BY <1>3, <1>4, <1>5 DEF t, x

LEMMA BytesOfNone == ASSUME NEW s \in Seq(FrozenLists), Len(s) = 0 PROVE BytesOf(s) = 0
  BY SizesOf, TotalOfNone DEF BytesOf

(* Entries that change in nothing but who follows them and for how long. *)
LEMMA AlikeLists ==
    ASSUME NEW s \in Seq(FrozenLists), NEW t \in Seq(FrozenLists), Len(t) = Len(s),
           \A i \in 1 .. Len(s) : t[i].owner = s[i].owner /\ t[i].items = s[i].items
    PROVE  BytesOf(t) = BytesOf(s) /\ \A o : Owned(t, o) = Owned(s, o)
  <1>1. DOMAIN s = 1 .. Len(s) /\ DOMAIN t = 1 .. Len(s)
    OBVIOUS
  <1>2. [i \in DOMAIN t |-> Bytes(t[i].items)] = [i \in DOMAIN s |-> Bytes(s[i].items)]
    BY <1>1
  <1> QED BY <1>1, <1>2 DEF BytesOf, Owned

LEMMA OwnedFinite ==
    ASSUME NEW s \in Seq(FrozenLists), NEW o
    PROVE  /\ IsFiniteSet(Owned(s, o)) /\ Cardinality(Owned(s, o)) \in Nat
           /\ Owned(s, o) \in SUBSET (1 .. Len(s))
  <1>1. Len(s) \in Int /\ DOMAIN s = 1 .. Len(s)
    OBVIOUS
  <1>2. IsFiniteSet(1 .. Len(s))
    BY <1>1, FS_Interval
  <1>3. Owned(s, o) \in SUBSET (1 .. Len(s))
    BY <1>1 DEF Owned
  <1>4. IsFiniteSet(Owned(s, o))
    BY <1>2, <1>3, FS_Subset
  <1> QED BY <1>3, <1>4, FS_CardinalityType

(* Entries that come from different ones of a set are no more than it has. *)
LEMMA Into ==
    ASSUME NEW S, NEW R, IsFiniteSet(R), NEW g, \A x \in S : g[x] \in R,
           \A x, y \in S : g[x] = g[y] => x = y
    PROVE  IsFiniteSet(S) /\ Cardinality(S) <= Cardinality(R)
  <1> DEFINE f == [x \in S |-> g[x]]
  <1>1. f \in [S -> R] /\ DOMAIN f = S /\ \A x, y \in S : f[x] = f[y] => x = y
    OBVIOUS
  <1> HIDE DEF f
  <1>2. f \in Injection(S, R)
    BY <1>1 DEF Injection, IsInjective
  <1> QED BY <1>2, FS_Injection

LEMMA KeptLists ==
    ASSUME NEW s \in Seq(FrozenLists), NEW places \in SUBSET DOMAIN s
    PROVE  /\ Kept(s, places) \in Seq(FrozenLists) /\ Len(Kept(s, places)) <= Len(s)
           /\ BytesOf(Kept(s, places)) <= BytesOf(s)
           /\ \A k \in DOMAIN Kept(s, places) : \E i \in DOMAIN s : Kept(s, places)[k] = s[i]
           /\ \A o : Cardinality(Owned(Kept(s, places), o)) <= Cardinality(Owned(s, o) \cap places)
  <1> DEFINE t == Kept(s, places)
  <1>1. t \in Seq(FrozenLists) /\ Len(t) <= Len(s) /\ Len(t) \in Nat
    BY KeptPlaces
  <1>2. PICK at \in [1 .. Len(t) -> places] :
            /\ \A k \in 1 .. Len(t) : t[k] = s[at[k]]
            /\ \A k, l \in 1 .. Len(t) : k < l => at[k] < at[l]
    BY KeptPlaces
  <1> HIDE DEF t
  <1>3. /\ DOMAIN t = 1 .. Len(t) /\ DOMAIN s = 1 .. Len(s) /\ Len(s) \in Nat
        /\ \A k \in 1 .. Len(t) : at[k] \in places /\ at[k] \in 1 .. Len(s)
    <2>1. DOMAIN t = 1 .. Len(t) /\ DOMAIN s = 1 .. Len(s) /\ Len(s) \in Nat
      BY <1>1
    <2>2. \A i \in places : i \in 1 .. Len(s)
      BY <2>1
    <2>3. \A k \in 1 .. Len(t) : at[k] \in places
      BY <1>2
    <2> QED BY <2>1, <2>2, <2>3
  <1>4. BytesOf(t) <= BytesOf(s)
    <2> DEFINE q == [i \in DOMAIN s |-> Bytes(s[i].items)]
               p == [i \in DOMAIN t |-> Bytes(t[i].items)]
    <2>1. q \in Seq(Nat) /\ Len(q) = Len(s) /\ p \in Seq(Nat) /\ Len(p) = Len(t)
      BY <1>1, SizesOf
    <2>2. \A k \in 1 .. Len(t) : p[k] = q[at[k]]
      BY <1>2, <1>3
    <2>3. BytesOf(t) = TotalOf(p) /\ BytesOf(s) = TotalOf(q)
      BY DEF BytesOf
    <2> HIDE DEF p, q
    <2>4. at \in [1 .. Len(p) -> 1 .. Len(q)]
      BY <1>2, <1>3, <2>1
    <2>5. TotalOf(p) <= TotalOf(q)
      BY <1>2, <2>1, <2>2, <2>4, TotalOfSome
    <2> QED BY <2>3, <2>5
  <1>5. ASSUME NEW o PROVE Cardinality(Owned(t, o)) <= Cardinality(Owned(s, o) \cap places)
    <2>1. IsFiniteSet(Owned(s, o) \cap places)
      <3>1. Owned(s, o) \cap places \in SUBSET Owned(s, o)
        OBVIOUS
      <3> QED BY <3>1, OwnedFinite, FS_Subset
    <2>2. \A k \in Owned(t, o) : at[k] \in Owned(s, o) \cap places
      BY <1>2, <1>3 DEF Owned
    <2>3. \A k, l \in Owned(t, o) : at[k] = at[l] => k = l
      <3>1. \A k, l \in 1 .. Len(t) : at[k] \in Nat /\ at[l] \in Nat
        BY <1>3
      <3>2. \A k, l \in 1 .. Len(t) : at[k] = at[l] => ~(k < l) /\ ~(l < k)
        BY <1>2, <3>1
      <3> QED BY <1>1, <1>3, <3>2 DEF Owned
    <2> QED BY <2>1, <2>2, <2>3, Into
  <1>6. \A k \in DOMAIN t : \E i \in DOMAIN s : t[k] = s[i]
    BY <1>2, <1>3
  <1> QED BY <1>1, <1>4, <1>5, <1>6 DEF t

(* With its oldest lists dropped an owner has place for one more. *)
LEMMA OwnRoom ==
    ASSUME NEW s \in Seq(FrozenLists), NEW o
    PROVE  /\ OwnMadeRoom(s, o) \in Seq(FrozenLists)
           /\ \A k \in DOMAIN OwnMadeRoom(s, o) : \E i \in DOMAIN s : OwnMadeRoom(s, o)[k] = s[i]
           /\ Cardinality(Owned(OwnMadeRoom(s, o), o)) <= MaxOwnerEntries - 1
           /\ \A p : Cardinality(Owned(OwnMadeRoom(s, o), p)) <= Cardinality(Owned(s, p))
  <1> DEFINE Later(i) == {j \in Owned(s, o) : j > i}
             places == {i \in DOMAIN s : s[i].owner = o => Cardinality(Later(i)) < MaxOwnerEntries - 1}
             kept == Owned(s, o) \cap places
             t == Kept(s, places)
  <1>1. OwnMadeRoom(s, o) = t
    BY DEF OwnMadeRoom
  <1>2. places \in SUBSET DOMAIN s
    OBVIOUS
  <1>3. /\ IsFiniteSet(kept) /\ kept \in SUBSET Nat /\ kept \in SUBSET Owned(s, o)
        /\ Cardinality(kept) \in Nat
    <2>1. kept \in SUBSET Owned(s, o)
      OBVIOUS
    <2> HIDE DEF kept
    <2>2. IsFiniteSet(kept)
      BY <2>1, OwnedFinite, FS_Subset
    <2>3. Owned(s, o) \in SUBSET Nat
      BY OwnedFinite
    <2> QED BY <2>1, <2>2, <2>3, FS_CardinalityType
  <1>4. Cardinality(kept) <= MaxOwnerEntries - 1
    <2>0. MaxOwnerEntries \in Nat /\ MaxOwnerEntries > 0
      OBVIOUS
    <2>1. CASE kept = {}
      <3>1. Cardinality(kept) = 0
        BY <2>1, FS_EmptySet
      <3> HIDE DEF kept
      <3> QED BY <2>0, <3>1
    <2>2. CASE kept # {}
      <3>1. PICK i \in kept : \A j \in kept : i <= j
        <4> HIDE DEF kept
        <4> QED BY <1>3, <2>2, SmallestNat
      <3>2. Cardinality(Later(i)) < MaxOwnerEntries - 1
        BY DEF Owned
      <3>3. kept \ {i} \in SUBSET Later(i)
        <4> HIDE DEF kept
        <4>1. \A j \in kept : j \in Owned(s, o) /\ j \in Nat /\ i <= j /\ i \in Nat
          BY <1>3, <3>1
        <4>2. \A j \in kept \ {i} : j > i
          BY <4>1
        <4> QED BY <4>1, <4>2
      <3>4. IsFiniteSet(Later(i)) /\ Cardinality(Later(i)) \in Nat
        <4>1. Later(i) \in SUBSET Owned(s, o)
          OBVIOUS
        <4> HIDE DEF Later
        <4>2. IsFiniteSet(Later(i))
          BY <4>1, OwnedFinite, FS_Subset
        <4> QED BY <4>2, FS_CardinalityType
      <3> HIDE DEF kept, Later
      <3>5. Cardinality(kept \ {i}) <= Cardinality(Later(i))
        BY <3>3, <3>4, FS_Subset
      <3>6. Cardinality(kept \ {i}) = Cardinality(kept) - 1
        BY <1>3, <3>1, FS_RemoveElement
      <3> QED BY <1>3, <2>0, <3>2, <3>4, <3>5, <3>6
    <2> QED BY <2>1, <2>2
  <1> HIDE DEF places, t
  <1>5. /\ t \in Seq(FrozenLists)
        /\ \A k \in DOMAIN t : \E i \in DOMAIN s : t[k] = s[i]
        /\ \A p : Cardinality(Owned(t, p)) <= Cardinality(Owned(s, p) \cap places)
    BY <1>2, KeptLists DEF t
  <1>6. Cardinality(Owned(t, o)) <= MaxOwnerEntries - 1
    <2>1. Cardinality(Owned(t, o)) <= Cardinality(kept)
      BY <1>5
    <2>2. Cardinality(Owned(t, o)) \in Nat
      BY <1>5, OwnedFinite
    <2> HIDE DEF kept
    <2> QED BY <1>3, <1>4, <2>1, <2>2
  <1>7. ASSUME NEW p PROVE Cardinality(Owned(t, p)) <= Cardinality(Owned(s, p))
    <2>1. Owned(s, p) \cap places \in SUBSET Owned(s, p)
      OBVIOUS
    <2>2. /\ Cardinality(Owned(s, p) \cap places) <= Cardinality(Owned(s, p))
          /\ Cardinality(Owned(s, p) \cap places) \in Nat
      BY <2>1, OwnedFinite, FS_Subset, FS_CardinalityType
    <2>3. Cardinality(Owned(t, p)) \in Nat /\ Cardinality(Owned(s, p)) \in Nat
      BY <1>5, OwnedFinite
    <2> QED BY <1>5, <2>2, <2>3
  <1> QED BY <1>1, <1>5, <1>6, <1>7

(* What follows the first n lists. *)
LEMMA RestLists ==
    ASSUME NEW s \in Seq(FrozenLists), NEW n \in 0 .. Len(s)
    PROVE  /\ SubSeq(s, n + 1, Len(s)) \in Seq(FrozenLists)
           /\ Len(SubSeq(s, n + 1, Len(s))) = Len(s) - n
           /\ \A k \in DOMAIN SubSeq(s, n + 1, Len(s)) :
                \E i \in DOMAIN s : SubSeq(s, n + 1, Len(s))[k] = s[i]
           /\ \A p : Cardinality(Owned(SubSeq(s, n + 1, Len(s)), p)) <= Cardinality(Owned(s, p))
  <1> DEFINE t == SubSeq(s, n + 1, Len(s))
  <1>1. /\ t \in Seq(FrozenLists) /\ Len(t) = Len(s) - n
        /\ \A k \in 1 .. Len(t) : t[k] = s[k + n] /\ k + n \in 1 .. Len(s)
    <2>1. Len(s) \in Nat /\ n \in Nat /\ n <= Len(s)
      OBVIOUS
    <2>2. \A k \in n + 1 .. Len(s) : s[k] \in FrozenLists
      BY <2>1
    <2>3. t \in Seq(FrozenLists) /\ Len(t) = Len(s) - n
      BY <2>1, <2>2
    <2>4. \A k \in 1 .. Len(s) - n : t[k] = s[k + n]
      BY <2>1
    <2> HIDE DEF t
    <2>5. \A k \in 1 .. Len(s) - n : k + n \in 1 .. Len(s)
      BY <2>1
    <2> QED BY <2>3, <2>4, <2>5
  <1>2. DOMAIN t = 1 .. Len(t) /\ DOMAIN s = 1 .. Len(s) /\ Len(s) \in Nat
    OBVIOUS
  <1> HIDE DEF t
  <1>3. ASSUME NEW p PROVE Cardinality(Owned(t, p)) <= Cardinality(Owned(s, p))
    <2> DEFINE g == [k \in 1 .. Len(t) |-> k + n]
    <2>1. \A k \in Owned(t, p) : k \in 1 .. Len(t) /\ t[k].owner = p /\ g[k] = k + n
      BY <1>2 DEF Owned
    <2>2. \A k \in Owned(t, p) : g[k] \in Owned(s, p)
      BY <1>1, <1>2, <2>1 DEF Owned
    <2>3. \A k, l \in Owned(t, p) : g[k] = g[l] => k = l
      BY <1>1, <1>2, <2>1
    <2> HIDE DEF g
    <2>4. IsFiniteSet(Owned(s, p))
      BY OwnedFinite
    <2> QED BY <2>2, <2>3, <2>4, Into
  <1>4. \A k \in DOMAIN t : \E i \in DOMAIN s : t[k] = s[i]
    BY <1>1, <1>2
  <1> QED BY <1>1, <1>3, <1>4 DEF t

(* The oldest lists go until the new one fits: without any it does. *)
LEMMA RoomIsMade ==
    ASSUME NEW s \in Seq(FrozenLists), NEW items \in Seq(ListedEvents), Bytes(items) <= MaxBytes
    PROVE  /\ RoomFor(s, items) \in Seq(FrozenLists) /\ Len(RoomFor(s, items)) < MaxEntries
           /\ BytesOf(RoomFor(s, items)) + Bytes(items) <= MaxBytes
           /\ \A k \in DOMAIN RoomFor(s, items) : \E i \in DOMAIN s : RoomFor(s, items)[k] = s[i]
           /\ \A p : Cardinality(Owned(RoomFor(s, items), p)) <= Cardinality(Owned(s, p))
  <1> DEFINE Rest(n) == SubSeq(s, n + 1, Len(s))
             Fits(n) == Len(Rest(n)) < MaxEntries /\ BytesOf(Rest(n)) + Bytes(items) <= MaxBytes
             FirstFit(k) == Fits(k) /\ \A l \in 0 .. k - 1 : ~Fits(l)
             T == {k \in 0 .. Len(s) : Fits(k)}
             n == CHOOSE k \in 0 .. Len(s) : FirstFit(k)
  <1>1. RoomFor(s, items) = Rest(n)
    BY DEF RoomFor
  <1>2. Len(s) \in 0 .. Len(s) /\ Fits(Len(s))
    <2>1. Len(s) \in Nat /\ Len(s) \in 0 .. Len(s)
      OBVIOUS
    <2> DEFINE l == Len(s)
               rest == SubSeq(s, l + 1, Len(s))
    <2>2. rest \in Seq(FrozenLists) /\ Len(rest) = 0
      <3>1. l \in 0 .. Len(s)
        BY <2>1
      <3> HIDE DEF l
      <3>2. rest \in Seq(FrozenLists) /\ Len(rest) = Len(s) - l
        BY <3>1, RestLists
      <3> QED BY <2>1, <3>2 DEF l
    <2> HIDE DEF rest
    <2>3. BytesOf(rest) = 0
      BY <2>2, BytesOfNone
    <2>4. Bytes(items) \in Nat /\ MaxEntries \in Nat /\ MaxEntries > 0
      BY BytesType
    <2>5. Len(rest) < MaxEntries /\ BytesOf(rest) + Bytes(items) <= MaxBytes
      BY <2>2, <2>3, <2>4
    <2> QED BY <2>1, <2>5 DEF rest
  <1> HIDE DEF Fits
  <1>3. \E k \in 0 .. Len(s) : FirstFit(k)
    <2>1. T # {} /\ T \in SUBSET Nat
      BY <1>2
    <2>2. PICK m \in T : \A k \in T : m <= k
      <3> HIDE DEF T
      <3> QED BY <2>1, SmallestNat
    <2>3. m \in 0 .. Len(s) /\ Fits(m) /\ m \in Nat /\ Len(s) \in Nat
      BY <2>2
    <2>4. ASSUME NEW l \in 0 .. m - 1 PROVE ~Fits(l)
      <3>1. l \in 0 .. Len(s) /\ ~(m <= l)
        BY <2>3
      <3> QED BY <2>2, <3>1
    <2> QED BY <2>3, <2>4
  <1>4. n \in 0 .. Len(s) /\ FirstFit(n)
    <2> HIDE DEF FirstFit
    <2> QED BY <1>3
  <1> HIDE DEF n
  <1>5. Len(Rest(n)) < MaxEntries /\ BytesOf(Rest(n)) + Bytes(items) <= MaxBytes
    BY <1>4 DEF Fits
  <1>6. /\ Rest(n) \in Seq(FrozenLists)
        /\ \A k \in DOMAIN Rest(n) : \E i \in DOMAIN s : Rest(n)[k] = s[i]
        /\ \A p : Cardinality(Owned(Rest(n), p)) <= Cardinality(Owned(s, p))
    BY <1>4, RestLists
  <1> HIDE DEF Rest
  <1> QED BY <1>1, <1>5, <1>6

(* Two parts of a sequence that follow each other. *)
LEMMA PartsJoin ==
    ASSUME NEW E, NEW l \in Seq(E), NEW a \in Nat, NEW b \in Nat, a <= b, b <= Len(l)
    PROVE  /\ SubSeq(l, 1, a) \in Seq(E) /\ Len(SubSeq(l, 1, a)) = a
           /\ SubSeq(l, 1, a) \o SubSeq(l, a + 1, b) = SubSeq(l, 1, b)
  <1> DEFINE p == SubSeq(l, 1, a)
             q == SubSeq(l, a + 1, b)
             r == SubSeq(l, 1, b)
  <1>0. Len(l) \in Nat /\ \A k \in 1 .. Len(l) : l[k] \in E
    OBVIOUS
  <1>1. p \in Seq(E) /\ Len(p) = a /\ \A k \in 1 .. a : p[k] = l[k]
    BY <1>0
  <1>2. q \in Seq(E) /\ Len(q) = b - a
    BY <1>0
  <1>3. \A k \in 1 .. b - a : q[k] = l[k + a]
    BY <1>0
  <1>4. r \in Seq(E) /\ Len(r) = b /\ \A k \in 1 .. b : r[k] = l[k]
    BY <1>0
  <1> HIDE DEF p, q, r
  <1>5. p \o q \in Seq(E) /\ Len(p \o q) = b
    <2>1. p \in Seq(E) /\ q \in Seq(E)
      BY <1>1, <1>2
    <2>3. p \o q \in Seq(E)
      BY <2>1
    <2>4. Len(p \o q) = Len(p) + Len(q)
      BY <2>1
    <2>2. a + (b - a) = b
      OBVIOUS
    <2> QED BY <1>1, <1>2, <2>2, <2>3, <2>4
  <1>6. ASSUME NEW k \in 1 .. b PROVE (p \o q)[k] = l[k]
    <2>1. CASE k <= a
      BY <1>1, <1>2, <2>1
    <2>2. CASE ~(k <= a)
      <3>1. k - a \in 1 .. b - a /\ k - a + a = k
        BY <2>2
      <3>2. k \in 1 .. Len(p) + Len(q) /\ ~(k <= Len(p)) /\ k - Len(p) = k - a
        BY <1>1, <1>2, <2>2
      <3>3. (p \o q)[k] = q[k - Len(p)]
        <4>1. p \in Seq(E) /\ q \in Seq(E)
          BY <1>1, <1>2
        <4> QED BY <3>2, <4>1
      <3> QED BY <1>3, <3>1, <3>2, <3>3
    <2> QED BY <2>1, <2>2
  <1>7. p \o q = r
    <2> DEFINE pq == p \o q
    <2>1. pq \in Seq(E) /\ Len(pq) = Len(r) /\ \A k \in 1 .. Len(r) : pq[k] = r[k]
      BY <1>4, <1>5, <1>6
    <2> HIDE DEF pq
    <2>2. pq = r
      BY <1>4, <2>1
    <2> QED BY <2>2 DEF pq
  <1> QED BY <1>1, <1>7 DEF p, q, r

Building(b) == {o \in PageReaders : b[o] # NoBuild}

(* The readers whose requests read, when one begins, reads or ends. *)
LEMMA BuildingChanges ==
    ASSUME NEW b \in [PageReaders -> PageBuilds \cup {NoBuild}], NEW o \in PageReaders,
           NEW x \in PageBuilds \cup {NoBuild}
    PROVE  LET c == [b EXCEPT ![o] = x] IN
           /\ c \in [PageReaders -> PageBuilds \cup {NoBuild}]
           /\ Cardinality(Building(b)) \in Nat
           /\ Cardinality(Building(c)) = Cardinality(Building(b))
                  + (IF b[o] = NoBuild THEN 0 ELSE -1) + (IF x = NoBuild THEN 0 ELSE 1)
  <1> DEFINE c == [b EXCEPT ![o] = x]
  <1>1. c \in [PageReaders -> PageBuilds \cup {NoBuild}]
    OBVIOUS
  <1>2. IsFiniteSet(Building(b)) /\ Cardinality(Building(b)) \in Nat
    <2>1. Building(b) \in SUBSET PageReaders /\ IsFiniteSet(PageReaders)
      BY DEF Building
    <2>2. IsFiniteSet(Building(b))
      BY <2>1, FS_Subset
    <2> QED BY <2>2, FS_CardinalityType
  <1>3. /\ c[o] = x /\ (o \in Building(b) <=> b[o] # NoBuild)
        /\ \A p \in PageReaders : p # o => c[p] = b[p]
    BY DEF Building
  <1> DEFINE B == Building(b)
             C == Building(c)
             n == Cardinality(B)
             m == Cardinality(C)
  <1>4. IF x = NoBuild THEN C = B \ {o} ELSE C = B \cup {o}
    BY <1>3 DEF Building
  <1>5. /\ IsFiniteSet(B) /\ n \in Nat /\ (o \in B <=> b[o] # NoBuild)
        /\ Cardinality(B) = n /\ Cardinality(C) = m
    BY <1>2, <1>3
  <1> HIDE DEF B, C, n, m, c
  <1>6. o \in B => Cardinality(B \ {o}) = n - 1
    BY <1>5, FS_RemoveElement
  <1>7. o \notin B => Cardinality(B \cup {o}) = n + 1
    BY <1>5, FS_AddElement
  <1>8. (o \notin B => B \ {o} = B) /\ (o \in B => B \cup {o} = B)
    OBVIOUS
  <1>9. m = n + (IF b[o] = NoBuild THEN 0 ELSE -1) + (IF x = NoBuild THEN 0 ELSE 1)
    <2>1. CASE x = NoBuild /\ o \in B
      <3>1. C = B \ {o}
        BY <1>4, <2>1
      <3>2. m = n - 1
        BY <1>5, <1>6, <2>1, <3>1
      <3> QED BY <1>5, <2>1, <3>2
    <2>2. CASE x = NoBuild /\ o \notin B
      <3>1. C = B \ {o}
        BY <1>4, <2>2
      <3>2. m = n
        BY <1>5, <1>8, <2>2, <3>1
      <3> QED BY <1>5, <2>2, <3>2
    <2>3. CASE x # NoBuild /\ o \in B
      <3>1. C = B \cup {o}
        BY <1>4, <2>3
      <3>2. m = n
        BY <1>5, <1>8, <2>3, <3>1
      <3> QED BY <1>5, <2>3, <3>2
    <2>4. CASE x # NoBuild /\ o \notin B
      <3>1. C = B \cup {o}
        BY <1>4, <2>4
      <3>2. m = n + 1
        BY <1>5, <1>7, <2>4, <3>1
      <3> QED BY <1>5, <2>4, <3>2
    <2> QED BY <2>1, <2>2, <2>3, <2>4
  <1> QED BY <1>1, <1>5, <1>9 DEF B, C, n, m, c

LEMMA ListsBegin ==
    ASSUME PageInit PROVE PagesInv
  <1>1. PageShape
    <2>1. entries \in Seq(FrozenLists) /\ table \in Seq(ListedEvents)
      BY DEF PageInit
    <2> QED BY <2>1 DEF PageInit, PageShape
  <1>2. FollowedIsWalked /\ PagesAreWhole
    BY DEF PageInit, FollowedIsWalked, PagesAreWhole
  <1>3. StoreIsBounded
    <2>1. entries \in Seq(FrozenLists) /\ Len(entries) = 0 /\ DOMAIN entries = {}
      BY DEF PageInit
    <2>2. BytesOf(entries) = 0
      BY <2>1, BytesOfNone
    <2>3. \A o : Owned(entries, o) = {}
      BY <2>1 DEF Owned
    <2>4. {o \in PageReaders : building[o] # NoBuild} = {}
      BY DEF PageInit
    <2>5. Cardinality({}) = 0
      BY FS_EmptySet
    <2>6. MaxBytes \in Nat /\ MaxEntries \in Nat /\ MaxOwnerEntries \in Nat
      OBVIOUS
    <2>7. bytes = 0 /\ builds = 0
      BY DEF PageInit
    <2>8. bytes <= MaxBytes /\ Len(entries) <= MaxEntries /\ 0 <= MaxOwnerEntries
      BY <2>1, <2>6, <2>7
    <2> QED BY <2>2, <2>3, <2>4, <2>5, <2>7, <2>8 DEF StoreIsBounded
  <1> QED BY <1>1, <1>2, <1>3 DEF PagesInv

(* A step of a request that leaves the store as it is. *)
LEMMA BuildingMoves ==
    ASSUME PagesInv, NEW o \in PageReaders, NEW x \in PageBuilds \cup {NoBuild},
           building' = [building EXCEPT ![o] = x],
           builds' = builds + (IF building[o] = NoBuild THEN 0 ELSE -1)
                            + (IF x = NoBuild THEN 0 ELSE 1),
           UNCHANGED <<table, entries, bytes, walk>>
    PROVE  PagesInv'
  <1>1. building \in [PageReaders -> PageBuilds \cup {NoBuild}]
    BY DEF PagesInv, PageShape
  <1>2. /\ building' \in [PageReaders -> PageBuilds \cup {NoBuild}]
        /\ Cardinality(Building(building')) = builds'
    <2>1. builds = Cardinality(Building(building))
      BY DEF PagesInv, StoreIsBounded, Building
    <2> QED BY <1>1, <2>1, BuildingChanges
  <1>3. PageShape'
    BY <1>2 DEF PagesInv, PageShape
  <1>4. FollowedIsWalked' /\ PagesAreWhole'
    BY DEF PagesInv, FollowedIsWalked, PagesAreWhole
  <1>5. StoreIsBounded'
    BY <1>2 DEF PagesInv, StoreIsBounded, Building
  <1> QED BY <1>3, <1>4, <1>5 DEF PagesInv

LEMMA RequestMoves ==
    ASSUME PagesInv, NEW o \in PageReaders, BeginBuild(o) \/ ReadTable(o) \/ BuildFails(o)
    PROVE  PagesInv'
  <1>0. NoBuild \notin PageBuilds /\ table \in Seq(ListedEvents) /\ builds \in Int
    <2>1. builds = Cardinality(Building(building)) /\ building \in [PageReaders -> PageBuilds \cup {NoBuild}]
      BY DEF PagesInv, PageShape, StoreIsBounded, Building
    <2>2. Cardinality(Building(building)) \in Nat
      BY <2>1, BuildingChanges
    <2> QED BY <2>1, <2>2 DEF PagesInv, PageShape, PageBuilds
  <1>1. CASE BeginBuild(o)
    <2> DEFINE x == [read |-> FALSE, items |-> <<>>]
    <2>1. x \in PageBuilds
      BY DEF PageBuilds
    <2>2. building' = [building EXCEPT ![o] = x] /\ building[o] = NoBuild /\ builds' = builds + 1
      BY <1>1 DEF BeginBuild
    <2>3. UNCHANGED <<table, entries, bytes, walk>>
      BY <1>1 DEF BeginBuild
    <2> HIDE DEF x
    <2>4. x # NoBuild
      BY <1>0, <2>1
    <2>5. builds' = builds + (IF building[o] = NoBuild THEN 0 ELSE -1)
                           + (IF x = NoBuild THEN 0 ELSE 1)
      BY <1>0, <2>2, <2>4
    <2>6. x \in PageBuilds \cup {NoBuild} /\ building' = [building EXCEPT ![o] = x]
      BY <2>1, <2>2
    <2> QED BY <2>3, <2>5, <2>6, BuildingMoves
  <1>2. CASE ReadTable(o)
    <2> DEFINE x == [read |-> TRUE, items |-> table]
    <2>1. x \in PageBuilds
      BY <1>0 DEF PageBuilds
    <2>2. building' = [building EXCEPT ![o] = x] /\ building[o] # NoBuild /\ builds' = builds
      BY <1>2 DEF ReadTable
    <2>3. UNCHANGED <<table, entries, bytes, walk>>
      BY <1>2 DEF ReadTable
    <2> HIDE DEF x
    <2>4. x # NoBuild
      BY <1>0, <2>1
    <2>5. builds' = builds + (IF building[o] = NoBuild THEN 0 ELSE -1)
                           + (IF x = NoBuild THEN 0 ELSE 1)
      BY <1>0, <2>2, <2>4
    <2>6. x \in PageBuilds \cup {NoBuild} /\ building' = [building EXCEPT ![o] = x]
      BY <2>1, <2>2
    <2> QED BY <2>3, <2>5, <2>6, BuildingMoves
  <1>3. CASE BuildFails(o)
    <2>1. building' = [building EXCEPT ![o] = NoBuild] /\ building[o] # NoBuild
      BY <1>3 DEF BuildFails
    <2>2. builds' = builds - 1 /\ UNCHANGED <<table, entries, bytes, walk>>
      BY <1>3 DEF BuildFails, TurnGivenBack
    <2>3. builds' = builds + (IF building[o] = NoBuild THEN 0 ELSE -1)
                           + (IF NoBuild = NoBuild THEN 0 ELSE 1)
      BY <1>0, <2>1, <2>2
    <2>4. NoBuild \in PageBuilds \cup {NoBuild} /\ building' = [building EXCEPT ![o] = NoBuild]
      BY <2>1
    <2> QED BY <2>2, <2>3, <2>4, BuildingMoves
  <1> QED BY <1>1, <1>2, <1>3

(* The store without the lists that ran out. *)
LEMMA AfterPruning ==
    ASSUME PagesInv
    PROVE  /\ Pruned \in Seq(FrozenLists) /\ Len(Pruned) <= MaxEntries
           /\ BytesOf(Pruned) \in Nat /\ BytesOf(Pruned) <= MaxBytes
           /\ AfterPrune = BytesOf(Pruned)
           /\ \A p \in PageReaders : Cardinality(Owned(Pruned, p)) <= MaxOwnerEntries
           /\ \A k \in DOMAIN Pruned :
                Pruned[k].followed => walk # NoWalk /\ Pruned[k].items = walk.list
  <1> DEFINE places == {i \in DOMAIN entries : entries[i].left > 0}
  <1>1. entries \in Seq(FrozenLists) /\ Pruned = Kept(entries, places)
    BY DEF PagesInv, PageShape, Pruned
  <1>2. places \in SUBSET DOMAIN entries
    OBVIOUS
  <1> HIDE DEF places
  <1>3. /\ Pruned \in Seq(FrozenLists) /\ Len(Pruned) <= Len(entries)
        /\ BytesOf(Pruned) <= BytesOf(entries)
        /\ \A k \in DOMAIN Pruned : \E i \in DOMAIN entries : Pruned[k] = entries[i]
        /\ \A p : Cardinality(Owned(Pruned, p)) <= Cardinality(Owned(entries, p) \cap places)
    BY <1>1, <1>2, KeptLists
  <1>4. /\ bytes = BytesOf(entries) /\ bytes <= MaxBytes /\ Len(entries) <= MaxEntries
        /\ \A p \in PageReaders : Cardinality(Owned(entries, p)) <= MaxOwnerEntries
    BY DEF PagesInv, StoreIsBounded
  <1>5. /\ BytesOf(Pruned) \in Nat /\ BytesOf(entries) \in Nat
        /\ Len(Pruned) \in Nat /\ Len(entries) \in Nat
    <2>1. BytesOf(Pruned) \in Nat /\ BytesOf(entries) \in Nat
      BY <1>1, <1>3, SizesOf
    <2>2. \A s \in Seq(FrozenLists) : Len(s) \in Nat
      OBVIOUS
    <2> QED BY <1>1, <1>3, <2>1, <2>2
  <1>6. MaxBytes \in Nat /\ MaxEntries \in Nat /\ MaxOwnerEntries \in Nat
    OBVIOUS
  <1>7. BytesOf(Pruned) <= MaxBytes /\ Len(Pruned) <= MaxEntries
    BY <1>3, <1>4, <1>5, <1>6
  <1>8. AfterPrune = BytesOf(Pruned)
    BY <1>4, <1>5 DEF AfterPrune
  <1>9. ASSUME NEW p \in PageReaders PROVE Cardinality(Owned(Pruned, p)) <= MaxOwnerEntries
    <2>1. Owned(entries, p) \cap places \in SUBSET Owned(entries, p)
      OBVIOUS
    <2>2. /\ Cardinality(Owned(entries, p) \cap places) <= Cardinality(Owned(entries, p))
          /\ Cardinality(Owned(entries, p) \cap places) \in Nat
      BY <1>1, <2>1, OwnedFinite, FS_Subset, FS_CardinalityType
    <2>3. Cardinality(Owned(Pruned, p)) \in Nat /\ Cardinality(Owned(entries, p)) \in Nat
      BY <1>1, <1>3, OwnedFinite
    <2>4. /\ Cardinality(Owned(Pruned, p)) <= Cardinality(Owned(entries, p) \cap places)
          /\ Cardinality(Owned(entries, p)) <= MaxOwnerEntries
      BY <1>3, <1>4
    <2> QED BY <1>6, <2>2, <2>3, <2>4
  <1>10. \A k \in DOMAIN Pruned :
            Pruned[k].followed => walk # NoWalk /\ Pruned[k].items = walk.list
    BY <1>3 DEF PagesInv, FollowedIsWalked
  <1> QED BY <1>3, <1>5, <1>7, <1>8, <1>9, <1>10

LEMMA PutKeeps ==
    ASSUME PagesInv, NEW o \in PageReaders, PutList(o)
    PROVE  PagesInv'
  <1> DEFINE items == building[o].items
             own   == OwnMadeRoom(Pruned, o)
             room  == RoomFor(own, items)
             entry == [followed |-> o = Follower, owner |-> o, items |-> items, left |-> PageTTL]
             mid   == [i \in DOMAIN room |-> [room[i] EXCEPT !.followed = @ /\ o # Follower]]
  <1>1. /\ building \in [PageReaders -> PageBuilds \cup {NoBuild}] /\ building[o] # NoBuild
        /\ building[o] \in PageBuilds /\ items \in Seq(ListedEvents) /\ Bytes(items) <= MaxBytes
        /\ table \in Seq(ListedEvents)
    <2>1. building \in [PageReaders -> PageBuilds \cup {NoBuild}] /\ table \in Seq(ListedEvents)
      BY DEF PagesInv, PageShape
    <2>2. building[o] # NoBuild /\ Bytes(items) <= MaxBytes
      BY DEF PutList
    <2>3. building[o] \in PageBuilds
      BY <2>1, <2>2
    <2> QED BY <2>1, <2>2, <2>3 DEF PageBuilds
  <1>2. /\ entries' = Append(mid, entry)
        /\ bytes' = AfterPrune - (BytesOf(Pruned) - BytesOf(room)) + Bytes(items)
    BY DEF PutList
  <1>3. walk' = IF o # Follower THEN walk
                ELSE [list |-> items, got |-> Page(items, 1), page |-> 1]
    BY DEF PutList, ItemsOf
  <1>4. builds' = builds - 1 /\ building' = [building EXCEPT ![o] = NoBuild] /\ UNCHANGED table
    BY DEF PutList
  <1> HIDE DEF items
  <1>5. /\ own \in Seq(FrozenLists)
        /\ \A k \in DOMAIN own : \E i \in DOMAIN Pruned : own[k] = Pruned[i]
        /\ Cardinality(Owned(own, o)) <= MaxOwnerEntries - 1
        /\ \A p : Cardinality(Owned(own, p)) <= Cardinality(Owned(Pruned, p))
    BY AfterPruning, OwnRoom
  <1> HIDE DEF own
  <1>6. /\ room \in Seq(FrozenLists) /\ Len(room) < MaxEntries
        /\ BytesOf(room) + Bytes(items) <= MaxBytes
        /\ \A k \in DOMAIN room : \E i \in DOMAIN own : room[k] = own[i]
        /\ \A p : Cardinality(Owned(room, p)) <= Cardinality(Owned(own, p))
    BY <1>1, <1>5, RoomIsMade
  <1> HIDE DEF room
  <1>7. /\ DOMAIN room = 1 .. Len(room) /\ Len(room) \in Nat
        /\ \A k \in 1 .. Len(room) : room[k] \in FrozenLists
    BY <1>6
  <1>8. ASSUME NEW k \in 1 .. Len(room)
        PROVE  [room[k] EXCEPT !.followed = @ /\ o # Follower]
                 = [followed |-> room[k].followed /\ o # Follower, owner |-> room[k].owner,
                    items |-> room[k].items, left |-> room[k].left]
    BY <1>7 DEF FrozenLists
  <1>9. \A k \in 1 .. Len(room) :
            /\ mid[k] \in FrozenLists
            /\ mid[k].owner = room[k].owner /\ mid[k].items = room[k].items
            /\ mid[k].followed => o # Follower /\ room[k].followed
    BY <1>7, <1>8 DEF FrozenLists
  <1>10. mid \in Seq(FrozenLists) /\ Len(mid) = Len(room) /\ DOMAIN mid = 1 .. Len(room)
    <2>1. mid = [k \in 1 .. Len(room) |-> mid[k]] /\ DOMAIN mid = 1 .. Len(room)
      BY <1>7
    <2> HIDE DEF mid
    <2>2. mid \in [1 .. Len(room) -> FrozenLists]
      BY <1>9, <2>1
    <2> QED BY <1>7, <2>1, <2>2
  <1>11. entry \in FrozenLists /\ entry.items = items /\ entry.owner = o
         /\ (entry.followed <=> o = Follower)
    BY <1>1 DEF FrozenLists
  <1> HIDE DEF mid, entry
  <1>12. /\ entries' \in Seq(FrozenLists) /\ Len(entries') = Len(room) + 1
         /\ DOMAIN entries' = 1 .. Len(room) + 1 /\ entries'[Len(room) + 1] = entry
         /\ \A k \in 1 .. Len(room) : entries'[k] = mid[k]
    BY <1>2, <1>7, <1>10, <1>11
  <1>13. BytesOf(mid) = BytesOf(room) /\ \A p : Owned(mid, p) = Owned(room, p)
    BY <1>6, <1>9, <1>10, AlikeLists
  <1>14. bytes' = BytesOf(entries') /\ bytes' <= MaxBytes /\ Len(entries') <= MaxEntries
    <2>1. BytesOf(entries') = BytesOf(room) + Bytes(items)
      BY <1>2, <1>10, <1>11, <1>13, BytesAppend
    <2>2. BytesOf(room) \in Nat /\ Bytes(items) \in Nat /\ AfterPrune = BytesOf(Pruned)
          /\ BytesOf(Pruned) \in Nat
      BY <1>1, <1>6, AfterPruning, SizesOf, BytesType
    <2>3. bytes' = BytesOf(entries')
      BY <1>2, <2>1, <2>2
    <2>4. MaxEntries \in Nat
      OBVIOUS
    <2> QED BY <1>6, <1>7, <1>12, <2>1, <2>3, <2>4
  <1>15. ASSUME NEW p \in PageReaders PROVE Cardinality(Owned(entries', p)) <= MaxOwnerEntries
    <2>0. MaxOwnerEntries \in Nat
      OBVIOUS
    <2>1. /\ Cardinality(Owned(room, p)) \in Nat /\ IsFiniteSet(Owned(room, p))
          /\ Owned(room, p) \in SUBSET (1 .. Len(room))
          /\ Cardinality(Owned(own, p)) \in Nat /\ Cardinality(Owned(Pruned, p)) \in Nat
      BY <1>5, <1>6, AfterPruning, OwnedFinite
    <2>2. \A k \in 1 .. Len(room) : entries'[k].owner = room[k].owner
      BY <1>9, <1>12
    <2>3. CASE p = o
      <3>1. Owned(entries', o) = Owned(room, o) \cup {Len(room) + 1}
        BY <1>7, <1>11, <1>12, <2>2 DEF Owned
      <3>2. Len(room) + 1 \notin Owned(room, o)
        BY <1>7, <2>1, <2>3
      <3>3. Cardinality(Owned(entries', o)) = Cardinality(Owned(room, o)) + 1
        BY <2>1, <2>3, <3>1, <3>2, FS_AddElement
      <3>4. Cardinality(Owned(room, o)) <= Cardinality(Owned(own, o))
            /\ Cardinality(Owned(own, o)) <= MaxOwnerEntries - 1
        BY <1>5, <1>6
      <3> QED BY <2>0, <2>1, <2>3, <3>3, <3>4
    <2>4. CASE p # o
      <3>1. Owned(entries', p) = Owned(room, p)
        BY <1>7, <1>11, <1>12, <2>2, <2>4 DEF Owned
      <3>2. /\ Cardinality(Owned(room, p)) <= Cardinality(Owned(own, p))
            /\ Cardinality(Owned(own, p)) <= Cardinality(Owned(Pruned, p))
            /\ Cardinality(Owned(Pruned, p)) <= MaxOwnerEntries
        BY <1>5, <1>6, AfterPruning
      <3> QED BY <2>0, <2>1, <3>1, <3>2
    <2> QED BY <2>3, <2>4
  <1>16. builds' = Cardinality(Building(building')) /\ building' \in [PageReaders -> PageBuilds \cup {NoBuild}]
    <2>1. builds = Cardinality(Building(building))
      BY DEF PagesInv, StoreIsBounded, Building
    <2>2. /\ building' \in [PageReaders -> PageBuilds \cup {NoBuild}]
          /\ Cardinality(Building(building)) \in Nat
          /\ Cardinality(Building(building')) = Cardinality(Building(building))
               + (IF building[o] = NoBuild THEN 0 ELSE -1) + (IF NoBuild = NoBuild THEN 0 ELSE 1)
      BY <1>1, <1>4, BuildingChanges
    <2> QED BY <1>1, <1>4, <2>1, <2>2
  <1>17. StoreIsBounded'
    BY <1>14, <1>15, <1>16 DEF StoreIsBounded, Building
  <1>18. \A k \in 1 .. Len(room) :
            entries'[k].followed => /\ o # Follower /\ walk # NoWalk
                                    /\ entries'[k].items = walk.list
    <2>1. ASSUME NEW k \in 1 .. Len(room), entries'[k].followed
          PROVE  o # Follower /\ walk # NoWalk /\ entries'[k].items = walk.list
      <3>1. o # Follower /\ room[k].followed /\ entries'[k].items = room[k].items
        BY <1>9, <1>12, <2>1
      <3>2. PICK i \in DOMAIN own : room[k] = own[i]
        BY <1>6, <1>7
      <3>3. PICK j \in DOMAIN Pruned : own[i] = Pruned[j]
        BY <1>5, <3>2
      <3>4. Pruned[j].followed
        BY <3>1, <3>2, <3>3
      <3>5. walk # NoWalk /\ Pruned[j].items = walk.list
        BY <3>3, <3>4, AfterPruning
      <3> QED BY <3>1, <3>2, <3>3, <3>5
    <2> QED BY <2>1
  <1>19. walk' \in Walks \cup {NoWalk} /\ FollowedIsWalked' /\ PagesAreWhole'
    <2>1. CASE o # Follower
      <3>1. walk' = walk
        BY <1>3, <2>1
      <3>2. FollowedIsWalked'
        BY <1>11, <1>12, <1>18, <2>1, <3>1 DEF FollowedIsWalked
      <3> QED BY <3>1, <3>2 DEF PagesInv, PageShape, PagesAreWhole
    <2>2. CASE o = Follower
      <3> DEFINE n == IF PageSize < Len(items) THEN PageSize ELSE Len(items)
                 w == [list |-> items, got |-> Page(items, 1), page |-> 1]
      <3>1. PageSize \in Nat /\ Len(items) \in Nat /\ n \in Nat /\ n <= Len(items)
        BY <1>1
      <3>2. 1 * PageSize = PageSize /\ (1 - 1) * PageSize + 1 = 1
        BY <3>1
      <3>3. Page(items, 1) = SubSeq(items, 1, n)
        BY <3>2 DEF Page
      <3> HIDE DEF n
      <3>4. Page(items, 1) \in Seq(ListedEvents) /\ Len(Page(items, 1)) = n
        BY <1>1, <3>1, <3>3, PartsJoin
      <3>5. w \in Walks /\ w.list = items /\ w.got = Page(items, 1) /\ w.page = 1
        BY <1>1, <3>4 DEF Walks
      <3> HIDE DEF w
      <3>6. walk' = w
        BY <1>3, <2>2 DEF w
      <3>7. w # NoWalk
        BY <3>5 DEF Walks
      <3>8. FollowedIsWalked'
        BY <1>11, <1>12, <1>18, <2>2, <3>5, <3>6, <3>7 DEF FollowedIsWalked
      <3>9. Len(w.got) = IF w.page * PageSize < Len(w.list) THEN w.page * PageSize ELSE Len(w.list)
        BY <3>1, <3>2, <3>4, <3>5 DEF n
      <3>10. w.got = SubSeq(w.list, 1, Len(w.got))
        BY <3>3, <3>4, <3>5
      <3> QED BY <3>5, <3>6, <3>8, <3>9, <3>10 DEF PagesAreWhole
    <2> QED BY <2>1, <2>2
  <1>20. PageShape'
    BY <1>1, <1>4, <1>12, <1>16, <1>19 DEF PageShape
  <1> QED BY <1>17, <1>19, <1>20 DEF PagesInv

LEMMA PageIs ==
    ASSUME NEW l, NEW n, NEW a, a = (n - 1) * PageSize
    PROVE  Page(l, n) = SubSeq(l, a + 1, IF n * PageSize < Len(l) THEN n * PageSize ELSE Len(l))
  BY Zenon DEF Page

LEMMA WalkGoesOn ==
    ASSUME NEW w \in Walks, NEW g, NEW p
    PROVE  [w EXCEPT !.got = g, !.page = p] = [list |-> w.list, got |-> g, page |-> p]
  <1> DEFINE x == [w EXCEPT !.got = g]
  <1>1. x = [list |-> w.list, got |-> g, page |-> w.page]
    BY DEF Walks
  <1>2. [x EXCEPT !.page = p] = [list |-> w.list, got |-> g, page |-> p]
    <2> HIDE DEF x
    <2> QED BY <1>1
  <1> QED BY <1>2

LEMMA TurnKeeps ==
    ASSUME PagesInv, TurnPage
    PROVE  PagesInv'
  <1> DEFINE found == {i \in DOMAIN Pruned : Pruned[i].followed}
  <1>1. /\ entries' = Pruned /\ bytes' = AfterPrune /\ walk # NoWalk
        /\ UNCHANGED <<table, builds, building>>
    BY DEF TurnPage
  <1>2. StoreIsBounded'
    BY <1>1, AfterPruning DEF PagesInv, StoreIsBounded
  <1>3. walk \in Walks /\ PagesAreWhole
    BY <1>1 DEF PagesInv, PageShape
  <1>4. walk' \in Walks \cup {NoWalk} /\ FollowedIsWalked' /\ PagesAreWhole'
    <2>1. CASE found = {}
      <3>1. walk' = NoWalk
        BY <2>1 DEF TurnPage
      <3> QED BY <1>1, <2>1, <3>1 DEF FollowedIsWalked, PagesAreWhole
    <2>2. CASE found # {}
      <3> DEFINE i == CHOOSE i \in found : TRUE
                 items == Pruned[i].items
                 a == walk.page * PageSize
                 b == IF (walk.page + 1) * PageSize < Len(walk.list)
                        THEN (walk.page + 1) * PageSize ELSE Len(walk.list)
                 part == SubSeq(walk.list, a + 1, b)
                 w == [walk EXCEPT !.got = @ \o part, !.page = walk.page + 1]
      <3>1. i \in found
        BY <2>2
      <3>2. /\ walk.page * PageSize < Len(Pruned[i].items)
            /\ walk' = [walk EXCEPT !.got = @ \o Page(Pruned[i].items, walk.page + 1),
                                    !.page = walk.page + 1]
        BY <2>2 DEF TurnPage, ItemsOf
      <3>3. Pruned[i].items = walk.list
        BY <3>1, AfterPruning
      <3>4. /\ walk.list \in Seq(ListedEvents) /\ walk.got \in Seq(ListedEvents)
            /\ walk.page \in Nat /\ PageSize \in Nat /\ Len(walk.list) \in Nat
        BY <1>3 DEF Walks
      <3>5. /\ a \in Nat /\ (walk.page + 1) * PageSize = a + PageSize
            /\ ((walk.page + 1) - 1) * PageSize = a
        <4>1. a \in Nat /\ (walk.page + 1) * PageSize = a + PageSize
          BY <3>4
        <4>2. (walk.page + 1) - 1 = walk.page
          BY <3>4
        <4> QED BY <4>1, <4>2
      <3>6. a < Len(walk.list)
        BY <3>2, <3>3
      <3>7. Page(walk.list, walk.page + 1) = part
        <4> HIDE DEF a
        <4>1. ((walk.page + 1) - 1) * PageSize = a
          BY <3>5
        <4> DEFINE m == walk.page + 1
        <4>2. (m - 1) * PageSize = a
          BY Zenon, <4>1
        <4> HIDE DEF m
        <4>3. Page(walk.list, m) = SubSeq(walk.list, a + 1,
                IF m * PageSize < Len(walk.list) THEN m * PageSize ELSE Len(walk.list))
          BY <4>2, PageIs
        <4> QED BY Zenon, <4>3 DEF m
      <3>8. walk' = w
        BY <3>2, <3>3, <3>7
      <3> HIDE DEF i, found, part, w
      <3>9. b \in Nat /\ a <= b /\ b <= Len(walk.list)
        <4> DEFINE c == (walk.page + 1) * PageSize
        <4>1. c = a + PageSize
          BY <3>5
        <4> HIDE DEF c, a
        <4>2. b = IF c < Len(walk.list) THEN c ELSE Len(walk.list)
          BY DEF c
        <4> HIDE DEF b
        <4> QED BY <3>4, <3>5, <3>6, <4>1, <4>2
      <3> HIDE DEF a
      <3>10. b = IF (walk.page + 1) * PageSize < Len(walk.list)
                   THEN (walk.page + 1) * PageSize ELSE Len(walk.list)
        OBVIOUS
      <3> HIDE DEF b
      <3>11. Len(walk.got) = a /\ walk.got = SubSeq(walk.list, 1, a)
        BY <1>1, <1>3, <3>6 DEF PagesAreWhole, a
      <3>12. walk.got \o part = SubSeq(walk.list, 1, b)
        <4>1. SubSeq(walk.list, 1, a) \o SubSeq(walk.list, a + 1, b) = SubSeq(walk.list, 1, b)
          BY <3>4, <3>5, <3>9, PartsJoin
        <4> QED BY <3>11, <4>1 DEF part
      <3>13. SubSeq(walk.list, 1, b) \in Seq(ListedEvents) /\ Len(SubSeq(walk.list, 1, b)) = b
        BY <3>4, <3>9, PartsJoin
      <3>14. w = [list |-> walk.list, got |-> SubSeq(walk.list, 1, b), page |-> walk.page + 1]
        <4> DEFINE g == SubSeq(walk.list, 1, b)
                   p == walk.page + 1
        <4>1. w = [walk EXCEPT !.got = g, !.page = p]
          BY <3>12 DEF w
        <4> HIDE DEF g, p
        <4>2. [walk EXCEPT !.got = g, !.page = p] = [list |-> walk.list, got |-> g, page |-> p]
          BY <1>3, WalkGoesOn
        <4> QED BY <4>1, <4>2 DEF g, p
      <3>15. w \in Walks
        BY <3>4, <3>13, <3>14 DEF Walks
      <3>16. w # NoWalk
        BY <3>15 DEF Walks
      <3>17. FollowedIsWalked'
        <4>1. w.list = walk.list
          BY <3>14
        <4> QED BY <1>1, <3>8, <3>16, <4>1, AfterPruning DEF FollowedIsWalked
      <3>18. /\ w.page = walk.page + 1 /\ w.list = walk.list
             /\ w.got = SubSeq(w.list, 1, b) /\ Len(w.got) = b
        BY <3>13, <3>14
      <3>19. /\ Len(w.got) = IF w.page * PageSize < Len(w.list) THEN w.page * PageSize
                             ELSE Len(w.list)
             /\ w.got = SubSeq(w.list, 1, Len(w.got))
        BY <3>10, <3>18
      <3> QED BY <3>8, <3>15, <3>17, <3>19 DEF PagesAreWhole
    <2> QED BY <2>1, <2>2
  <1>5. PageShape'
    BY <1>1, <1>4, AfterPruning DEF PagesInv, PageShape
  <1> QED BY <1>2, <1>4, <1>5 DEF PagesInv

LEMMA TableKeeps ==
    ASSUME PagesInv, TableChanges
    PROVE  PagesInv'
  <1>1. UNCHANGED <<entries, bytes, builds, building, walk>> /\ table \in Seq(ListedEvents)
    BY DEF TableChanges, PagesInv, PageShape
  <1>2. table' \in Seq(ListedEvents)
    <2>1. CASE \E e \in ListedEvents \ ToSet(table), i \in 1 .. Len(table) + 1 :
                 table' = SubSeq(table, 1, i - 1) \o <<e>> \o SubSeq(table, i, Len(table))
      <3>1. PICK e \in ListedEvents, i \in 1 .. Len(table) + 1 :
                 table' = SubSeq(table, 1, i - 1) \o <<e>> \o SubSeq(table, i, Len(table))
        BY <2>1
      <3>2. Len(table) \in Nat /\ i \in Nat /\ i >= 1 /\ i <= Len(table) + 1
        BY <1>1
      <3>3. \A k \in 1 .. Len(table) : table[k] \in ListedEvents
        BY <1>1
      <3>4. SubSeq(table, 1, i - 1) \in Seq(ListedEvents)
        BY <1>1, <3>2, <3>3
      <3>5. SubSeq(table, i, Len(table)) \in Seq(ListedEvents)
        BY <1>1, <3>2, <3>3
      <3>6. <<e>> \in Seq(ListedEvents)
        OBVIOUS
      <3> DEFINE x == SubSeq(table, 1, i - 1)
                 y == SubSeq(table, i, Len(table))
                 z == <<e>>
      <3> HIDE DEF x, y, z
      <3>7. x \o z \o y \in Seq(ListedEvents)
        BY <3>4, <3>5, <3>6 DEF x, y, z
      <3> QED BY <3>1, <3>7 DEF x, y, z
    <2>2. CASE table # <<>> /\ table' = Front(table)
      <3>1. Len(table) \in Nat /\ Len(table) > 0
        BY <1>1, <2>2
      <3>2. SubSeq(table, 1, Len(table) - 1) \in Seq(ListedEvents)
        BY <1>1, <3>1, PartsJoin
      <3> QED BY <2>2, <3>2 DEF Front
    <2> QED BY <2>1, <2>2 DEF TableChanges
  <1>3. PageShape'
    BY <1>1, <1>2 DEF PagesInv, PageShape
  <1>4. FollowedIsWalked' /\ PagesAreWhole'
    BY <1>1 DEF PagesInv, FollowedIsWalked, PagesAreWhole
  <1>5. StoreIsBounded'
    BY <1>1 DEF PagesInv, StoreIsBounded
  <1> QED BY <1>3, <1>4, <1>5 DEF PagesInv

LEMMA TickKeeps ==
    ASSUME PagesInv, PageTick
    PROVE  PagesInv'
  <1> DEFINE next == [i \in DOMAIN entries |->
                        [entries[i] EXCEPT !.left = IF @ = 0 THEN 0 ELSE @ - 1]]
  <1>1. entries' = next /\ UNCHANGED <<table, bytes, builds, building, walk>>
    BY DEF PageTick
  <1>2. /\ entries \in Seq(FrozenLists) /\ DOMAIN entries = 1 .. Len(entries)
        /\ Len(entries) \in Nat
    BY DEF PagesInv, PageShape
  <1>3. \A k \in 1 .. Len(entries) : entries[k] \in FrozenLists
    BY <1>2
  <1>4. ASSUME NEW k \in 1 .. Len(entries)
        PROVE  /\ next[k] \in FrozenLists /\ next[k].owner = entries[k].owner
               /\ next[k].items = entries[k].items /\ next[k].followed = entries[k].followed
    <2> DEFINE l == IF entries[k].left = 0 THEN 0 ELSE entries[k].left - 1
    <2>1. entries[k] \in FrozenLists /\ entries[k].left \in Nat
      BY <1>3 DEF FrozenLists
    <2>2. l \in Nat
      BY <2>1
    <2>3. next[k] = [entries[k] EXCEPT !.left = l]
      BY <1>2
    <2> HIDE DEF l, next
    <2> QED BY <2>1, <2>2, <2>3 DEF FrozenLists
  <1>5. next = [k \in 1 .. Len(entries) |-> next[k]] /\ DOMAIN next = 1 .. Len(entries)
    BY <1>2
  <1> HIDE DEF next
  <1>6. next \in Seq(FrozenLists) /\ Len(next) = Len(entries)
    <2>1. next \in [1 .. Len(entries) -> FrozenLists]
      BY <1>4, <1>5
    <2> QED BY <1>2, <1>5, <2>1
  <1>7. BytesOf(next) = BytesOf(entries) /\ \A o : Owned(next, o) = Owned(entries, o)
    BY <1>2, <1>4, <1>6, AlikeLists
  <1>8. StoreIsBounded'
    BY <1>1, <1>6, <1>7 DEF PagesInv, StoreIsBounded
  <1>9. FollowedIsWalked'
    BY <1>1, <1>2, <1>4, <1>5 DEF PagesInv, FollowedIsWalked
  <1>10. PageShape' /\ PagesAreWhole'
    BY <1>1, <1>6 DEF PagesInv, PageShape, PagesAreWhole
  <1> QED BY <1>8, <1>9, <1>10 DEF PagesInv

LEMMA RestartKeeps ==
    ASSUME PagesInv, PagesRestart
    PROVE  PagesInv'
  <1>1. /\ entries' = <<>> /\ bytes' = 0 /\ builds' = 0 /\ UNCHANGED <<table, walk>>
        /\ building' = [o \in PageReaders |-> NoBuild]
    BY DEF PagesRestart
  <1>2. <<>> \in Seq(FrozenLists) /\ Len(<<>>) = 0 /\ DOMAIN <<>> = {}
    OBVIOUS
  <1>3. PageShape'
    BY <1>1, <1>2 DEF PagesInv, PageShape
  <1>4. FollowedIsWalked' /\ PagesAreWhole'
    BY <1>1, <1>2 DEF PagesInv, FollowedIsWalked, PagesAreWhole
  <1>5. StoreIsBounded'
    <2>1. entries' \in Seq(FrozenLists) /\ Len(entries') = 0 /\ DOMAIN entries' = {}
      BY <1>1, <1>2
    <2>2. BytesOf(entries') = 0
      BY <2>1, BytesOfNone
    <2>3. \A o : Owned(entries', o) = {}
      BY <2>1 DEF Owned
    <2>4. {o \in PageReaders : building'[o] # NoBuild} = {}
      BY <1>1
    <2>5. Cardinality({}) = 0
      BY FS_EmptySet
    <2>6. MaxBytes \in Nat /\ MaxEntries \in Nat /\ MaxOwnerEntries \in Nat
      OBVIOUS
    <2>7. bytes' <= MaxBytes /\ Len(entries') <= MaxEntries /\ 0 <= MaxOwnerEntries
      BY <1>1, <2>1, <2>6
    <2> QED BY <1>1, <2>2, <2>3, <2>4, <2>5, <2>7 DEF StoreIsBounded
  <1> QED BY <1>3, <1>4, <1>5 DEF PagesInv

(* "Freeze event metadata once, then page without consulting mutable event *)
(* rows again" (event_page_store.py): whatever is read, put, evicted,      *)
(* expires or fails in whatever order, the pages a reader turns follow one *)
(* list from its start without a gap or a repetition, the store is in its  *)
(* limits and its counters are what it holds.                              *)
THEOREM PagesServed == PageSpec => []PagesAreServed
  <1>1. PageInit => PagesInv
    BY ListsBegin
  <1>2. PagesInv /\ [PageNext]_pageVars => PagesInv'
    <2> SUFFICES ASSUME PagesInv, [PageNext]_pageVars PROVE PagesInv'
      OBVIOUS
    <2>1. CASE \E o \in PageReaders : BeginBuild(o) \/ ReadTable(o) \/ BuildFails(o)
      BY <2>1, RequestMoves
    <2>2. CASE \E o \in PageReaders : PutList(o)
      BY <2>2, PutKeeps
    <2>3. CASE TurnPage
      BY <2>3, TurnKeeps
    <2>4. CASE TableChanges
      BY <2>4, TableKeeps
    <2>5. CASE PageTick
      BY <2>5, TickKeeps
    <2>6. CASE PagesRestart
      BY <2>6, RestartKeeps
    <2>7. CASE UNCHANGED pageVars
      <3>1. UNCHANGED <<table, entries, bytes, builds, building, walk>>
        BY <2>7 DEF pageVars
      <3>2. PageShape' /\ FollowedIsWalked' /\ PagesAreWhole'
        BY <3>1 DEF PagesInv, PageShape, FollowedIsWalked, PagesAreWhole
      <3>3. StoreIsBounded'
        BY <3>1 DEF PagesInv, StoreIsBounded
      <3> QED BY <3>2, <3>3 DEF PagesInv
    <2> QED BY <2>1, <2>2, <2>3, <2>4, <2>5, <2>6, <2>7 DEF PageNext
  <1>3. PagesInv => PagesAreServed
    <2> SUFFICES ASSUME PagesInv PROVE PagesAreServed
      OBVIOUS
    <2>1. ASSUME walk # NoWalk PROVE IsPrefix(walk.got, walk.list)
      <3>1. /\ walk \in Walks /\ walk.got = SubSeq(walk.list, 1, Len(walk.got))
            /\ Len(walk.got) = IF walk.page * PageSize < Len(walk.list)
                                 THEN walk.page * PageSize ELSE Len(walk.list)
        BY <2>1 DEF PagesInv, PageShape, PagesAreWhole
      <3>2. Len(walk.list) \in Nat /\ walk.page * PageSize \in Nat
        BY <3>1 DEF Walks
      <3>3. Len(walk.got) <= Len(walk.list)
        BY <3>1, <3>2
      <3> QED BY <3>1, <3>3 DEF IsPrefix
    <2> QED BY <2>1 DEF PagesInv, PagesAreServed, PagesAreOfOneList
  <1> QED BY <1>1, <1>2, <1>3, PTL DEF PageSpec
=============================================================================

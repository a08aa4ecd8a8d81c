-------------------------------- MODULE MCLive --------------------------------
(* Clip jobs of two events without an administrator and of one event with  *)
(* one, and what the dashboard shows of the camera: its status and its     *)
(* playback, in one instance for TLC: in each behaviour one of them moves  *)
(* and the others stay as they began, so that the states are the sum of    *)
(* theirs and not the product.                                             *)
EXTENDS MediaJobs, CameraStatus, WebRTC, TLC

VARIABLE part

LiveInit ==
    /\ part \in {"events", "requests", "camera", "play"} /\ Init /\ CameraInit /\ PlayInit
    /\ part \in {"camera", "play"} => ~config.enabled

LiveNext ==
    /\ UNCHANGED part
    /\ \/ /\ \/ part = "events"   /\ Unattended
             \/ part = "requests" /\ Next /\ \A e \in V2Events \ Watched : age'[e] = Absent
          /\ UNCHANGED <<cameraVars, playVars>>
       \/ part = "camera" /\ CameraNext /\ UNCHANGED <<vars, playVars>>
       \/ part = "play"   /\ PlayNext   /\ UNCHANGED <<vars, cameraVars>>

LiveSpec == LiveInit /\ [][LiveNext]_<<part, vars, cameraVars, playVars>>

(* Streams and sessions are named alike, and told apart by nothing else. *)
NameSymmetry == Permutations(Readers)

(* The retry delays, scaled down. *)
ShortBackoff == <<1>>
=============================================================================

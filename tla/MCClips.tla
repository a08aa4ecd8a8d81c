-------------------------------- MODULE MCClips --------------------------------
(* Two kinds of clips that somebody asks for, in one instance for TLC: in  *)
(* each behaviour one of the components moves and the other stays as it    *)
(* began, so that the states are the sum of theirs and not the product.    *)
EXTENDS MediaJobs, ExportJobs, TLC

VARIABLE part

ClipsInit ==
    /\ part \in {"jobs", "exports"} /\ Init /\ ExportInit
    /\ part # "jobs" => config = [source |-> CHOOSE s \in Sources : TRUE, enabled |-> FALSE]

ClipsNext ==
    /\ UNCHANGED part
    /\ \/ part = "jobs"    /\ Next       /\ UNCHANGED exportVars
       \/ part = "exports" /\ ExportNext /\ UNCHANGED vars

ClipsSpec == ClipsInit /\ [][ClipsNext]_<<part, vars, exportVars>>

(* Media assignments, and requests, are told apart by nothing else. *)
NameSymmetry == Permutations(Sources) \union Permutations(Requests)

(* The retry delays, scaled down. *)
ShortBackoff == <<1>>
=============================================================================

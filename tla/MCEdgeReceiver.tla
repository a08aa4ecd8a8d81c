---------------------------- MODULE MCEdgeReceiver ----------------------------
(* Instances of EdgeReceiver for TLC. *)
EXTENDS EdgeReceiver, TLC

Status(id, instance, seq, gen, overall) ==
    [id |-> id, kind |-> "status", gen |-> gen, key |-> <<instance, seq>>,
     instance |-> instance, seq |-> seq, overall |-> overall]

Other(kind, id, gen) ==
    [id |-> id, kind |-> kind, gen |-> gen, key |-> <<kind, id>>,
     instance |-> "x", seq |-> 0, overall |-> "usable"]

(* Two bodies with one id, and one artifact with two contents under two ids. *)
Conflicting == {Status("a", "x", 1, 1, "usable"), Status("a", "x", 2, 2, "usable"),
                Status("b", "x", 1, 1, "down"), Status("c", "x", 1, 1, "usable")}

(* An orchestrator whose clock steps back between two statuses, its restart, *)
(* and a load before and after.                                              *)
Restarted == {Status("a", "x", 1, 2, "usable"), Status("b", "x", 2, 1, "down"),
              Status("c", "y", 1, 3, "usable"), Other("state", "d", 1), Other("state", "e", 2)}

(* Two statuses in order. *)
TwoStatuses == {Status("a", "x", 1, 1, "usable"), Status("b", "x", 2, 2, "usable")}

(* Where reads are undisturbed, instances report in turn. *)
ASSUME ReadsOfInstancesInTurn == Torn \/ InstancesInTurn

HandlerSymmetry == Permutations(Handlers)
=============================================================================

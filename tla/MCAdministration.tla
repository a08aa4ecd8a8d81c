--------------------------- MODULE MCAdministration ---------------------------
(* Administrators at work, and the recipients they edit, in one instance   *)
(* for TLC: in each behaviour one component moves and the other stays as   *)
(* it began, so that the states are the sum of theirs and not the product. *)
EXTENDS Administration, Recipients, TLC

VARIABLE part

AdministrationInit ==
    /\ part \in {"administration", "recipients"} /\ Init /\ RecipientsInit
    /\ part # "administration" => dialect = (CHOOSE d \in Dialects : TRUE) /\ pit = NoPit

AdministrationNext ==
    /\ UNCHANGED part
    /\ \/ part = "administration" /\ Next           /\ UNCHANGED recipientVars
       \/ part = "recipients"     /\ RecipientsNext /\ UNCHANGED vars

AdministrationSpec == AdministrationInit /\ [][AdministrationNext]_<<part, vars, recipientVars>>

RequestSymmetry == Permutations(Requests)

(* The default pair, and one whose warning fits no other critical level. *)
Pairs == {<<70, 85>>, <<84, 95>>}
=============================================================================

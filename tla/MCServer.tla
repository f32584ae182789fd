------------------------------ MODULE MCServer ------------------------------
(***************************************************************************)
(* Server for TLC: values of the constants.                                *)
(***************************************************************************)
EXTENDS Server

ValidConfigs == {[queueSize |-> 1, endpoint |-> FALSE], [queueSize |-> 1, endpoint |-> TRUE]}
PlainConfigs == {[queueSize |-> 1, endpoint |-> FALSE]}
AllConfigs == ValidConfigs \cup {[queueSize |-> -1, endpoint |-> FALSE]}

Symmetry == Permutations(Admin) \cup Permutations(Type) \cup Permutations(Schema)
              \cup Permutations(Entry) \cup Permutations(Ctx) \cup Permutations(Client)
=============================================================================

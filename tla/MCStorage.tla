------------------------------ MODULE MCStorage ------------------------------
(***************************************************************************)
(* Storage for TLC: two types, of which the first may change its columns   *)
(* and the second may move into the folder of the first.                   *)
(***************************************************************************)
EXTENDS Storage, TLC

MCDefinitions ==
  { [type |-> 1, folder |-> 1, columns |-> <<"a">>],
    [type |-> 1, folder |-> 1, columns |-> <<"a", "b">>],
    [type |-> 2, folder |-> 1, columns |-> <<"a">>],
    [type |-> 2, folder |-> 2, columns |-> <<"a">>] }

MapSymmetry == Permutations(MapId)

=============================================================================

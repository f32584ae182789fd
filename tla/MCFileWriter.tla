---------------------------- MODULE MCFileWriter ----------------------------
(***************************************************************************)
(* FileWriter for TLC: items differ only in identity and stamp, so their   *)
(* identities are interchangeable.                                         *)
(***************************************************************************)
EXTENDS FileWriter

IdSymmetry == Permutations(Id)
=============================================================================

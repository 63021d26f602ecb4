---------------------------- MODULE MCDeskRaces ----------------------------
(***************************************************************************)
(* Instances of DeskRaces for TLC.                                         *)
(***************************************************************************)
EXTENDS DeskRaces, TLC

Symmetry == Permutations(Agents) \union Permutations(Tasks)
                \union Permutations(Contacts)
=============================================================================

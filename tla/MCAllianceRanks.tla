-------------------------- MODULE MCAllianceRanks --------------------------
(***************************************************************************)
(* Small instances of AllianceRanks.                                       *)
(***************************************************************************)
EXTENDS AllianceRanks, TLC

\* Users are interchangeable, alliances too.
UserSymmetry == Permutations(User) \cup Permutations(Alliance)
=============================================================================

------------------------------- MODULE MCApiKeys -------------------------------
(* Small instances of ApiKeys.                                             *)
EXTENDS ApiKeys, TLC

Symmetry == Permutations(Create) \cup Permutations(Revoke) \cup Permutations(Use)
               \cup Permutations(Workspace) \cup Permutations(Name)
=============================================================================

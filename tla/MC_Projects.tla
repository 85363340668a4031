----------------------------- MODULE MC_Projects -----------------------------
(***************************************************************************)
(* Small instances of Projects for TLC.                                    *)
(***************************************************************************)
EXTENDS Projects, TLC

\* Every address is short and stored as it is.
EmailLengths == [e \in Email |-> 20]
Clips == [e \in Email |-> e]

Interchangeable ==
  Permutations(UserId) \cup Permutations(ProjectId) \cup Permutations(Key)
    \cup Permutations(Email) \cup Permutations(Client)
==============================================================================

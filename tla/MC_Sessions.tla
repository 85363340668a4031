----------------------------- MODULE MC_Sessions -----------------------------
(***************************************************************************)
(* A small instance of Sessions for TLC.                                   *)
(***************************************************************************)
EXTENDS Sessions, TLC

\* The cookie of ann's address is whole, that of bea's loses its path, that of
\* cyd's the end of its token.
CONSTANTS ann, bea, cyd

Length == ann :> 32 @@ bea :> 33 @@ cyd :> 46

EmailLengths == [e \in Email |-> Length[e]]

Interchangeable == Permutations(Worker)
=============================================================================
